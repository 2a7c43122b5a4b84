---------------------------- MODULE Detect_proofs ----------------------------
(***************************************************************************)
(* Proofs about Periodic and Detect, for any connections, rules, times and *)
(* thresholds.                                                             *)
(*                                                                         *)
(* Periodic: pruning the pruned list again loses nothing, since the cutoff *)
(* only moves forward; equal gaps have no variance, so that a regular      *)
(* beacon passes any threshold; and the detector decides as BeaconRule     *)
(* does, by Lagrange's identity.  Detect: an alert of the novelty detector *)
(* belongs to the first event with its process or connection, because the  *)
(* maps hold exactly what has been analysed.                               *)
(***************************************************************************)
EXTENDS Detect, Lists_proofs

-----------------------------------------------------------------------------
(***************************************************************************)
(* The loops.                                                              *)
(***************************************************************************)
(* What Keep(s, T) has kept after each step of its loop.                   *)
Keeps(g, S, s, T) ==
  /\ g \in [0 .. Len(s) -> Seq(S)] /\ g[0] = <<>>
  /\ \A i \in 1 .. Len(s) : g[i] = IF s[i] \in T THEN Append(g[i - 1], s[i]) ELSE g[i - 1]

(* Keep returns what is there after the last step.                         *)
LEMMA KeepLoop ==
  ASSUME NEW S, NEW s \in Seq(S), NEW T, NEW g, Keeps(g, S, s, T)
  PROVE  Keep(s, T) = g[Len(s)]
<1> DEFINE n == Len(s)
           Body(f) == [i \in 0 .. n |-> IF i = 0 THEN <<>>
                         ELSE IF s[i] \in T THEN Append(f[i - 1], s[i]) ELSE f[i - 1]]
           F == CHOOSE f : f = Body(f)
<1>1. Keep(s, T) = F[n]
  BY DEF Keep
<1>2. /\ n \in Nat /\ g \in [0 .. n -> Seq(S)] /\ g[0] = <<>>
      /\ \A i \in 1 .. n : g[i] = IF s[i] \in T THEN Append(g[i - 1], s[i]) ELSE g[i - 1]
  BY DEF Keeps
<1>3. g = Body(g)
  <2>1. ASSUME NEW i \in 0 .. n
        PROVE  g[i] = Body(g)[i]
    <3>1. i = 0 \/ i \in 1 .. n
      BY <1>2
    <3> QED
      BY <1>2, <3>1
  <2>2. Body(g) = [i \in 0 .. n |-> Body(g)[i]] /\ g = [i \in 0 .. n |-> g[i]]
    BY <1>2
  <2> HIDE DEF Body
  <2> QED
    BY <2>1, <2>2
<1>4. F = Body(F)
  <2> HIDE DEF Body
  <2> QED
    BY <1>3
<1> HIDE DEF F
<1> DEFINE N == {i \in Nat : i \in 0 .. n => F[i] = g[i]}
<1>5. 0 \in N
  BY <1>2, <1>4
<1>6. ASSUME NEW i \in Nat, i \in N
      PROVE  i + 1 \in N
  <2> SUFFICES ASSUME i + 1 \in 0 .. n
               PROVE  F[i + 1] = g[i + 1]
    OBVIOUS
  <2>1. i + 1 \in 1 .. n /\ i \in 0 .. n /\ (i + 1) - 1 = i /\ i + 1 # 0
    BY <1>2
  <2>2. F[i] = g[i]
    BY <1>6, <2>1
  <2>3. F[i + 1] = IF s[i + 1] \in T THEN Append(F[i], s[i + 1]) ELSE F[i]
    BY <1>4, <2>1
  <2>4. g[i + 1] = IF s[i + 1] \in T THEN Append(g[i], s[i + 1]) ELSE g[i]
    BY <1>2, <2>1
  <2> QED
    BY <2>2, <2>3, <2>4
<1> HIDE DEF N
<1>7. n \in N
  BY <1>2, <1>5, <1>6, NaturalsFollow
<1> QED
  BY <1>1, <1>2, <1>7 DEF N

(* The loop exists.                                                        *)
LEMMA KeepRuns ==
  ASSUME NEW S, NEW s \in Seq(S), NEW T
  PROVE  \E g : Keeps(g, S, s, T)
<1> DEFINE n == Len(s)
           V == Seq(S)
           op == [i \in 1 .. n |-> [v \in V |-> IF s[i] \in T THEN Append(v, s[i]) ELSE v]]
<1>1. op \in [1 .. n -> [V -> V]]
  <2>1. ASSUME NEW i \in 1 .. n, NEW v \in V
        PROVE  Append(v, s[i]) \in V
    BY AppendProperties
  <2> QED
    BY <2>1
<1>2. n \in Nat /\ <<>> \in V
  OBVIOUS
<1>3. \A i \in 1 .. n, v \in V : op[i][v] = IF s[i] \in T THEN Append(v, s[i]) ELSE v
  OBVIOUS
<1> HIDE DEF op, V, n
<1>4. PICK g : Runs(g, V, <<>>, n, op)
  BY <1>1, <1>2, LoopExists
<1>5. \A i \in 1 .. n : g[i] = IF s[i] \in T THEN Append(g[i - 1], s[i]) ELSE g[i - 1]
  <2>1. \A i \in 1 .. n : i - 1 \in 0 .. n
    BY <1>2
  <2>2. \A i \in 1 .. n : g[i - 1] \in V /\ g[i] = op[i][g[i - 1]]
    BY <1>4, <2>1 DEF Runs
  <2> QED
    BY <1>3, <2>2
<1> QED
  BY <1>4, <1>5 DEF Runs, Keeps, n, V

LEMMA KeepType ==
  ASSUME NEW S, NEW s \in Seq(S), NEW T
  PROVE  Keep(s, T) \in Seq(S)
<1>1. PICK g : Keeps(g, S, s, T)
  BY KeepRuns
<1>2. Keep(s, T) = g[Len(s)]
  BY <1>1, KeepLoop
<1> QED
  BY <1>1, <1>2 DEF Keeps

(* What is kept of one more element, and of nothing.                       *)
LEMMA KeepAppend ==
  ASSUME NEW S, NEW s \in Seq(S), NEW T, NEW x \in S
  PROVE  /\ x \in T => Keep(Append(s, x), T) = Append(Keep(s, T), x)
         /\ x \notin T => Keep(Append(s, x), T) = Keep(s, T)
<1> DEFINE t == Append(s, x)
           n == Len(s)
<1>1. /\ t \in Seq(S) /\ Len(t) = n + 1 /\ n \in Nat
      /\ \A i \in 1 .. n : t[i] = s[i]
      /\ t[n + 1] = x
  BY AppendProperties
<1> HIDE DEF t
<1>a. PICK g : Keeps(g, S, t, T)
  BY <1>1, KeepRuns
<1>2. /\ g \in [0 .. n + 1 -> Seq(S)] /\ g[0] = <<>>
      /\ \A i \in 1 .. n + 1 : g[i] = IF t[i] \in T THEN Append(g[i - 1], t[i]) ELSE g[i - 1]
  BY <1>1, <1>a DEF Keeps
<1>3. Keep(t, T) = g[n + 1]
  BY <1>1, <1>a, KeepLoop
<1> DEFINE h == [i \in 0 .. n |-> g[i]]
<1>4. h \in [0 .. n -> Seq(S)] /\ h[0] = <<>> /\ h[n] = g[n]
  BY <1>1, <1>2
<1>5. ASSUME NEW i \in 1 .. n
      PROVE  h[i] = IF s[i] \in T THEN Append(h[i - 1], s[i]) ELSE h[i - 1]
  <2>1. i \in 1 .. n + 1 /\ i \in 0 .. n /\ i - 1 \in 0 .. n
    BY <1>1
  <2>2. g[i] = IF s[i] \in T THEN Append(g[i - 1], s[i]) ELSE g[i - 1]
    BY <1>1, <1>2, <2>1
  <2> QED
    BY <2>1, <2>2
<1> HIDE DEF h
<1>b. Keeps(h, S, s, T)
  BY <1>4, <1>5 DEF Keeps
<1>6. Keep(s, T) = h[n]
  BY <1>b, KeepLoop
<1>7. g[n + 1] = IF x \in T THEN Append(g[n], x) ELSE g[n]
  <2>1. n + 1 \in 1 .. n + 1 /\ (n + 1) - 1 = n
    BY <1>1
  <2> QED
    BY <1>1, <1>2, <2>1
<1>8. g[n] \in Seq(S)
  BY <1>1, <1>2
<1> QED
  BY <1>3, <1>4, <1>6, <1>7, <1>8 DEF t

LEMMA KeepNone ==
  ASSUME NEW T
  PROVE  Keep(<<>>, T) = <<>>
<1> DEFINE g == [i \in 0 .. 0 |-> <<>>]
<1>1. <<>> \in Seq(Nat) /\ Len(<<>>) = 0 /\ g[0] = <<>>
  OBVIOUS
<1>2. Keeps(g, Nat, <<>>, T)
  BY DEF Keeps
<1> DEFINE e == <<>>
           S == Nat
<1>3. Len(e) = 0 /\ g[0] = e
  BY <1>1
<1>4. e \in Seq(S) /\ Keeps(g, S, e, T)
  BY <1>1, <1>2
<1> HIDE DEF g, e, S
<1>5. Keep(e, T) = g[Len(e)]
  BY ONLY <1>4, KeepLoop, Zenon
<1> QED
  BY ONLY <1>3, <1>5 DEF e

(* Keeping twice is keeping the fewer.                                     *)
LEMMA KeepTwice ==
  ASSUME NEW S, NEW s \in Seq(S), NEW T, NEW U, U \cap S \subseteq T
  PROVE  Keep(Keep(s, T), U) = Keep(s, U)
<1> DEFINE n == Len(s)
<1>a. PICK g : Keeps(g, S, s, T)
  BY KeepRuns
<1>1. /\ g \in [0 .. n -> Seq(S)] /\ g[0] = <<>>
      /\ \A i \in 1 .. n : g[i] = IF s[i] \in T THEN Append(g[i - 1], s[i]) ELSE g[i - 1]
  BY <1>a DEF Keeps
<1>2. Keep(s, T) = g[n] /\ n \in Nat
  BY <1>a, KeepLoop
<1> DEFINE h == [i \in 0 .. n |-> Keep(g[i], U)]
<1>3. /\ h \in [0 .. n -> Seq(S)] /\ h[0] = <<>> /\ h[n] = Keep(g[n], U)
      /\ \A i \in 0 .. n : h[i] = Keep(g[i], U)
  <2>1. \A i \in 0 .. n : Keep(g[i], U) \in Seq(S)
    BY <1>1, KeepType
  <2> QED
    BY <1>1, <1>2, <2>1, KeepNone
<1> HIDE DEF h
<1>4. ASSUME NEW i \in 1 .. n
      PROVE  h[i] = IF s[i] \in U THEN Append(h[i - 1], s[i]) ELSE h[i - 1]
  <2>1. i \in 0 .. n /\ i - 1 \in 0 .. n /\ s[i] \in S
    BY <1>2
  <2>2. g[i - 1] \in Seq(S)
    BY <1>1, <2>1
  <2>3. Keep(Append(g[i - 1], s[i]), U) = IF s[i] \in U THEN Append(Keep(g[i - 1], U), s[i]) ELSE Keep(g[i - 1], U)
    <3> DEFINE p == g[i - 1]
               x == s[i]
    <3>1. p \in Seq(S) /\ x \in S
      BY <2>1, <2>2
    <3> HIDE DEF p, x
    <3>2. /\ x \in U => Keep(Append(p, x), U) = Append(Keep(p, U), x)
          /\ x \notin U => Keep(Append(p, x), U) = Keep(p, U)
      BY ONLY <3>1, KeepAppend
    <3> QED
      BY <3>2 DEF p, x
  <2>4. g[i] = IF s[i] \in T THEN Append(g[i - 1], s[i]) ELSE g[i - 1]
    BY <1>1
  <2>5. s[i] \in U => s[i] \in T
    BY <2>1
  <2> QED
    BY <1>3, <2>1, <2>3, <2>4, <2>5
<1>b. Keeps(h, S, s, U)
  BY <1>3, <1>4 DEF Keeps
<1>5. Keep(s, U) = h[n]
  BY <1>b, KeepLoop
<1> QED
  BY <1>2, <1>3, <1>5

(* Keeping what is all wanted.                                             *)
LEMMA KeepAll ==
  ASSUME NEW S, NEW s \in Seq(S), NEW T, \A i \in 1 .. Len(s) : s[i] \in T
  PROVE  Keep(s, T) = s
<1> DEFINE g == [i \in 0 .. Len(s) |-> SubSeq(s, 1, i)]
<1>1. g \in [0 .. Len(s) -> Seq(S)] /\ g[0] = <<>> /\ g[Len(s)] = s
  OBVIOUS
<1>2. ASSUME NEW i \in 1 .. Len(s)
      PROVE  g[i] = Append(g[i - 1], s[i])
  <2>1. i \in 0 .. Len(s) /\ i - 1 \in 0 .. Len(s)
    OBVIOUS
  <2>2. SubSeq(s, 1, i) = Append(SubSeq(s, 1, i - 1), s[i])
    BY PrefixGrows
  <2> QED
    BY <2>1, <2>2
<1> HIDE DEF g
<1>3. Keeps(g, S, s, T)
  BY <1>1, <1>2 DEF Keeps
<1>4. Keep(s, T) = g[Len(s)]
  BY <1>3, KeepLoop
<1> QED
  BY <1>1, <1>4

(* Keep has as many elements as there are wanted ones, and the same.       *)
Wanted(s, T) == {i \in DOMAIN s : s[i] \in T}

LEMMA KeepCounts ==
  ASSUME NEW S, NEW T
  PROVE  \A s \in Seq(S) :
           /\ IsFiniteSet(Wanted(s, T)) /\ Len(Keep(s, T)) = Cardinality(Wanted(s, T))
           /\ ToSet(Keep(s, T)) = {s[i] : i \in Wanted(s, T)}
<1> DEFINE D(s) == {i \in DOMAIN s : s[i] \in T}
           Good(s) == /\ IsFiniteSet(D(s)) /\ Len(Keep(s, T)) = Cardinality(D(s))
                      /\ ToSet(Keep(s, T)) = {s[i] : i \in D(s)}
           X == {s \in Seq(S) : Good(s)}
<1>1. <<>> \in X
  <2>1. D(<<>>) = {} /\ Len(<<>>) = 0 /\ ToSet(<<>>) = {} /\ <<>> \in Seq(S)
    BY DEF ToSet
  <2> QED
    BY <2>1, KeepNone, FS_EmptySet
<1>2. ASSUME NEW s \in Seq(S), NEW x \in S, s \in X
      PROVE  Append(s, x) \in X
  <2> DEFINE n == Len(s)
             t == Append(s, x)
             k == Keep(s, T)
  <2>1. /\ t \in Seq(S) /\ Len(t) = n + 1 /\ n \in Nat /\ t[n + 1] = x
        /\ \A i \in 1 .. n : t[i] = s[i]
        /\ DOMAIN s = 1 .. n /\ DOMAIN t = 1 .. n + 1
    BY AppendProperties
  <2>2. Good(s)
    BY <1>2
  <2>3. k \in Seq(S) /\ Len(k) \in Nat
    BY KeepType
  <2>4. /\ x \in T => Keep(t, T) = Append(k, x)
        /\ x \notin T => Keep(t, T) = k
    BY KeepAppend
  <2>5. ToSet(Append(k, x)) = ToSet(k) \cup {x} /\ Len(Append(k, x)) = Len(k) + 1
    <3>1. /\ Len(Append(k, x)) = Len(k) + 1 /\ Append(k, x) \in Seq(S) /\ Append(k, x)[Len(k) + 1] = x
          /\ \A i \in 1 .. Len(k) : Append(k, x)[i] = k[i]
      BY <2>3, AppendProperties
    <3>2. /\ ToSet(k) = {k[i] : i \in 1 .. Len(k)}
          /\ ToSet(Append(k, x)) = {Append(k, x)[i] : i \in 1 .. Len(k) + 1}
      BY <2>3, <3>1, ToSetFacts
    <3>3. 1 .. Len(k) + 1 = 1 .. Len(k) \cup {Len(k) + 1}
      BY <2>3
    <3> HIDE DEF k
    <3> QED
      BY <3>1, <3>2, <3>3
  <2> HIDE DEF t, k
  <2>6. CASE x \in T
    <3>1. D(t) = D(s) \cup {n + 1} /\ n + 1 \notin D(s)
      BY <2>1, <2>6
    <3>2. IsFiniteSet(D(t)) /\ Cardinality(D(t)) = Cardinality(D(s)) + 1
      <4> DEFINE d == D(s)
                 e == D(t)
                 y == n + 1
      <4>1. IsFiniteSet(d) /\ y \notin d /\ e = d \cup {y}
        BY <2>2, <3>1
      <4> HIDE DEF d, e, y
      <4>2. IsFiniteSet(e) /\ Cardinality(e) = Cardinality(d) + 1
        BY ONLY <4>1, FS_AddElement
      <4> QED
        BY <4>2 DEF d, e
    <3>3. {t[i] : i \in D(t)} = {s[i] : i \in D(s)} \cup {x}
      BY <2>1, <3>1
    <3> QED
      BY <2>1, <2>2, <2>4, <2>5, <2>6, <3>2, <3>3 DEF k, t
  <2>7. CASE x \notin T
    <3>1. D(t) = D(s)
      BY <2>1, <2>7
    <3>2. {t[i] : i \in D(t)} = {s[i] : i \in D(s)}
      BY <2>1, <3>1
    <3> QED
      BY <2>1, <2>2, <2>4, <2>7, <3>1, <3>2 DEF k, t
  <2> QED
    BY <2>6, <2>7
<1> HIDE DEF X
<1>3. Seq(S) \subseteq X
  BY <1>1, <1>2, SequencesFollow
<1> QED
  BY <1>3 DEF X, Wanted

Sorted(s) == \A i, j \in 1 .. Len(s) : i <= j => s[i] <= s[j]

(* What is kept of a sorted list is sorted.                                *)
LEMMA KeepSorted ==
  ASSUME NEW S, S \subseteq Int, NEW T
  PROVE  \A s \in Seq(S) : Sorted(s) => Sorted(Keep(s, T))
<1> DEFINE X == {s \in Seq(S) : Sorted(s) => Sorted(Keep(s, T))}
<1>1. <<>> \in X
  BY KeepNone DEF Sorted
<1>2. ASSUME NEW s \in Seq(S), NEW x \in S, s \in X
      PROVE  Append(s, x) \in X
  <2> DEFINE n == Len(s)
             t == Append(s, x)
             k == Keep(s, T)
  <2>1. /\ t \in Seq(S) /\ Len(t) = n + 1 /\ n \in Nat /\ t[n + 1] = x
        /\ \A i \in 1 .. n : t[i] = s[i]
        /\ DOMAIN s = 1 .. n
    BY AppendProperties
  <2>2. k \in Seq(S) /\ Len(k) \in Nat /\ \A i \in 1 .. Len(k) : k[i] \in {s[j] : j \in 1 .. n}
    <3>1. ToSet(k) = {s[j] : j \in {i \in DOMAIN s : s[i] \in T}} /\ k \in Seq(S)
      <4>1. ToSet(Keep(s, T)) = {s[j] : j \in Wanted(s, T)}
        BY KeepCounts
      <4>2. Keep(s, T) \in Seq(S)
        BY KeepType
      <4> QED
        BY <4>1, <4>2 DEF Wanted
    <3>2. ToSet(k) = {k[i] : i \in 1 .. Len(k)} /\ Len(k) \in Nat
      <4>1. k \in Seq(S)
        BY <3>1
      <4> HIDE DEF k
      <4> QED
        BY ONLY <4>1, ToSetFacts
    <3>3. \A i \in 1 .. Len(k) : k[i] \in ToSet(k)
      BY <3>2
    <3> QED
      BY <2>1, <3>1, <3>2, <3>3
  <2>3. /\ x \in T => Keep(t, T) = Append(k, x)
        /\ x \notin T => Keep(t, T) = k
    BY KeepAppend
  <2>4. /\ Len(Append(k, x)) = Len(k) + 1 /\ Append(k, x)[Len(k) + 1] = x
        /\ \A i \in 1 .. Len(k) : Append(k, x)[i] = k[i]
    BY <2>2, AppendProperties
  <2> HIDE DEF t, k
  <2>5. ASSUME Sorted(t)
        PROVE  Sorted(Keep(t, T))
    <3>1. \A i \in 1 .. n : s[i] <= x
      <4>1. \A i \in 1 .. n : i \in 1 .. Len(t) /\ n + 1 \in 1 .. Len(t) /\ i <= n + 1
        BY <2>1
      <4> QED
        BY <2>1, <2>5, <4>1 DEF Sorted
    <3>2. Sorted(k)
      <4>1. \A i \in 1 .. n : i \in 1 .. Len(t)
        BY <2>1
      <4>2. Sorted(s)
        BY <2>1, <2>5, <4>1 DEF Sorted
      <4> QED
        BY <1>2, <4>2 DEF k
    <3>3. \A i \in 1 .. Len(k) : k[i] <= x
      BY <2>2, <3>1
    <3>4. Sorted(Append(k, x))
      <4> DEFINE u == Append(k, x)
      <4> HIDE DEF u
      <4>1. /\ Len(u) = Len(k) + 1 /\ u[Len(k) + 1] = x
            /\ \A i \in 1 .. Len(k) : u[i] = k[i]
        BY <2>4 DEF u
      <4>2. ASSUME NEW i \in 1 .. Len(u), NEW j \in 1 .. Len(u), i <= j
            PROVE  u[i] <= u[j]
        <5>1. CASE j \in 1 .. Len(k)
          <6>1. i \in 1 .. Len(k)
            BY <2>2, <4>2, <5>1
          <6> QED
            BY <3>2, <4>1, <4>2, <5>1, <6>1 DEF Sorted
        <5>2. CASE j = Len(k) + 1
          <6>1. x <= x
            BY x \in Int
          <6>2. i \in 1 .. Len(k) \/ i = Len(k) + 1
            BY <2>2, <4>1
          <6> QED
            BY <3>3, <4>1, <5>2, <6>1, <6>2
        <5> QED
          BY <2>2, <4>1, <5>1, <5>2
      <4>3. Sorted(u)
        BY <4>2 DEF Sorted
      <4> QED
        BY <4>3 DEF u
    <3> QED
      BY <2>3, <3>2, <3>4
  <2> QED
    BY <2>1, <2>5 DEF t
<1> HIDE DEF X
<1>3. Seq(S) \subseteq X
  BY <1>1, <1>2, SequencesFollow
<1> QED
  BY <1>3 DEF X

(* What Sum(s) has added up after each step of its loop.                   *)
Sums(g, s) ==
  /\ g \in [0 .. Len(s) -> Int] /\ g[0] = 0
  /\ \A i \in 1 .. Len(s) : g[i] = g[i - 1] + s[i]

LEMMA SumLoop ==
  ASSUME NEW s \in Seq(Int), NEW g, Sums(g, s)
  PROVE  Sum(s) = g[Len(s)]
<1> DEFINE n == Len(s)
           Body(f) == [i \in 0 .. n |-> IF i = 0 THEN 0 ELSE f[i - 1] + s[i]]
           F == CHOOSE f : f = Body(f)
<1>1. Sum(s) = F[n]
  BY DEF Sum
<1>2. /\ n \in Nat /\ g \in [0 .. n -> Int] /\ g[0] = 0
      /\ \A i \in 1 .. n : g[i] = g[i - 1] + s[i]
  BY DEF Sums
<1>3. g = Body(g)
  <2>1. ASSUME NEW i \in 0 .. n
        PROVE  g[i] = Body(g)[i]
    <3>1. i = 0 \/ i \in 1 .. n
      BY <1>2
    <3> QED
      BY <1>2, <3>1
  <2>2. Body(g) = [i \in 0 .. n |-> Body(g)[i]] /\ g = [i \in 0 .. n |-> g[i]]
    BY <1>2
  <2> HIDE DEF Body
  <2> QED
    BY <2>1, <2>2
<1>4. F = Body(F)
  <2> HIDE DEF Body
  <2> QED
    BY <1>3
<1> HIDE DEF F
<1> DEFINE N == {i \in Nat : i \in 0 .. n => F[i] = g[i]}
<1>5. 0 \in N
  BY <1>2, <1>4
<1>6. ASSUME NEW i \in Nat, i \in N
      PROVE  i + 1 \in N
  <2> SUFFICES ASSUME i + 1 \in 0 .. n
               PROVE  F[i + 1] = g[i + 1]
    OBVIOUS
  <2>1. i + 1 \in 1 .. n /\ i \in 0 .. n /\ (i + 1) - 1 = i /\ i + 1 # 0
    BY <1>2
  <2>2. F[i] = g[i]
    BY <1>6, <2>1
  <2>3. F[i + 1] = F[i] + s[i + 1] /\ g[i + 1] = g[i] + s[i + 1]
    BY <1>2, <1>4, <2>1
  <2> QED
    BY <2>2, <2>3
<1> HIDE DEF N
<1>7. n \in N
  BY <1>2, <1>5, <1>6, NaturalsFollow
<1> QED
  BY <1>1, <1>2, <1>7 DEF N

LEMMA SumRuns ==
  ASSUME NEW s \in Seq(Int)
  PROVE  \E g : Sums(g, s)
<1> DEFINE n == Len(s)
           V == Int
           op == [i \in 1 .. n |-> [v \in V |-> v + s[i]]]
<1>1. op \in [1 .. n -> [V -> V]] /\ n \in Nat /\ 0 \in V
  <2>1. \A i \in 1 .. n, v \in Int : v + s[i] \in Int
    OBVIOUS
  <2> QED
    BY <2>1
<1>2. \A i \in 1 .. n, v \in V : op[i][v] = v + s[i]
  OBVIOUS
<1> HIDE DEF op, n, V
<1>3. PICK g : Runs(g, V, 0, n, op)
  BY <1>1, LoopExists
<1>4. \A i \in 1 .. n : g[i] = g[i - 1] + s[i]
  <2>1. \A i \in 1 .. n : i - 1 \in 0 .. n
    BY <1>1
  <2>2. \A i \in 1 .. n : g[i - 1] \in V /\ g[i] = op[i][g[i - 1]]
    BY <1>3, <2>1 DEF Runs
  <2> QED
    BY <1>2, <2>2
<1> QED
  BY <1>3, <1>4 DEF Runs, Sums, n, V

(* A sum with one more number, and of none.                                *)
LEMMA SumAppend ==
  ASSUME NEW s \in Seq(Int), NEW x \in Int
  PROVE  Sum(s) \in Int /\ Sum(Append(s, x)) = Sum(s) + x
<1> DEFINE n == Len(s)
           t == Append(s, x)
<1>1. PICK g : Sums(g, s)
  BY SumRuns
<1>2. /\ n \in Nat /\ g \in [0 .. n -> Int] /\ g[0] = 0 /\ g[n] \in Int
      /\ \A i \in 1 .. n : g[i] = g[i - 1] + s[i]
  BY <1>1 DEF Sums
<1>3. /\ t \in Seq(Int) /\ Len(t) = n + 1 /\ t[n + 1] = x
      /\ \A i \in 1 .. n : t[i] = s[i]
  BY AppendProperties
<1> HIDE DEF t
<1> DEFINE h == [i \in 0 .. n + 1 |-> IF i <= n THEN g[i] ELSE g[n] + x]
<1>4. /\ h \in [0 .. n + 1 -> Int] /\ h[0] = 0 /\ h[n + 1] = g[n] + x /\ h[n] = g[n]
      /\ \A i \in 0 .. n : h[i] = g[i]
  BY <1>2
<1> HIDE DEF h
<1>5. ASSUME NEW i \in 1 .. n + 1
      PROVE  h[i] = h[i - 1] + t[i]
  <2>1. CASE i \in 1 .. n
    <3>1. i \in 0 .. n /\ i - 1 \in 0 .. n
      BY <1>2, <2>1
    <3> QED
      BY <1>2, <1>3, <1>4, <2>1, <3>1
  <2>2. CASE i = n + 1
    BY <1>2, <1>3, <1>4, <2>2
  <2> QED
    BY <1>2, <2>1, <2>2
<1>6. Sums(h, t)
  BY <1>3, <1>4, <1>5 DEF Sums
<1>7. Sum(t) = h[n + 1]
  BY <1>3, <1>6, SumLoop
<1>8. Sum(s) = g[n]
  BY <1>1, SumLoop
<1> QED
  BY <1>2, <1>4, <1>7, <1>8 DEF t

LEMMA SumNone == Sum(<<>>) = 0
<1> DEFINE e == <<>>
           g == [i \in 0 .. 0 |-> 0]
<1>1. e \in Seq(Int) /\ Len(e) = 0 /\ g[0] = 0 /\ Sums(g, e)
  BY DEF Sums
<1> HIDE DEF e, g
<1>2. Sum(e) = g[Len(e)]
  BY <1>1, SumLoop
<1> QED
  BY <1>1, <1>2 DEF e

(* The sum of equal numbers.                                               *)
LEMMA SumEqual ==
  ASSUME NEW s \in Seq(Int), NEW d \in Int, \A i \in 1 .. Len(s) : s[i] = d
  PROVE  Sum(s) = Len(s) * d
<1> DEFINE n == Len(s)
           g == [i \in 0 .. n |-> i * d]
<1>1. n \in Nat
  OBVIOUS
<1>2. ASSUME NEW i \in 1 .. n
      PROVE  g[i] = g[i - 1] + s[i]
  <2>1. i \in 0 .. n /\ i - 1 \in 0 .. n /\ s[i] = d
    BY <1>1
  <2>2. i * d = (i - 1) * d + d
    OBVIOUS
  <2> QED
    BY <2>1, <2>2
<1>3. Sums(g, s)
  <2>1. g \in [0 .. n -> Int] /\ g[0] = 0
    BY <1>1
  <2> HIDE DEF g
  <2> QED
    BY <1>2, <2>1 DEF Sums
<1>4. Sum(s) = g[n]
  BY <1>3, SumLoop
<1> QED
  BY <1>1, <1>4

-----------------------------------------------------------------------------
(***************************************************************************)
(* Periodic: types, the window, and the alert for a regular beacon.        *)
(***************************************************************************)
Times == 0 .. MaxClock

LogInPast == \A k \in BeaconKey : \A i \in 1 .. Len(log[k]) : log[k][i] <= clock

EmptyTogether == \A k \in BeaconKey : log[k] = <<>> => history[k] = <<>>

PeriodicInv == TypeOK /\ LogInPast /\ EmptyTogether /\ HistoryIsWindow /\ BeaconsAlert

LEMMA ConfigFacts ==
  /\ Window \in Nat \ {0} /\ MinSamples \in Nat \ {0} /\ MaxCvNum \in Nat
  /\ CvDen \in Nat /\ MaxClock \in Nat /\ Cooldown \in Nat
<1>1. MaxCvNum \in Nat
  BY ConfigAssumption DEF MaxCvNum
<1> QED
  BY <1>1, ConfigAssumption DEF Window, MinSamples

(* The event that prunes is itself inside the window.                      *)
LEMMA PruneNow ==
  ASSUME NEW times \in Seq(Times), NEW c \in Times
  PROVE  /\ Prune(times, c) \in Seq(Times)
         /\ Prune(Append(times, c), c) = Append(Prune(times, c), c)
<1> DEFINE T == {t \in Int : t > c - Window}
<1>1. c \in T
  BY ConfigFacts DEF Times
<1>2. \A s : Prune(s, c) = Keep(s, T)
  BY DEF Prune
<1> HIDE DEF T
<1>3. Keep(times, T) \in Seq(Times)
  BY KeepType
<1>4. Keep(Append(times, c), T) = Append(Keep(times, T), c)
  BY <1>1, KeepAppend
<1> QED
  BY <1>2, <1>3, <1>4

(* Pruning at an earlier event takes nothing away that a later one keeps.  *)
LEMMA PrunePruned ==
  ASSUME NEW times \in Seq(Times), NEW l \in Times, NEW c \in Times, l <= c
  PROVE  Prune(Prune(times, l), c) = Prune(times, c)
<1> DEFINE T == {t \in Int : t > l - Window}
           U == {t \in Int : t > c - Window}
<1>1. U \cap Times \subseteq T
  BY ConfigFacts DEF Times
<1>2. \A s : Prune(s, l) = Keep(s, T) /\ Prune(s, c) = Keep(s, U)
  BY DEF Prune
<1> HIDE DEF T, U
<1>3. Keep(Keep(times, T), U) = Keep(times, U)
  BY <1>1, KeepTwice
<1> QED
  BY <1>2, <1>3

(* The square of the sum of n equal numbers is n times the sum of their    *)
(* squares.                                                                *)
LEMMA NoVariance ==
  ASSUME NEW n \in Nat, NEW d \in Nat, NEW c \in Nat, NEW m \in Nat
  PROVE  c * c * (n * (n * (d * d)) - (n * d) * (n * d)) <= m * m * (n * d) * (n * d)
<1>1. n * (n * (d * d)) = (n * d) * (n * d)
  OBVIOUS
<1> DEFINE p == (n * d) * (n * d)
<1>2. p \in Nat
  <2>1. n * d \in Nat
    OBVIOUS
  <2> DEFINE q == n * d
  <2> HIDE DEF q
  <2>2. q * q \in Nat
    BY <2>1 DEF q
  <2> QED
    BY <2>2 DEF q
<1>3. c * c * (p - p) = 0
  BY <1>2
<1>4. m * m * (n * d) * (n * d) = (m * m) * p
  OBVIOUS
<1>5. m * m \in Nat
  OBVIOUS
<1>6. (m * m) * p >= 0
  <2> DEFINE r == m * m
  <2>1. r \in Nat
    BY <1>5
  <2> HIDE DEF r, p
  <2>2. r * p >= 0
    BY <1>2, <2>1
  <2> QED
    BY <2>2 DEF r
<1> QED
  BY <1>1, <1>3, <1>4, <1>6

(* Equal gaps pass the test of the gaps.                                   *)
LEMMA RegularPasses ==
  ASSUME NEW times \in Seq(Times), Len(times) >= 3, times[2] > times[1],
         \A i \in 2 .. Len(times) - 1 : times[i + 1] - times[i] = times[2] - times[1]
  PROVE  Len(Deltas(times)) >= 2 /\ CvAtMost(Deltas(times))
<1> DEFINE d == times[2] - times[1]
           g == Gaps(times)
           n == Len(times) - 1
<1>1. Len(times) \in Nat /\ n \in Nat /\ \A i \in 1 .. Len(times) : times[i] \in Int
  <2>1. Len(times) \in Nat /\ \A i \in 1 .. Len(times) : times[i] \in Times
    BY ONLY times \in Seq(Times)
  <2>2. Times \subseteq Int
    BY DEF Times
  <2>3. n \in Nat
    BY ONLY <2>1, Len(times) >= 3
  <2> QED
    BY ONLY <2>1, <2>2, <2>3
<1>2. d \in Nat \ {0}
  <2>1. 1 \in 1 .. Len(times) /\ 2 \in 1 .. Len(times)
    BY <1>1
  <2>2. times[1] \in Int /\ times[2] \in Int
    BY <1>1, <2>1
  <2> QED
    BY <2>2
<1>3. g \in Seq(Int) /\ Len(g) = n /\ \A i \in 1 .. n : g[i] = times[i + 1] - times[i]
  <2>1. \A i \in 1 .. n : times[i + 1] - times[i] \in Int
    BY <1>1
  <2> QED
    BY <1>1, <2>1 DEF Gaps
<1>4. \A i \in 1 .. n : g[i] = d
  <2>1. ASSUME NEW i \in 1 .. n
        PROVE  g[i] = d
    <3>1. CASE i = 1
      BY <1>1, <1>3, <3>1
    <3>2. CASE i # 1
      <4>1. i \in 2 .. Len(times) - 1
        BY <1>1, <3>2
      <4> QED
        BY <1>3, <4>1
    <3> QED
      BY <3>1, <3>2
  <2> QED
    BY <2>1
<1>5. Deltas(times) = g
  <2> DEFINE T == Nat \ {0}
  <2>1. \A i \in 1 .. Len(g) : g[i] \in T
    BY <1>2, <1>3, <1>4
  <2>2. Deltas(times) = Keep(g, T)
    BY DEF Deltas
  <2> HIDE DEF T, g
  <2>3. Keep(g, T) = g
    BY <1>3, <2>1, KeepAll
  <2> QED
    BY <2>2, <2>3
<1> HIDE DEF d, g, n
<1>6. Sum(g) = n * d
  <2>1. g \in Seq(Int) /\ d \in Int /\ n = Len(g) /\ \A i \in 1 .. Len(g) : g[i] = d
    BY <1>2, <1>3, <1>4
  <2> QED
    BY ONLY <2>1, SumEqual
<1>7. Sum([i \in 1 .. n |-> g[i] * g[i]]) = n * (d * d)
  <2> DEFINE s == [i \in 1 .. n |-> g[i] * g[i]]
             e == d * d
  <2>1. e \in Int /\ \A i \in 1 .. n : g[i] * g[i] = e
    BY <1>2, <1>4
  <2>2. s \in Seq(Int) /\ Len(s) = n /\ \A i \in 1 .. n : s[i] = e
    BY <1>1, <2>1
  <2> HIDE DEF s, e
  <2>3. Sum(s) = n * e
    BY <2>1, <2>2, SumEqual
  <2> QED
    BY <2>3 DEF s, e
<1>8. CvAtMost(g) <=> CvDen * CvDen * (n * (n * (d * d)) - (n * d) * (n * d)) <= MaxCvNum * MaxCvNum * (n * d) * (n * d)
  BY <1>3, <1>6, <1>7 DEF CvAtMost
<1>9. CvAtMost(g)
  BY <1>1, <1>2, <1>8, NoVariance, ConfigFacts
<1>10. n >= 2
  BY <1>1 DEF n
<1> QED
  BY <1>3, <1>5, <1>9, <1>10

-----------------------------------------------------------------------------
LEMMA PeriodicInit == Init => PeriodicInv
<1> SUFFICES ASSUME Init
             PROVE  PeriodicInv
  OBVIOUS
<1>1. TypeOK
  BY ConfigFacts DEF Init, TypeOK, Never
<1>2. \A k \in BeaconKey : log[k] = <<>> /\ history[k] = <<>>
  BY DEF Init
<1>3. LogInPast /\ EmptyTogether /\ HistoryIsWindow
  BY <1>2 DEF LogInPast, EmptyTogether, HistoryIsWindow
<1>4. BeaconsAlert
  BY <1>2 DEF BeaconsAlert
<1> QED
  BY <1>1, <1>3, <1>4 DEF PeriodicInv

(* What Analyze makes of the history of its destination.                   *)
LEMMA AnalyzeFacts ==
  ASSUME PeriodicInv, NEW k \in BeaconKey, Analyze(k)
  PROVE  LET times == Prune(Append(history[k], clock), clock)
         IN /\ log' = [log EXCEPT ![k] = Append(log[k], clock)]
            /\ Append(log[k], clock) \in Seq(Times) /\ Append(log[k], clock) # <<>>
            /\ Last(Append(log[k], clock)) = clock
            /\ history' = [history EXCEPT ![k] = times]
            /\ times = Prune(Append(log[k], clock), clock)
            /\ times \in Seq(Times)
            /\ Len(times) # 0 /\ Last(times) = clock
            /\ alerted' = [alerted EXCEPT ![k] = IF IsPeriodic(k, times) THEN clock ELSE alerted[k]]
            /\ clock' = clock /\ clock \in Times
<1> DEFINE times == Prune(Append(history[k], clock), clock)
           l == Append(log[k], clock)
           kept == Prune(log[k], clock)
<1>1. log[k] \in Seq(Times) /\ history[k] \in Seq(Times) /\ clock \in Times
  BY DEF PeriodicInv, TypeOK, Times
<1>2. l \in Seq(Times) /\ l # <<>> /\ Last(l) = clock
  <2>1. l \in Seq(Times) /\ l # <<>> /\ Len(l) = Len(log[k]) + 1 /\ l[Len(log[k]) + 1] = clock
    BY <1>1, AppendProperties
  <2> QED
    BY <2>1 DEF Last
<1>3. Prune(history[k], clock) = kept
  <2>1. CASE log[k] = <<>>
    <3>1. history[k] = <<>>
      BY <2>1 DEF PeriodicInv, EmptyTogether
    <3> QED
      BY <2>1, <3>1
  <2>2. CASE log[k] # <<>>
    <3>1. history[k] = Prune(log[k], Last(log[k]))
      BY <2>2 DEF PeriodicInv, HistoryIsWindow
    <3>2. Len(log[k]) \in 1 .. Len(log[k])
      BY <1>1, <2>2, EmptySeq
    <3>3. Last(log[k]) \in Times /\ Last(log[k]) <= clock
      BY <1>1, <3>2 DEF PeriodicInv, LogInPast, Last
    <3> QED
      BY <1>1, <3>1, <3>3, PrunePruned
  <2> QED
    BY <2>1, <2>2
<1>4. /\ times = Append(Prune(history[k], clock), clock)
      /\ Prune(l, clock) = Append(kept, clock) /\ kept \in Seq(Times)
  BY <1>1, PruneNow
<1> HIDE DEF times, l, kept
<1>5. times = Append(kept, clock) /\ times = Prune(l, clock)
  BY <1>3, <1>4
<1>6. times \in Seq(Times) /\ Len(times) # 0 /\ Last(times) = clock
  <2> DEFINE t == Append(kept, clock)
  <2>1. t \in Seq(Times) /\ Len(t) = Len(kept) + 1 /\ t[Len(kept) + 1] = clock /\ Len(kept) \in Nat
    BY <1>1, <1>4, AppendProperties
  <2>2. times = t
    BY <1>5
  <2> HIDE DEF t
  <2>3. Len(times) # 0 /\ Last(times) = clock
    BY <2>1, <2>2 DEF Last
  <2> QED
    BY <2>1, <2>2, <2>3
<1>7. /\ log' = [log EXCEPT ![k] = l] /\ history' = [history EXCEPT ![k] = times]
      /\ alerted' = [alerted EXCEPT ![k] = IF IsPeriodic(k, times) THEN clock ELSE alerted[k]]
      /\ clock' = clock
  BY DEF Analyze, times, l
<1> QED
  BY <1>1, <1>2, <1>5, <1>6, <1>7 DEF times, l

LEMMA AnalyzePeriodic ==
  ASSUME PeriodicInv, NEW k \in BeaconKey, Analyze(k)
  PROVE  PeriodicInv'
<1> DEFINE times == Prune(Append(history[k], clock), clock)
           l == Append(log[k], clock)
           a == IF IsPeriodic(k, times) THEN clock ELSE alerted[k]
<1>1. /\ log' = [log EXCEPT ![k] = l] /\ l \in Seq(Times) /\ l # <<>> /\ Last(l) = clock
      /\ history' = [history EXCEPT ![k] = times]
      /\ times = Prune(l, clock) /\ times \in Seq(Times) /\ Len(times) # 0 /\ Last(times) = clock
      /\ alerted' = [alerted EXCEPT ![k] = a]
      /\ clock' = clock /\ clock \in Times
  BY AnalyzeFacts
<1>2. /\ log \in [BeaconKey -> Seq(Times)] /\ history \in [BeaconKey -> Seq(Times)]
      /\ alerted \in [BeaconKey -> Times \cup {Never}]
  BY DEF PeriodicInv, TypeOK, Times
<1>3. a = clock \/ a = alerted[k]
  OBVIOUS
<1>4. \A i \in 1 .. Len(l) : l[i] <= clock
  <2>1. log[k] \in Seq(Times) /\ clock \in Int
    BY <1>1, <1>2 DEF Times
  <2>2. /\ Len(l) = Len(log[k]) + 1 /\ l[Len(log[k]) + 1] = clock
        /\ \A i \in 1 .. Len(log[k]) : l[i] = log[k][i]
    BY <1>1, <2>1, AppendProperties
  <2>3. \A i \in 1 .. Len(log[k]) : log[k][i] <= clock
    BY DEF PeriodicInv, LogInPast
  <2>4. \A i \in 1 .. Len(l) : i \in 1 .. Len(log[k]) \/ i = Len(log[k]) + 1
    BY <2>1, <2>2
  <2> QED
    BY <2>1, <2>2, <2>3, <2>4
<1>5. a = clock \/ (IsPeriodic(k, times) <=> FALSE)
  OBVIOUS
<1> HIDE DEF l, times, a
<1>6. /\ log'[k] = l /\ history'[k] = times /\ alerted'[k] = a
      /\ \A j \in BeaconKey : j # k => log'[j] = log[j] /\ history'[j] = history[j] /\ alerted'[j] = alerted[j]
  BY <1>1, <1>2
<1>7. TypeOK'
  <2>1. a \in Times \cup {Never}
    BY <1>1, <1>2, <1>3
  <2>2. /\ log' \in [BeaconKey -> Seq(Times)] /\ history' \in [BeaconKey -> Seq(Times)]
        /\ alerted' \in [BeaconKey -> Times \cup {Never}] /\ clock' \in Times
    BY <1>1, <1>2, <2>1
  <2> QED
    BY <2>2 DEF TypeOK, Times
<1>8. LogInPast' /\ EmptyTogether'
  BY <1>1, <1>4, <1>6 DEF PeriodicInv, LogInPast, EmptyTogether
<1>9. HistoryIsWindow'
  BY <1>1, <1>6 DEF PeriodicInv, HistoryIsWindow, Prune
<1>10. BeaconsAlert'
  <2> SUFFICES ASSUME NEW j \in BeaconKey,
                      NEW seen, seen = IF log'[j] = <<>> THEN <<>> ELSE Prune(log'[j], Last(log'[j])),
                      Len(seen) >= MinSamples, Len(seen) >= 3,
                      seen[2] > seen[1],
                      \A i \in 2 .. Len(seen) - 1 : seen[i + 1] - seen[i] = seen[2] - seen[1]
               PROVE  alerted'[j] # Never /\ (alerted'[j] = Last(seen) \/ Last(seen) - alerted'[j] < Cooldown)
    BY DEF BeaconsAlert, Prune
  <2>1. CASE j # k
    <3>1. seen = IF log[j] = <<>> THEN <<>> ELSE Prune(log[j], Last(log[j]))
      BY <1>6, <2>1
    <3>2. alerted[j] # Never /\ (alerted[j] = Last(seen) \/ Last(seen) - alerted[j] < Cooldown)
      BY <3>1 DEF PeriodicInv, BeaconsAlert
    <3> QED
      BY <1>6, <2>1, <3>2
  <2>2. CASE j = k
    <3>1. seen = times
      BY <1>1, <1>6, <2>2
    <3>2. Len(Deltas(times)) >= 2 /\ CvAtMost(Deltas(times))
      BY <1>1, <3>1, RegularPasses
    <3>3. CASE CoolingDown(k)
      <4>1. alerted[k] # Never /\ clock - alerted[k] < Cooldown
        BY <3>3 DEF CoolingDown
      <4>2. a = alerted[k]
        BY <3>3 DEF IsPeriodic, a
      <4> QED
        BY <1>1, <1>6, <2>2, <3>1, <4>1, <4>2
    <3>4. CASE ~CoolingDown(k)
      <4>1. IsPeriodic(k, times)
        BY <3>1, <3>2, <3>4 DEF IsPeriodic
      <4>2. a = clock
        BY <4>1 DEF a
      <4>3. clock # Never
        BY <1>1 DEF Times, Never
      <4> QED
        BY <1>1, <1>6, <2>2, <3>1, <4>2, <4>3
    <3> QED
      BY <3>3, <3>4
  <2> QED
    BY <2>1, <2>2
<1> QED
  BY <1>7, <1>8, <1>9, <1>10 DEF PeriodicInv

LEMMA PeriodicStep == PeriodicInv /\ [Next]_periodicVars => PeriodicInv'
<1> SUFFICES ASSUME PeriodicInv, [Next]_periodicVars
             PROVE  PeriodicInv'
  OBVIOUS
<1>1. CASE Tick
  <2>1. UNCHANGED <<history, alerted, log>> /\ clock' \in Times /\ clock' = clock + 1 /\ clock \in Times
    BY <1>1, ConfigFacts DEF Tick, PeriodicInv, TypeOK, Times
  <2>2. TypeOK'
    BY <2>1 DEF PeriodicInv, TypeOK, Times
  <2>3. LogInPast'
    <3> SUFFICES ASSUME NEW k \in BeaconKey, NEW i \in 1 .. Len(log[k])
                 PROVE  log[k][i] <= clock + 1
      BY <2>1 DEF LogInPast
    <3>1. log[k] \in Seq(Times)
      BY DEF PeriodicInv, TypeOK, Times
    <3>2. log[k][i] \in Times /\ log[k][i] <= clock
      BY <3>1 DEF PeriodicInv, LogInPast
    <3> QED
      BY <2>1, <3>2 DEF Times
  <2>4. EmptyTogether' /\ HistoryIsWindow' /\ BeaconsAlert'
    BY <2>1 DEF PeriodicInv, EmptyTogether, HistoryIsWindow, BeaconsAlert, Prune
  <2> QED
    BY <2>2, <2>3, <2>4 DEF PeriodicInv
<1>2. CASE Reset
  <2>1. \A k \in BeaconKey : log'[k] = <<>> /\ history'[k] = <<>>
    BY <1>2 DEF Reset
  <2>2. TypeOK'
    BY <1>2 DEF Reset, PeriodicInv, TypeOK, Never
  <2>3. LogInPast' /\ EmptyTogether' /\ HistoryIsWindow' /\ BeaconsAlert'
    BY <2>1 DEF LogInPast, EmptyTogether, HistoryIsWindow, BeaconsAlert
  <2> QED
    BY <2>2, <2>3 DEF PeriodicInv
<1>3. CASE \E k \in BeaconKey : Analyze(k)
  BY <1>3, AnalyzePeriodic
<1>4. CASE UNCHANGED periodicVars
  BY <1>4 DEF PeriodicInv, TypeOK, LogInPast, EmptyTogether, HistoryIsWindow, BeaconsAlert, Prune, periodicVars
<1> QED
  BY <1>1, <1>2, <1>3, <1>4 DEF Next

LEMMA PeriodicInvariant == Spec => []PeriodicInv
BY PeriodicInit, PeriodicStep, PTL DEF Spec

(* Detect takes only steps of Periodic, as far as Periodic is concerned.   *)
LEMMA DetectPeriodicStep == [DetectNext]_detectVars => [Next]_periodicVars
<1> SUFFICES ASSUME [DetectNext]_detectVars
             PROVE  [Next]_periodicVars
  OBVIOUS
<1>1. \A c \in Conn : BeaconOf(c) \in BeaconKey
  BY KeyAssumption DEF BeaconKeys
<1>2. CASE \E c \in Conn : AnalyzeNew(c)
  BY <1>1, <1>2 DEF AnalyzeNew, Next
<1>3. CASE Wait \/ ResetAll
  BY <1>3 DEF Wait, ResetAll, Next
<1>4. CASE UNCHANGED detectVars
  BY <1>4 DEF detectVars, periodicVars
<1> QED
  BY <1>2, <1>3, <1>4 DEF DetectNext

LEMMA DetectPeriodic == DetectSpec => Spec
<1>1. DetectInit => Init
  BY DEF DetectInit
<1> QED
  BY <1>1, DetectPeriodicStep, PTL DEF DetectSpec, Spec

(* Times, histories and the times of alerts stay what they should be.      *)
THEOREM TypeCorrect == DetectSpec => []TypeOK
<1>1. PeriodicInv => TypeOK
  BY DEF PeriodicInv
<1> QED
  BY <1>1, PeriodicInvariant, DetectPeriodic, PTL

(* Pruning a destination only when it connects, the pruned list each time, *)
(* keeps what pruning the whole log of the destination would.              *)
THEOREM WindowCorrect == DetectSpec => []HistoryIsWindow
<1>1. PeriodicInv => HistoryIsWindow
  BY DEF PeriodicInv
<1> QED
  BY <1>1, PeriodicInvariant, DetectPeriodic, PTL

(* A regular beacon inside the window has an alert, for any threshold: the *)
(* gaps that the code computes have no variance.                           *)
THEOREM BeaconsCorrect == DetectSpec => []BeaconsAlert
<1>1. PeriodicInv => BeaconsAlert
  BY DEF PeriodicInv
<1> QED
  BY <1>1, PeriodicInvariant, DetectPeriodic, PTL

-----------------------------------------------------------------------------
(***************************************************************************)
(* Periodic and BeaconRule: the rule is about the set of distinct times    *)
(* and sums the squared differences of all pairs of gaps; the code goes    *)
(* once over the sorted list and needs two sums.                           *)
(***************************************************************************)
(* What the rule's sum over the pairs P of neighbour gaps comes to.        *)
GapSquare(T, p) == (Rule!GapBefore(T, p[1]) - Rule!GapBefore(T, p[2]))
                     * (Rule!GapBefore(T, p[1]) - Rule!GapBefore(T, p[2]))

Spread(T, P) ==
  Rule!MapThenSumSet(
    LAMBDA p : (Rule!GapBefore(T, p[1]) - Rule!GapBefore(T, p[2]))
                 * (Rule!GapBefore(T, p[1]) - Rule!GapBefore(T, p[2])), P)

LEMMA SpreadIsSum ==
  ASSUME NEW T, NEW R, NEW P, P \subseteq R, IsFiniteSet(P), NEW pf \in [R -> Int],
         NEW g, IsSum(g, pf, R), \A p \in P : pf[p] = GapSquare(T, p)
  PROVE  Spread(T, P) = g[P]
<1> DEFINE Sq(p) == GapSquare(T, p)
           Pick(s) == CHOOSE x \in s : TRUE
           Body(f) == [s \in SUBSET P |-> IF s = {} THEN 0 ELSE Sq(Pick(s)) + f[s \ {Pick(s)}]]
           F == CHOOSE f : f = Body(f)
           h == [s \in SUBSET P |-> g[s]]
<1>1. Spread(T, P) = F[P]
  BY DEF Spread, GapSquare, Rule!MapThenSumSet, Rule!MapThenFoldSet
<1>2. \A s : s # {} => Pick(s) \in s
  OBVIOUS
<1>3. \A p \in P : Sq(p) = pf[p]
  OBVIOUS
<1> HIDE DEF Sq, Pick
<1>4. /\ g \in [SUBSET R -> Int] /\ g[{}] = 0
      /\ \A s \in SUBSET R : \A y \in R \ s : g[s \cup {y}] = g[s] + pf[y]
  BY DEF IsSum
<1>a. \A s \in SUBSET P : s \in SUBSET R /\ h[s] = g[s]
  OBVIOUS
<1>5. ASSUME NEW s \in SUBSET P, s # {}
      PROVE  h[s] = Sq(Pick(s)) + h[s \ {Pick(s)}]
  <2> DEFINE y == Pick(s)
             r == s \ {y}
  <2>1. y \in s /\ y \in P
    BY <1>2, <1>5
  <2>2. r \in SUBSET R /\ y \in R \ r /\ r \cup {y} = s /\ r \in SUBSET P
    BY <2>1
  <2>3. g[s] = g[r] + pf[y] /\ g[r] \in Int /\ pf[y] \in Int /\ Sq(y) = pf[y]
    <3> HIDE DEF r, y
    <3>1. g[r \cup {y}] = g[r] + pf[y]
      BY ONLY <1>4, <2>2
    <3> QED
      BY <1>3, <1>4, <2>1, <2>2, <3>1
  <2> HIDE DEF h, y, r
  <2>4. h[s] = g[s] /\ h[r] = g[r]
    BY <1>a, <2>2
  <2>5. h[s] = Sq(y) + h[r]
    BY ONLY <2>3, <2>4
  <2> QED
    BY <2>5 DEF y, r
<1>6. h = Body(h)
  <2>1. ASSUME NEW s \in SUBSET P
        PROVE  h[s] = Body(h)[s]
    <3>1. CASE s = {}
      BY <1>4, <3>1
    <3>2. CASE s # {}
      <4> HIDE DEF h
      <4> QED
        BY <1>5, <3>2
    <3> QED
      BY <3>1, <3>2
  <2>2. Body(h) = [s \in SUBSET P |-> Body(h)[s]] /\ h = [s \in SUBSET P |-> h[s]]
    OBVIOUS
  <2> HIDE DEF Body, h
  <2> QED
    BY <2>1, <2>2
<1>7. F = Body(F)
  <2> HIDE DEF Body, h
  <2> QED
    BY <1>6
<1> HIDE DEF F, h
<1> DEFINE X == {s \in SUBSET P : F[s] = h[s]}
<1>8. ASSUME NEW s \in SUBSET P, \A y \in s : s \ {y} \in X
      PROVE  s \in X
  <2>1. CASE s = {}
    BY <1>6, <1>7, <2>1
  <2>2. CASE s # {}
    <3>1. s \ {Pick(s)} \in X
      BY <1>2, <1>8, <2>2
    <3>2. F[s] = Sq(Pick(s)) + F[s \ {Pick(s)}]
      BY <1>7, <2>2
    <3> QED
      BY <1>5, <2>2, <3>1, <3>2
  <2> QED
    BY <2>1, <2>2
<1> HIDE DEF X
<1>9. SUBSET P \subseteq X
  BY <1>8, SubsetsShrink
<1>10. P \in X
  BY <1>9
<1> QED
  BY <1>1, <1>a, <1>10 DEF X

(* The squares of the intervals, as CvAtMost lists them.                   *)
Squares(d) == [i \in 1 .. Len(d) |-> d[i] * d[i]]

LEMMA SquaresAppend ==
  ASSUME NEW d \in Seq(Int), NEW x \in Int
  PROVE  Squares(d) \in Seq(Int) /\ Squares(Append(d, x)) = Append(Squares(d), x * x)
<1> DEFINE n == Len(d)
           e == Append(d, x)
           s == Squares(d)
           u == Append(s, x * x)
           r == Squares(e)
<1>1. /\ e \in Seq(Int) /\ Len(e) = n + 1 /\ n \in Nat /\ e[n + 1] = x
      /\ \A i \in 1 .. n : e[i] = d[i]
  BY AppendProperties
<1>2. s \in Seq(Int) /\ Len(s) = n /\ \A i \in 1 .. n : s[i] = d[i] * d[i]
  <2>1. \A i \in 1 .. n : d[i] * d[i] \in Int
    OBVIOUS
  <2> QED
    BY <1>1, <2>1 DEF Squares
<1> HIDE DEF e, s
<1>3. r \in Seq(Int) /\ Len(r) = n + 1 /\ \A i \in 1 .. n + 1 : r[i] = e[i] * e[i]
  <2>1. \A i \in 1 .. n + 1 : e[i] * e[i] \in Int
    BY <1>1
  <2> QED
    BY <1>1, <2>1 DEF Squares
<1>4. x * x \in Int
  OBVIOUS
<1>5. /\ u \in Seq(Int) /\ Len(u) = n + 1 /\ u[n + 1] = x * x
      /\ \A i \in 1 .. n : u[i] = s[i]
  BY <1>2, <1>4, AppendProperties
<1> HIDE DEF r, u
<1>6. \A i \in 1 .. n + 1 : r[i] = u[i]
  <2>1. \A i \in 1 .. n + 1 : i \in 1 .. n \/ i = n + 1
    BY <1>1
  <2> QED
    BY <1>1, <1>2, <1>3, <1>5, <2>1
<1>7. r = u
  BY <1>3, <1>5, <1>6, SeqEqual
<1> QED
  BY <1>2, <1>7 DEF r, u, e, s

(* One connection on: the intervals get the gap to it, if there is one.    *)
LEMMA DeltasAppend ==
  ASSUME NEW s \in Seq(Int), s # <<>>, NEW x \in Int, NEW l, l = s[Len(s)], l <= x
  PROVE  /\ Deltas(s) \in Seq(Int)
         /\ x = l => Deltas(Append(s, x)) = Deltas(s)
         /\ x # l => Deltas(Append(s, x)) = Append(Deltas(s), x - l)
<1> DEFINE n == Len(s)
           t == Append(s, x)
           g == Gaps(s)
           h == Gaps(t)
           u == Append(g, x - l)
<1>1. /\ t \in Seq(Int) /\ Len(t) = n + 1 /\ n \in Nat /\ n >= 1 /\ t[n + 1] = x
      /\ \A i \in 1 .. n : t[i] = s[i] /\ s[i] \in Int
      /\ l \in Int
  BY AppendProperties
<1> HIDE DEF t
<1>2. g \in Seq(Int) /\ Len(g) = n - 1 /\ \A i \in 1 .. n - 1 : g[i] = s[i + 1] - s[i]
  <2>1. \A i \in 1 .. n - 1 : i \in 1 .. n /\ i + 1 \in 1 .. n
    BY ONLY <1>1
  <2>2. \A i \in 1 .. n - 1 : s[i] \in Int /\ s[i + 1] \in Int
    BY ONLY <1>1, <2>1
  <2>3. \A i \in 1 .. n - 1 : s[i + 1] - s[i] \in Int
    BY ONLY <2>2
  <2> QED
    BY <1>1, <2>3 DEF Gaps
<1>3. h \in Seq(Int) /\ Len(h) = n /\ \A i \in 1 .. n : h[i] = t[i + 1] - t[i]
  <2>1. \A i \in 1 .. n : i \in 1 .. n + 1 /\ i + 1 \in 1 .. n + 1
    BY ONLY <1>1
  <2>2. \A i \in 1 .. n : t[i] \in Int /\ t[i + 1] \in Int
    BY ONLY <1>1, <2>1
  <2>3. \A i \in 1 .. n : t[i + 1] - t[i] \in Int
    BY ONLY <2>2
  <2> QED
    BY <1>1, <2>3 DEF Gaps
<1> HIDE DEF g, h
<1>4. x - l \in Int
  BY <1>1
<1>5. /\ u \in Seq(Int) /\ Len(u) = n /\ u[n] = x - l
      /\ \A i \in 1 .. n - 1 : u[i] = g[i]
  <2>1. (n - 1) + 1 = n
    BY <1>1
  <2> QED
    BY <1>2, <1>4, <2>1, AppendProperties
<1> HIDE DEF u
<1>6. \A i \in 1 .. n : h[i] = u[i]
  <2>1. ASSUME NEW i \in 1 .. n - 1
        PROVE  h[i] = u[i]
    <3>1. i \in 1 .. n /\ i + 1 \in 1 .. n
      BY <1>1
    <3>2. h[i] = t[i + 1] - t[i]
      BY ONLY <1>3, <3>1
    <3>3. u[i] = s[i + 1] - s[i]
      BY ONLY i \in 1 .. n - 1, <1>2, <1>5
    <3>4. t[i + 1] = s[i + 1] /\ t[i] = s[i]
      BY ONLY <1>1, <3>1
    <3> QED
      BY ONLY <3>2, <3>3, <3>4
  <2>2. h[n] = u[n]
    <3>1. n \in 1 .. n
      BY <1>1
    <3>2. h[n] = t[n + 1] - t[n]
      BY <1>3, <3>1
    <3> QED
      BY <1>1, <1>5, <3>1, <3>2
  <2>3. \A i \in 1 .. n : i \in 1 .. n - 1 \/ i = n
    BY <1>1
  <2> QED
    BY <2>1, <2>2, <2>3
<1>7. h = u
  BY <1>3, <1>5, <1>6, SeqEqual
<1> DEFINE T == Nat \ {0}
<1>8. x - l \in T <=> x # l
  BY <1>1
<1>9. Deltas(s) = Keep(g, T) /\ Deltas(t) = Keep(u, T)
  BY <1>7 DEF Deltas, g, h
<1> HIDE DEF T
<1>10. /\ Keep(g, T) \in Seq(Int)
       /\ x - l \in T => Keep(u, T) = Append(Keep(g, T), x - l)
       /\ x - l \notin T => Keep(u, T) = Keep(g, T)
  <2> DEFINE d == x - l
             V == Int
  <2>1. d \in V /\ u = Append(g, d) /\ g \in Seq(V)
    BY <1>2, <1>4 DEF u
  <2> HIDE DEF d, V
  <2>2. /\ Keep(g, T) \in Seq(V)
        /\ d \in T => Keep(u, T) = Append(Keep(g, T), d)
        /\ d \notin T => Keep(u, T) = Keep(g, T)
    BY ONLY <2>1, KeepType, KeepAppend
  <2> QED
    BY <2>2 DEF d, V
<1> QED
  BY <1>8, <1>9, <1>10 DEF t
(* The rule's greatest and least elements.                                 *)
LEMMA Extremes ==
  ASSUME NEW I, I \subseteq Int, NEW x \in I
  PROVE  /\ (\A y \in I : y <= x) => Rule!Max(I) = x
         /\ (\A y \in I : x <= y) => Rule!Min(I) = x
<1>1. \A z, y \in Int : z >= y /\ y >= z => z = y
  OBVIOUS
<1>2. ASSUME \A y \in I : y <= x
      PROVE  Rule!Max(I) = x
  <2>1. \A y \in I : x >= y
    BY <1>2
  <2> DEFINE m == CHOOSE z \in I : \A y \in I : z >= y
  <2>2. m \in I /\ \A y \in I : m >= y
    BY <2>1
  <2> HIDE DEF m
  <2>3. m = x
    BY <1>1, <2>1, <2>2
  <2> QED
    BY <2>3 DEF m, Rule!Max
<1>3. ASSUME \A y \in I : x <= y
      PROVE  Rule!Min(I) = x
  <2> DEFINE m == CHOOSE z \in I : \A y \in I : z <= y
  <2>2. m \in I /\ \A y \in I : m <= y
    BY <1>3
  <2> HIDE DEF m
  <2>3. m = x
    BY <1>3, <2>2
  <2> QED
    BY <2>3 DEF m, Rule!Min
<1> QED
  BY <1>2, <1>3

(* In a sorted list the gap before a time is the one to its neighbour.     *)
Later(T) == {t \in T : \E u \in T : u < t}

LEMMA NeighbourGap ==
  ASSUME NEW W \in Seq(Int), Sorted(W), NEW T, T = ToSet(W),
         NEW i \in 1 .. Len(W) - 1, W[i] < W[i + 1]
  PROVE  W[i + 1] \in Later(T) /\ Rule!GapBefore(T, W[i + 1]) = W[i + 1] - W[i]
<1> DEFINE n == Len(W)
           t == W[i + 1]
           I == {u \in T : u < t}
<1>1. /\ n \in Nat /\ i \in 1 .. n /\ i + 1 \in 1 .. n /\ \A j \in 1 .. n : W[j] \in Int
      /\ T = {W[j] : j \in 1 .. n}
  BY ToSetFacts
<1>2. W[i] \in I /\ I \subseteq Int
  BY <1>1
<1>3. ASSUME NEW u \in I
      PROVE  u <= W[i]
  <2>1. PICK j \in 1 .. n : u = W[j]
    BY <1>1
  <2>2. ~(i + 1 <= j)
    <3>1. i + 1 <= j => t <= u
      BY <1>1, <2>1 DEF Sorted
    <3>2. u < t /\ u \in Int /\ t \in Int
      BY <1>1, <2>1
    <3> QED
      BY <3>1, <3>2
  <2>3. j <= i
    BY <1>1, <2>2
  <2> QED
    BY <1>1, <2>1, <2>3 DEF Sorted
<1> HIDE DEF I
<1>4. Rule!Max(I) = W[i]
  BY <1>2, <1>3, Extremes
<1>5. W[i + 1] \in Later(T)
  BY <1>1, <1>2 DEF I, Later
<1> QED
  BY <1>4, <1>5 DEF Rule!GapBefore, I

(* Every later time has such a neighbour.                                  *)
LEMMA LaterHasNeighbour ==
  ASSUME NEW W \in Seq(Int), Sorted(W), NEW T, T = ToSet(W), NEW t \in Later(T)
  PROVE  \E i \in 1 .. Len(W) - 1 : W[i + 1] = t /\ W[i] < t
<1> DEFINE n == Len(W)
           I == {j \in 1 .. n : W[j] = t}
<1>1. n \in Nat /\ (\A j \in 1 .. n : W[j] \in Int) /\ T = {W[j] : j \in 1 .. n}
  BY ToSetFacts
<1>2. I \subseteq Nat /\ I # {}
  BY <1>1 DEF Later
<1>3. Min(I) \in I /\ \A y \in I : Min(I) <= y
  BY <1>2, LeastElement
<1>4. PICK m \in I : \A y \in I : m <= y
  BY <1>3
<1>5. m \in 1 .. n /\ W[m] = t /\ t \in Int
  BY <1>1, <1>4
<1>6. m # 1
  <2>1. PICK u \in T : u < t
    BY DEF Later
  <2>2. PICK j \in 1 .. n : u = W[j]
    BY <1>1, <2>1
  <2>3. 1 \in 1 .. n /\ 1 <= j
    BY <1>1, <2>2
  <2>4. W[1] <= u /\ u \in Int /\ W[1] \in Int
    BY <1>1, <2>2, <2>3 DEF Sorted
  <2> QED
    BY <1>5, <2>1, <2>4
<1> DEFINE i == m - 1
<1>7. i \in 1 .. n - 1 /\ i + 1 = m /\ i <= m /\ i \in 1 .. n /\ i < m
  BY <1>1, <1>5, <1>6
<1>8. i \notin I
  BY <1>4, <1>5, <1>7
<1>9. W[i] # t /\ W[i] <= t /\ W[i] \in Int
  BY <1>1, <1>5, <1>7, <1>8 DEF Sorted
<1> HIDE DEF i
<1> QED
  BY <1>5, <1>7, <1>9
(* What the rule computes of the set of times, the detector computes of    *)
(* the sorted list: the number of intervals, their sum and their spread.   *)
LEMMA SpreadOfGaps ==
  ASSUME NEW W \in Seq(Int), Sorted(W), W # <<>>, NEW T, T = ToSet(W), IsFiniteSet(T),
         NEW D, D = Deltas(W)
  PROVE  /\ D \in Seq(Int) /\ Len(D) = Cardinality(Later(T))
         /\ Sum(D) = W[Len(W)] - W[1]
         /\ Spread(T, Pairs(Later(T))) = Len(D) * Sum(Squares(D)) - Sum(D) * Sum(D)
<1> DEFINE n == Len(W)
           A == Later(T)
           gap == [t \in A |-> Rule!GapBefore(T, t)]
           sq == [t \in A |-> gap[t] * gap[t]]
           pf == [p \in A \X A |-> (gap[p[1]] - gap[p[2]]) * (gap[p[1]] - gap[p[2]])]
<1>1. /\ n \in Nat /\ n >= 1 /\ \A j \in 1 .. n : W[j] \in Int
      /\ T = {W[j] : j \in 1 .. n} /\ T \subseteq Int
  BY ToSetFacts
<1>2. A \subseteq T /\ A \subseteq Int /\ IsFiniteSet(A) /\ IsFiniteSet(A \X A)
  <2>1. A \subseteq T /\ A \subseteq Int
    BY <1>1 DEF Later
  <2>2. IsFiniteSet(A)
    BY <2>1, FS_Subset
  <2> HIDE DEF A
  <2> QED
    BY <2>1, <2>2, FS_Product
<1>3. \A t \in A : \E i \in 1 .. n - 1 : W[i + 1] = t /\ W[i] < t
  BY LaterHasNeighbour
<1>4. \A i \in 1 .. n - 1 : W[i] < W[i + 1] =>
        W[i + 1] \in A /\ Rule!GapBefore(T, W[i + 1]) = W[i + 1] - W[i]
  BY NeighbourGap
<1> HIDE DEF A
<1>5. gap \in [A -> Int]
  <2>1. ASSUME NEW t \in A
        PROVE  Rule!GapBefore(T, t) \in Int
    <3>1. PICK i \in 1 .. n - 1 : W[i + 1] = t /\ W[i] < t
      BY <1>3
    <3>2. i \in 1 .. n /\ i + 1 \in 1 .. n
      BY <1>1
    <3>a. W[i] < W[i + 1]
      BY ONLY <3>1
    <3>b. Rule!GapBefore(T, W[i + 1]) = W[i + 1] - W[i]
      BY <1>4, <3>a
    <3>c. W[i + 1] \in Int /\ W[i] \in Int
      BY <1>1, <3>2
    <3>3. Rule!GapBefore(T, W[i + 1]) = W[i + 1] - W[i] /\ W[i + 1] - W[i] \in Int
      BY ONLY <3>b, <3>c
    <3> QED
      BY <3>1, <3>3
  <2> QED
    BY <2>1
<1>6. \A t \in A : gap[t] = Rule!GapBefore(T, t)
  OBVIOUS
<1> HIDE DEF gap
<1>7. sq \in [A -> Int] /\ \A t \in A : sq[t] = gap[t] * gap[t]
  BY <1>5
<1>8. /\ pf \in [A \X A -> Int]
      /\ \A u, v \in A : pf[<<u, v>>] = (gap[u] - gap[v]) * (gap[u] - gap[v])
      /\ \A p \in A \X A : pf[p] = (gap[p[1]] - gap[p[2]]) * (gap[p[1]] - gap[p[2]])
  <2>1. \A p \in A \X A : p[1] \in A /\ p[2] \in A
    OBVIOUS
  <2>2. \A p \in A \X A : (gap[p[1]] - gap[p[2]]) * (gap[p[1]] - gap[p[2]]) \in Int
    BY <1>5, <2>1
  <2> QED
    BY <2>2
<1> HIDE DEF sq, pf
<1>9. PICK g1, g2, gp : IsSum(g1, gap, A) /\ IsSum(g2, sq, A) /\ IsSum(gp, pf, A \X A)
  <2> DEFINE P == A \X A
  <2>1. IsFiniteSet(P) /\ pf \in [P -> Int]
    BY <1>2, <1>8
  <2> HIDE DEF P
  <2>2. /\ \E g : IsSum(g, gap, A)
        /\ \E g : IsSum(g, sq, A)
        /\ \E g : IsSum(g, pf, P)
    BY <1>2, <1>5, <1>7, <2>1, SumExists
  <2> QED
    BY <2>2 DEF P
<1>10. SquareSums(A, gap, pf, g1, sq, g2, gp)
  BY <1>2, <1>5, <1>7, <1>8, <1>9 DEF SquareSums
<1>11. /\ g1 \in [SUBSET A -> Int] /\ g2 \in [SUBSET A -> Int]
       /\ g1[{}] = 0 /\ g2[{}] = 0 /\ gp[{}] = 0
       /\ \A s \in SUBSET A : \A y \in A \ s :
            g1[s \cup {y}] = g1[s] + gap[y] /\ g2[s \cup {y}] = g2[s] + sq[y]
  BY <1>9 DEF IsSum
<1> DEFINE L(i) == {t \in A : t <= W[i]}
           E(i) == Deltas(SubSeq(W, 1, i))
           Agree(e, l, i) ==
             /\ e \in Seq(Int) /\ Len(e) = Cardinality(l)
             /\ Sum(e) = g1[l] /\ g1[l] = W[i] - W[1] /\ Sum(Squares(e)) = g2[l]
             /\ Lagrange(g1, g2, gp, l)
           N == {i \in Nat : i \in 1 .. n => Agree(E(i), L(i), i)}
<1>12. ASSUME 1 \in 1 .. n
       PROVE  Agree(E(1), L(1), 1)
  <2>1. L(1) = {}
    <3>1. \A u \in T : W[1] <= u
      BY <1>1, <1>12 DEF Sorted
    <3>2. ASSUME NEW t \in A, t <= W[1]
          PROVE  FALSE
      <4>1. PICK u \in T : u < t
        BY DEF A, Later
      <4> QED
        BY <1>1, <1>2, <1>12, <3>1, <3>2, <4>1
    <3> QED
      BY <3>2
  <2>2. E(1) = <<>>
    <3> DEFINE s == SubSeq(W, 1, 1)
    <3>1. Len(s) = 1
      BY <1>1
    <3> HIDE DEF s
    <3>2. Gaps(s) = <<>>
      BY <3>1 DEF Gaps
    <3> QED
      BY <3>2, KeepNone DEF Deltas, s
  <2>3. Squares(<<>>) = <<>> /\ Pairs({}) = {} /\ Len(<<>>) = 0 /\ <<>> \in Seq(Int)
    BY DEF Squares, Pairs
  <2>4. W[1] - W[1] = 0
    BY <1>1, <1>12
  <2>5. Cardinality({}) = 0
    BY FS_EmptySet
  <2>6. 0 * g2[{}] - g1[{}] * g1[{}] = 0
    BY <1>11
  <2> HIDE DEF E, L
  <2> DEFINE d == <<>>
  <2>7. /\ d \in Seq(Int) /\ Len(d) = 0 /\ Sum(d) = 0 /\ Squares(d) = d /\ Pairs({}) = {}
        /\ E(1) = d
    BY <2>2, <2>3, SumNone
  <2> HIDE DEF d
  <2> QED
    BY ONLY <1>11, <2>1, <2>4, <2>5, <2>6, <2>7 DEF Lagrange
<1>13. ASSUME NEW i \in 1 .. n - 1, Agree(E(i), L(i), i)
       PROVE  Agree(E(i + 1), L(i + 1), i + 1)
  <2> DEFINE s == SubSeq(W, 1, i)
             x == W[i + 1]
             e == E(i)
             l == L(i)
             f == E(i + 1)
             k == L(i + 1)
  <2>1. i \in 1 .. n /\ i + 1 \in 1 .. n /\ (i + 1) - 1 = i /\ i <= i + 1
    BY <1>1
  <2>2. s \in Seq(Int) /\ Len(s) = i /\ s[i] = W[i] /\ s # <<>>
    <3>1. s \in Seq(Int) /\ Len(s) = i /\ \A j \in 1 .. i : s[j] = W[j]
      BY <1>1, <2>1
    <3> QED
      BY <2>1, <3>1
  <2>3. SubSeq(W, 1, i + 1) = Append(s, x)
    <3> DEFINE j == i + 1
    <3>1. j \in 1 .. Len(W) /\ j - 1 = i
      BY <2>1
    <3> HIDE DEF j
    <3>2. SubSeq(W, 1, j) = Append(SubSeq(W, 1, j - 1), W[j])
      BY <3>1, PrefixGrows
    <3> QED
      BY <3>1, <3>2 DEF j
  <2>4. W[i] <= x /\ W[i] \in Int /\ x \in Int
    BY <1>1, <2>1 DEF Sorted
  <2>5. /\ x = W[i] => f = e
        /\ x # W[i] => f = Append(e, x - W[i])
    <3>1. f = Deltas(Append(s, x)) /\ e = Deltas(s)
      BY <2>3
    <3> DEFINE w == W[i]
    <3>2. w = s[Len(s)] /\ w <= x /\ x \in Int /\ s \in Seq(Int) /\ s # <<>>
      BY <2>2, <2>4
    <3> HIDE DEF s, x, e, f, w
    <3>3. /\ x = w => f = e
          /\ x # w => f = Append(e, x - w)
      <4>1. /\ x = w => Deltas(Append(s, x)) = Deltas(s)
            /\ x # w => Deltas(Append(s, x)) = Append(Deltas(s), x - w)
        BY ONLY <3>2, DeltasAppend, SMTT(30)
      <4> QED
        BY ONLY <3>1, <4>1
    <3> QED
      BY <3>3 DEF w
  <2>6. \A t \in A : t <= x <=> t <= W[i] \/ t = x
    <3>1. ASSUME NEW t \in A, t <= x, t # x
          PROVE  t <= W[i]
      <4>1. PICK j \in 1 .. n : t = W[j]
        BY <1>1, <1>2
      <4>2. ~(i + 1 <= j)
        <5>1. i + 1 <= j => x <= t
          BY <2>1, <4>1 DEF Sorted
        <5> QED
          BY <1>2, <2>4, <3>1, <5>1
      <4>3. j <= i
        BY <4>2
      <4> QED
        BY <2>1, <4>1, <4>3 DEF Sorted
    <3>2. \A t \in A : t <= W[i] => t <= x
      BY <1>2, <2>4
    <3>3. x <= x
      BY <2>4
    <3> QED
      BY <3>1, <3>2, <3>3
  <2>7. l \in SUBSET A /\ IsFiniteSet(l) /\ \A t \in l : t <= W[i]
    <3>1. l \in SUBSET A /\ \A t \in l : t <= W[i]
      OBVIOUS
    <3> HIDE DEF l
    <3> QED
      BY <1>2, <3>1, FS_Subset
  <2>8. CASE x = W[i]
    <3>1. k = l
      BY <2>8
    <3> HIDE DEF e, f, k, l, x
    <3> QED
      BY <1>13, <2>5, <2>8, <3>1 DEF x, e, f, k, l
  <2>9. CASE x # W[i]
    <3>1. W[i] < x
      BY <2>4, <2>9
    <3>2. x \in A /\ gap[x] = x - W[i]
      BY <1>4, <1>6, <3>1
    <3>3. x \notin l /\ k = l \cup {x}
      <4>1. ~(x <= W[i])
        BY <2>4, <3>1
      <4> QED
        BY <2>6, <3>2, <4>1
    <3>4. \A u \in l : u < x
      <4>1. \A u \in l : u \in Int
        BY <1>2
      <4> HIDE DEF l, x
      <4> QED
        BY <2>4, <2>7, <3>1, <4>1
    <3>5. Agree(e, l, i)
      BY <1>13
    <3> HIDE DEF e, f, k, l, x
    <3>6. f = Append(e, x - W[i]) /\ x - W[i] \in Int
      BY <2>4, <2>5, <2>9
    <3>7. f \in Seq(Int) /\ Len(f) = Len(e) + 1
      BY <3>5, <3>6
    <3>8. Cardinality(k) = Cardinality(l) + 1
      BY <2>7, <3>3, FS_AddElement
    <3>9. g1[k] = g1[l] + (x - W[i]) /\ g2[k] = g2[l] + (x - W[i]) * (x - W[i])
      <4>1. g1[l \cup {x}] = g1[l] + gap[x] /\ g2[l \cup {x}] = g2[l] + sq[x] /\ sq[x] = gap[x] * gap[x]
        BY <1>7, <1>11, <2>7, <3>2, <3>3
      <4> QED
        BY ONLY <3>2, <3>3, <4>1
    <3>10. Sum(f) = Sum(e) + (x - W[i])
      BY ONLY <3>5, <3>6, SumAppend
    <3>11. Sum(Squares(f)) = Sum(Squares(e)) + (x - W[i]) * (x - W[i])
      <4> DEFINE d == x - W[i]
                 dd == d * d
      <4>1. d \in Int /\ f = Append(e, d) /\ e \in Seq(Int) /\ dd \in Int
        <5>1. d \in Int
          BY <2>4
        <5> HIDE DEF d
        <5> QED
          BY <3>5, <3>6, <5>1 DEF d
      <4> HIDE DEF d
      <4>2. Squares(e) \in Seq(Int) /\ Squares(f) = Append(Squares(e), dd)
        BY <4>1, SquaresAppend
      <4> HIDE DEF dd
      <4>3. Sum(Squares(f)) = Sum(Squares(e)) + dd
        BY ONLY <4>1, <4>2, SumAppend
      <4> QED
        BY <4>3 DEF dd, d
    <3>12. Lagrange(g1, g2, gp, k)
      <4>1. Lagrange(g1, g2, gp, l) /\ x \in A \ l
        BY <3>2, <3>3, <3>5
      <4>2. Lagrange(g1, g2, gp, k)
        BY ONLY <1>2, <1>10, <2>7, <3>3, <3>4, <4>1, LagrangeStep
      <4> QED
        BY <4>2
    <3>13. g1[k] = x - W[1]
      <4>1. g1[l] = W[i] - W[1] /\ W[1] \in Int
        BY <1>1, <3>5
      <4> QED
        BY ONLY <2>4, <3>9, <4>1
    <3>14. Agree(f, k, i + 1)
      <4>1. Len(e) = Cardinality(l) /\ Sum(e) = g1[l] /\ Sum(Squares(e)) = g2[l]
        BY <3>5
      <4> QED
        BY ONLY <3>7, <3>8, <3>9, <3>10, <3>11, <3>12, <3>13, <4>1 DEF x
    <3> QED
      BY <3>14 DEF f, k
  <2> QED
    BY <2>8, <2>9
<1> HIDE DEF L, E, Agree
<1>14. 0 \in N
  OBVIOUS
<1>15. ASSUME NEW i \in Nat, i \in N
       PROVE  i + 1 \in N
  <2>1. CASE i = 0
    BY <1>12, <2>1
  <2>2. CASE i # 0
    <3> SUFFICES ASSUME i + 1 \in 1 .. n
                 PROVE  Agree(E(i + 1), L(i + 1), i + 1)
      OBVIOUS
    <3>1. i \in 1 .. n - 1 /\ i \in 1 .. n
      BY <1>1, <2>2
    <3> QED
      BY <1>13, <1>15, <3>1
  <2> QED
    BY <2>1, <2>2
<1> HIDE DEF N
<1>16. Agree(E(n), L(n), n)
  <2>1. n \in N
    BY <1>1, <1>14, <1>15, NaturalsFollow
  <2> QED
    BY <1>1, <2>1 DEF N
<1>17. L(n) = A
  <2>1. ASSUME NEW t \in A
        PROVE  t <= W[n]
    <3>1. PICK j \in 1 .. n : t = W[j]
      BY <1>1, <1>2
    <3> QED
      BY <1>1, <3>1 DEF Sorted
  <2> QED
    BY <2>1 DEF L
<1>18. E(n) = D
  <2>1. SubSeq(W, 1, n) = W
    BY <1>1
  <2> QED
    BY <2>1 DEF E
<1>19. Agree(D, A, n)
  BY ONLY <1>16, <1>17, <1>18
<1>20. Spread(T, Pairs(A)) = gp[Pairs(A)]
  <2> DEFINE P == Pairs(A)
             R == A \X A
  <2>1. P \subseteq R
    BY DEF Pairs
  <2>2. \A p \in P : p \in R /\ p[1] \in A /\ p[2] \in A
    BY DEF Pairs
  <2>3. \A p \in P : pf[p] = GapSquare(T, p)
    BY <1>6, <1>8, <2>2 DEF GapSquare
  <2>4. IsFiniteSet(R) /\ pf \in [R -> Int] /\ IsSum(gp, pf, R)
    BY <1>2, <1>8, <1>9
  <2> HIDE DEF P, R
  <2>5. IsFiniteSet(P)
    BY <2>1, <2>4, FS_Subset
  <2>6. Spread(T, P) = gp[P]
    BY ONLY <2>1, <2>3, <2>4, <2>5, SpreadIsSum
  <2> QED
    BY <2>6 DEF P
<1> QED
  BY <1>19, <1>20 DEF Agree, A, Lagrange
(* The rule finds regular what passes the detector's test of the gaps.     *)
LEMMA RegularMeans ==
  ASSUME NEW W \in Seq(Int), Sorted(W), W # <<>>, NEW T, T = ToSet(W), IsFiniteSet(T)
  PROVE  Rule!Regular(T) <=> Len(Deltas(W)) >= 2 /\ CvAtMost(Deltas(W))
<1> DEFINE D == Deltas(W)
           n == Len(W)
           Later2 == {t \in T : \E u \in T : u < t}
           spread == Spread(T, {p \in Later2 \X Later2 : p[1] < p[2]})
           span == Rule!Max(T) - Rule!Min(T)
<1>1. Rule!Regular(T) <=> /\ Rule!Cardinality(Later2) >= 2
                          /\ CvDen * CvDen * spread <= MaxCvNum * MaxCvNum * span * span
  BY DEF Rule!Regular, Spread
<1>2. Later2 = Later(T) /\ spread = Spread(T, Pairs(Later(T)))
  BY DEF Later, Pairs
<1>3. \A S : Rule!Cardinality(S) = Cardinality(S)
  BY DEF Rule!Cardinality, Cardinality
<1>4. /\ Len(D) = Cardinality(Later(T)) /\ Sum(D) = W[n] - W[1]
      /\ Spread(T, Pairs(Later(T))) = Len(D) * Sum(Squares(D)) - Sum(D) * Sum(D)
  BY SpreadOfGaps
<1>5. span = W[n] - W[1]
  <2>1. /\ n \in Nat /\ 1 \in 1 .. n /\ n \in 1 .. n /\ \A j \in 1 .. n : W[j] \in Int
        /\ T = {W[j] : j \in 1 .. n} /\ T \subseteq Int
    BY ToSetFacts
  <2>2. /\ W[1] \in T /\ W[n] \in T
        /\ \A y \in T : W[1] <= y /\ y <= W[n]
    <3>1. \A j \in 1 .. n : 1 <= j /\ j <= n
      BY <2>1
    <3> QED
      BY <2>1, <3>1 DEF Sorted
  <2>3. Rule!Max(T) = W[n] /\ Rule!Min(T) = W[1]
    BY <2>1, <2>2, Extremes
  <2> QED
    BY <2>3
<1>6. CvAtMost(D) <=> CvDen * CvDen * (Len(D) * Sum(Squares(D)) - Sum(D) * Sum(D))
                        <= MaxCvNum * MaxCvNum * Sum(D) * Sum(D)
  BY DEF CvAtMost, Squares
<1> HIDE DEF D, n, Later2, spread, span
<1>7. CvDen * CvDen * spread <= MaxCvNum * MaxCvNum * span * span <=> CvAtMost(D)
  BY ONLY <1>2, <1>4, <1>5, <1>6
<1>8. Rule!Cardinality(Later2) = Len(D)
  BY ONLY <1>2, <1>3, <1>4
<1>9. Rule!Regular(T) <=> Len(D) >= 2 /\ CvAtMost(D)
  BY ONLY <1>1, <1>7, <1>8
<1> QED
  BY <1>9 DEF D

(* The log of a destination is in order of time.                           *)
LogSorted == \A k \in BeaconKey : Sorted(log[k])

LEMMA AppendSorted ==
  ASSUME PeriodicInv, LogSorted, NEW k \in BeaconKey
  PROVE  Sorted(Append(log[k], clock))
<1> DEFINE s == log[k]
           n == Len(s)
           t == Append(s, clock)
<1>1. s \in Seq(Times) /\ clock \in Times /\ Times \subseteq Int
  BY ConfigFacts DEF PeriodicInv, TypeOK, Times
<1>2. Sorted(s) /\ \A i \in 1 .. n : s[i] <= clock
  BY DEF LogSorted, PeriodicInv, LogInPast
<1> HIDE DEF s
<1>3. /\ Len(t) = n + 1 /\ n \in Nat /\ t[n + 1] = clock
      /\ \A i \in 1 .. n : t[i] = s[i]
  BY <1>1, AppendProperties
<1> HIDE DEF t
<1>4. ASSUME NEW i \in 1 .. n + 1, NEW j \in 1 .. n + 1, i <= j
      PROVE  t[i] <= t[j]
  <2>1. CASE j \in 1 .. n
    <3>1. i \in 1 .. n
      BY <1>3, <1>4, <2>1
    <3> QED
      BY <1>2, <1>3, <1>4, <2>1, <3>1 DEF Sorted
  <2>2. CASE j = n + 1
    <3>1. clock <= clock
      BY <1>1
    <3>2. i \in 1 .. n \/ i = n + 1
      BY <1>3
    <3> QED
      BY <1>2, <1>3, <2>2, <3>1, <3>2
  <2> QED
    BY <1>3, <2>1, <2>2
<1>5. Sorted(t)
  BY <1>3, <1>4 DEF Sorted
<1> QED
  BY <1>5 DEF t, s

(* A sorted log in the initial state, and after every step.               *)
LEMMA LogSortedInit == Init => LogSorted
BY DEF Init, LogSorted, Sorted

LEMMA LogSortedStep == PeriodicInv /\ LogSorted /\ [Next]_periodicVars => LogSorted'
<1> SUFFICES ASSUME PeriodicInv, LogSorted, [Next]_periodicVars
             PROVE  LogSorted'
  OBVIOUS
<1>1. CASE Tick \/ UNCHANGED periodicVars
  BY <1>1 DEF Tick, periodicVars, LogSorted
<1>2. CASE Reset
  BY <1>2 DEF Reset, LogSorted, Sorted
<1>3. ASSUME NEW k \in BeaconKey, Analyze(k)
      PROVE  LogSorted'
  <2>1. log' = [log EXCEPT ![k] = Append(log[k], clock)]
    BY <1>3 DEF Analyze
  <2>2. log \in [BeaconKey -> Seq(Times)] /\ clock \in Times
    BY DEF PeriodicInv, TypeOK, Times
  <2>3. Sorted(Append(log[k], clock))
    BY AppendSorted
  <2> QED
    BY <2>1, <2>2, <2>3 DEF LogSorted
<1> QED
  BY <1>1, <1>2, <1>3 DEF Next

(* The detector alerts exactly when the rule does.                         *)
LEMMA DueMeans ==
  ASSUME PeriodicInv, NEW k \in BeaconKey, NEW l \in Seq(Times), l # <<>>, Sorted(l),
         NEW times, times = Prune(l, clock), Len(times) # 0
  PROVE  Rule!Due(l, alerted[k]) <=> IsPeriodic(k, times)
<1> DEFINE U == {t \in Int : t > clock - Window}
           I == Wanted(l, U)
           T == ToSet(times)
<1>1. /\ clock \in Times /\ alerted[k] \in Times \cup {Never}
      /\ Times \subseteq Int /\ IsFiniteSet(Times) /\ Never \notin Times
  <2>1. clock \in Times /\ alerted[k] \in Times \cup {Never}
    BY DEF PeriodicInv, TypeOK, Times
  <2>2. Times \subseteq Int /\ IsFiniteSet(Times) /\ Never \notin Times
    BY ConfigFacts, FS_Interval DEF Times, Never
  <2> QED
    BY <2>1, <2>2
<1>2. times = Keep(l, U)
  BY DEF Prune
<1>3. I = Rule!InWindow(l)
  <2>1. \A i \in DOMAIN l : l[i] \in Int
    <3>1. \A i \in DOMAIN l : l[i] \in Times
      BY ONLY l \in Seq(Times)
    <3> QED
      BY ONLY <1>1, <3>1
  <2> QED
    BY <2>1 DEF Wanted, Rule!InWindow
<1>4. Sorted(times)
  <2> HIDE DEF U
  <2> QED
    BY <1>1, <1>2, KeepSorted
<1>5. IsFiniteSet(I) /\ Len(times) = Cardinality(I) /\ T = {l[i] : i \in I} /\ times \in Seq(Times)
  <2> HIDE DEF U
  <2>1. Keep(l, U) \in Seq(Times)
    BY KeepType
  <2>2. /\ IsFiniteSet(Wanted(l, U)) /\ Len(Keep(l, U)) = Cardinality(Wanted(l, U))
        /\ ToSet(Keep(l, U)) = {l[i] : i \in Wanted(l, U)}
    BY KeepCounts
  <2> QED
    BY <1>2, <2>1, <2>2
<1> HIDE DEF I, U, T
<1>6. times \in Seq(Int) /\ times # <<>> /\ IsFiniteSet(T)
  <2>1. times \in Seq(Int) /\ times # <<>>
    <3>1. times # <<>>
      BY ONLY Len(times) # 0
    <3>2. Len(times) \in Nat /\ \A i \in 1 .. Len(times) : times[i] \in Times
      BY ONLY <1>5
    <3>3. \A i \in 1 .. Len(times) : times[i] \in Int
      BY ONLY <1>1, <3>2
    <3>4. times = [i \in 1 .. Len(times) |-> times[i]]
      BY ONLY <1>5
    <3> QED
      BY ONLY <3>1, <3>2, <3>3, <3>4
  <2>2. T \subseteq Times
    BY <1>5, ToSetFacts DEF T
  <2> QED
    BY <1>1, <2>1, <2>2, FS_Subset
<1>7. Rule!Regular(T) <=> Len(Deltas(times)) >= 2 /\ CvAtMost(Deltas(times))
  BY <1>4, <1>6, RegularMeans DEF T
<1>8. Rule!Cardinality(I) = Len(times)
  <2>1. \A S : Rule!Cardinality(S) = Cardinality(S)
    BY DEF Rule!Cardinality, Cardinality
  <2> QED
    BY <1>5, <2>1
<1>9. ~CoolingDown(k) <=> alerted[k] = Never \/ clock - alerted[k] >= Cooldown
  <2>1. CASE alerted[k] = Never
    BY <2>1 DEF CoolingDown
  <2>2. CASE alerted[k] # Never
    <3>1. alerted[k] \in Int /\ clock \in Int
      BY ONLY <1>1, <2>2
    <3>2. Cooldown \in Int
      BY ConfigFacts
    <3> QED
      BY <2>2, <3>1, <3>2 DEF CoolingDown
  <2> QED
    BY <2>1, <2>2
<1>10. Rule!Due(l, alerted[k]) <=>
         /\ Rule!Cardinality(Rule!InWindow(l)) >= MinSamples
         /\ alerted[k] = Rule!Never \/ clock - alerted[k] >= Cooldown
         /\ Rule!Regular({l[i] : i \in Rule!InWindow(l)})
  BY DEF Rule!Due
<1>11. Rule!Never = Never
  BY DEF Rule!Never, Never
<1> QED
  BY <1>3, <1>5, <1>7, <1>8, <1>9, <1>10, <1>11 DEF IsPeriodic

(* Each step of the detector is one of the rule.                           *)
LEMMA RuleStep == PeriodicInv /\ LogSorted /\ [Next]_periodicVars => [Rule!RuleNext]_Rule!ruleVars
<1> SUFFICES ASSUME PeriodicInv, LogSorted, [Next]_periodicVars
             PROVE  [Rule!RuleNext]_Rule!ruleVars
  OBVIOUS
<1>1. CASE Tick
  <2>1. clock \in Int /\ clock' = clock + 1
    BY <1>1, ConfigFacts DEF Tick, PeriodicInv, TypeOK
  <2>2. Rule!Pass
    BY <1>1, <2>1 DEF Tick, Rule!Pass
  <2> QED
    BY <2>2 DEF Rule!RuleNext
<1>2. CASE Reset
  <2>1. Rule!Forget
    BY <1>2 DEF Reset, Rule!Forget, Rule!Never, Never
  <2> QED
    BY <2>1 DEF Rule!RuleNext
<1>3. ASSUME NEW k \in BeaconKey, Analyze(k)
      PROVE  Rule!Connect(k)
  <2> DEFINE l == Append(log[k], clock)
             times == Prune(Append(history[k], clock), clock)
  <2>1. /\ log' = [log EXCEPT ![k] = l]
        /\ l \in Seq(Times) /\ l # <<>> /\ times = Prune(l, clock) /\ Len(times) # 0
        /\ alerted' = [alerted EXCEPT ![k] = IF IsPeriodic(k, times) THEN clock ELSE alerted[k]]
        /\ clock' = clock
    BY <1>3, AnalyzeFacts
  <2>2. log \in [BeaconKey -> Seq(Times)] /\ log'[k] = l
    <3>1. log \in [BeaconKey -> Seq(Times)]
      BY DEF PeriodicInv, TypeOK, Times
    <3> QED
      BY <2>1, <3>1
  <2>3. Sorted(l)
    BY AppendSorted
  <2> HIDE DEF l, times
  <2>4. Rule!Due(l, alerted[k]) <=> IsPeriodic(k, times)
    BY <2>1, <2>3, DueMeans
  <2>5. alerted' = [alerted EXCEPT ![k] = IF Rule!Due(log'[k], alerted[k]) THEN clock ELSE alerted[k]]
    BY <2>1, <2>2, <2>4
  <2> QED
    BY <2>1, <2>5 DEF Rule!Connect, l
<1>4. CASE UNCHANGED periodicVars
  BY <1>4 DEF periodicVars, Rule!ruleVars
<1> QED
  BY <1>1, <1>2, <1>3, <1>4 DEF Next, Rule!RuleNext

LEMMA RuleInitial == Init => Rule!RuleInit
BY DEF Init, Rule!RuleInit, Rule!Never, Never

(* The detector decides exactly as the rule on the whole log of a          *)
(* destination does, for any window, thresholds, cooldown and number of    *)
(* destinations: pruning, the loop over the gaps and the variance computed *)
(* from the two sums add nothing to it and take nothing away.              *)
THEOREM BeaconRuleImplemented == DetectSpec => ImplementsBeaconRule
<1>1. Init => LogSorted /\ Rule!RuleInit
  BY LogSortedInit, RuleInitial
<1>2. Spec => ImplementsBeaconRule
  BY <1>1, PeriodicInvariant, LogSortedStep, RuleStep, PTL DEF Spec, ImplementsBeaconRule, Rule!RuleSpec
<1> QED
  BY <1>2, DetectPeriodic, PTL

-----------------------------------------------------------------------------
(***************************************************************************)
(* Detect: what the detectors remember, and the alerts they have raised.   *)
(***************************************************************************)
AlertKind == {"periodic", "process", "connection", "port", "ip"}
AlertRec  == [type : AlertKind, conn : Conn, at : Nat, time : Times]

(* The maps of the novelty detector hold what has been analysed.           *)
SeenOK ==
  /\ analysed \in Seq(Conn) /\ alertLog \in Seq(AlertRec)
  /\ seenConnections = ToSet(analysed)
  /\ seenProcesses = {c.pid : c \in ToSet(analysed)} \ {0}

(* The one of the events that the alert a is about is the first with its   *)
(* connection, or with its process.                                        *)
FirstConnection(a, events) ==
  /\ a.at \in 1 .. Len(events) /\ events[a.at] = a.conn
  /\ \A j \in 1 .. a.at - 1 : events[j] # a.conn

FirstProcess(a, events) ==
  /\ a.conn.pid # 0
  /\ a.at \in 1 .. Len(events) /\ events[a.at].pid = a.conn.pid
  /\ \A j \in 1 .. a.at - 1 : events[j].pid # a.conn.pid

AtFirst ==
  \A i \in 1 .. Len(alertLog) :
    /\ alertLog[i].type = "connection" => FirstConnection(alertLog[i], analysed)
    /\ alertLog[i].type = "process" => FirstProcess(alertLog[i], analysed)

NoTwice ==
  \A i, j \in 1 .. Len(alertLog) : i # j /\ alertLog[i].type = alertLog[j].type =>
    /\ alertLog[i].type = "connection" => alertLog[i].conn # alertLog[j].conn
    /\ alertLog[i].type = "process" => alertLog[i].conn.pid # alertLog[j].conn.pid

Announced ==
  \A n \in 1 .. Len(analysed) :
    /\ \E i \in 1 .. Len(alertLog) : alertLog[i].type = "connection" /\ alertLog[i].conn = analysed[n]
    /\ analysed[n].pid # 0 =>
         \E i \in 1 .. Len(alertLog) : alertLog[i].type = "process" /\ alertLog[i].conn.pid = analysed[n].pid

(* The periodic detector remembers its latest alert for a destination.     *)
LatestKept ==
  \A i \in 1 .. Len(alertLog) : alertLog[i].type = "periodic" =>
    LET k == BeaconOf(alertLog[i].conn)
    IN alerted[k] # Never /\ alertLog[i].time <= alerted[k]

AlertedInPast == \A k \in BeaconKey : alerted[k] <= clock

DetectInv ==
  /\ PeriodicInv /\ SeenOK
  /\ AtFirst /\ NoTwice /\ Announced
  /\ LatestKept /\ AlertedInPast /\ CooldownHeld

LEMMA DetectInvInit == DetectInit => DetectInv
<1> SUFFICES ASSUME DetectInit
             PROVE  DetectInv
  OBVIOUS
<1>1. PeriodicInv
  BY PeriodicInit DEF DetectInit
<1>2. /\ analysed = <<>> /\ alertLog = <<>> /\ seenProcesses = {} /\ seenConnections = {}
      /\ ToSet(<<>>) = {} /\ Len(<<>>) = 0
  BY DEF DetectInit, ToSet
<1>3. SeenOK
  BY <1>2 DEF SeenOK
<1>4. AtFirst /\ NoTwice /\ Announced /\ LatestKept /\ CooldownHeld
  BY <1>2 DEF AtFirst, NoTwice, Announced, LatestKept, CooldownHeld
<1>5. AlertedInPast
  BY DEF DetectInit, Init, AlertedInPast, Never
<1> QED
  BY <1>1, <1>3, <1>4, <1>5 DEF DetectInv

-----------------------------------------------------------------------------
(* The types of the alerts in a list.                                      *)
TypesOf(s) == {s[i].type : i \in 1 .. Len(s)}

(* The alerts in s are about c, of the types K, at most one of each.       *)
AlertsOf(s, c, K) ==
  /\ s \in Seq(AlertRec)
  /\ \A i \in 1 .. Len(s) : s[i].conn = c /\ s[i].at = Len(analysed) + 1 /\ s[i].time = clock
  /\ \A i, j \in 1 .. Len(s) : s[i].type = s[j].type => i = j
  /\ TypesOf(s) = K

(* One alert, if the test succeeds.                                        *)
LEMMA AlertIf ==
  ASSUME NEW c \in Conn, NEW b \in BOOLEAN, NEW type \in AlertKind, clock \in Times, analysed \in Seq(Conn)
  PROVE  AlertsOf(IF b THEN <<Alert(type, c)>> ELSE <<>>, c, IF b THEN {type} ELSE {})
<1>1. Alert(type, c) \in AlertRec
  BY DEF Alert, AlertRec
<1> DEFINE e == Alert(type, c)
<1>2. e.type = type /\ e.conn = c /\ e.at = Len(analysed) + 1 /\ e.time = clock
  BY DEF Alert
<1> HIDE DEF e
<1>3. CASE b
  <2>1. <<e>> \in Seq(AlertRec) /\ Len(<<e>>) = 1 /\ <<e>>[1] = e
    BY <1>1 DEF e
  <2>2. AlertsOf(<<e>>, c, {type})
    BY <1>2, <2>1 DEF AlertsOf, TypesOf
  <2> QED
    BY <1>3, <2>2 DEF e
<1>4. CASE ~b
  <2>1. AlertsOf(<<>>, c, {})
    BY DEF AlertsOf, TypesOf
  <2> QED
    BY <1>4, <2>1
<1> QED
  BY <1>3, <1>4

(* Two lists of alerts of different types, one behind the other.           *)
LEMMA AlertsJoin ==
  ASSUME NEW c, NEW s, NEW t, NEW K, NEW L, AlertsOf(s, c, K), AlertsOf(t, c, L), K \cap L = {}
  PROVE  AlertsOf(s \o t, c, K \cup L)
<1> DEFINE u == s \o t
<1>1. /\ s \in Seq(AlertRec) /\ t \in Seq(AlertRec)
      /\ TypesOf(s) = K /\ TypesOf(t) = L
  BY DEF AlertsOf
<1>2. /\ u \in Seq(AlertRec) /\ Len(u) = Len(s) + Len(t)
      /\ \A i \in 1 .. Len(s) : u[i] = s[i]
      /\ \A i \in 1 .. Len(t) : u[Len(s) + i] = t[i]
  BY <1>1, ConcatFacts
<1> HIDE DEF u
<1>3. \A i \in 1 .. Len(u) :
        i \in 1 .. Len(s) \/ (i > Len(s) /\ i - Len(s) \in 1 .. Len(t) /\ Len(s) + (i - Len(s)) = i)
  BY <1>1, <1>2
<1>4. \A i \in 1 .. Len(u) : (i \in 1 .. Len(s) /\ u[i] = s[i] /\ u[i].type \in K)
                               \/ (i > Len(s) /\ i - Len(s) \in 1 .. Len(t) /\ u[i] = t[i - Len(s)] /\ u[i].type \in L)
  BY <1>1, <1>2, <1>3 DEF TypesOf
<1>5. \A i \in 1 .. Len(u) : u[i].conn = c /\ u[i].at = Len(analysed) + 1 /\ u[i].time = clock
  <2>1. \A i \in 1 .. Len(s) : s[i].conn = c /\ s[i].at = Len(analysed) + 1 /\ s[i].time = clock
    BY DEF AlertsOf
  <2>2. \A i \in 1 .. Len(t) : t[i].conn = c /\ t[i].at = Len(analysed) + 1 /\ t[i].time = clock
    BY DEF AlertsOf
  <2> QED
    BY ONLY <1>4, <2>1, <2>2
<1>6. ASSUME NEW i \in 1 .. Len(u), NEW j \in 1 .. Len(u), u[i].type = u[j].type
      PROVE  i = j
  <2>1. CASE i \in 1 .. Len(s)
    <3>1. u[i].type \in K /\ u[i] = s[i]
      BY <1>4, <2>1
    <3>2. j \in 1 .. Len(s) /\ u[j] = s[j]
      BY <1>4, <1>6, <3>1
    <3> QED
      BY <1>6, <2>1, <3>1, <3>2 DEF AlertsOf
  <2>2. CASE i \notin 1 .. Len(s)
    <3>1. i - Len(s) \in 1 .. Len(t) /\ u[i] = t[i - Len(s)] /\ u[i].type \in L
      BY <1>4, <2>2
    <3>2. j - Len(s) \in 1 .. Len(t) /\ u[j] = t[j - Len(s)]
      BY <1>4, <1>6, <3>1
    <3>3. i - Len(s) = j - Len(s)
      BY <1>6, <3>1, <3>2 DEF AlertsOf
    <3> QED
      BY <1>1, <3>3
  <2> QED
    BY <2>1, <2>2
<1>7. TypesOf(u) = K \cup L
  <2>1. TypesOf(u) \subseteq K \cup L
    BY <1>4 DEF TypesOf
  <2>2. \A i \in 1 .. Len(s) : s[i].type \in TypesOf(u)
    BY <1>1, <1>2 DEF TypesOf
  <2>3. \A i \in 1 .. Len(t) : t[i].type \in TypesOf(u)
    <3>1. \A i \in 1 .. Len(t) : Len(s) + i \in 1 .. Len(u)
      BY <1>1, <1>2
    <3> QED
      BY <1>2, <3>1 DEF TypesOf
  <2>4. K \subseteq TypesOf(u)
    BY ONLY <1>1, <2>2 DEF TypesOf
  <2>5. L \subseteq TypesOf(u)
    BY ONLY <1>1, <2>3 DEF TypesOf
  <2> QED
    BY ONLY <2>1, <2>4, <2>5
<1> QED
  BY <1>2, <1>5, <1>6, <1>7 DEF AlertsOf, u

(* What the analysis of c does to the list of alerts: from position n + 1  *)
(* on, it has one alert of each of the types K, about c.                   *)
LogGrows(c, K) ==
  /\ alertLog' \in Seq(AlertRec) /\ Len(alertLog) <= Len(alertLog')
  /\ \A i \in 1 .. Len(alertLog) : alertLog'[i] = alertLog[i]
  /\ \A i \in Len(alertLog) + 1 .. Len(alertLog') :
       /\ alertLog'[i].conn = c /\ alertLog'[i].at = Len(analysed) + 1 /\ alertLog'[i].time = clock
       /\ alertLog'[i].type \in K
  /\ \A i, j \in Len(alertLog) + 1 .. Len(alertLog') : alertLog'[i].type = alertLog'[j].type => i = j
  /\ \A type \in K : \E i \in Len(alertLog) + 1 .. Len(alertLog') : alertLog'[i].type = type

LEMMA GrowsBy ==
  ASSUME NEW c, NEW K, NEW new, AlertsOf(new, c, K), alertLog \in Seq(AlertRec), alertLog' = alertLog \o new
  PROVE  LogGrows(c, K)
<1> DEFINE n == Len(alertLog)
           u == alertLog'
<1>1. new \in Seq(AlertRec) /\ n \in Nat /\ Len(new) \in Nat
  BY DEF AlertsOf
<1>2. /\ u \in Seq(AlertRec) /\ Len(u) = n + Len(new)
      /\ \A i \in 1 .. n : u[i] = alertLog[i]
      /\ \A i \in 1 .. Len(new) : u[n + i] = new[i]
  BY <1>1, ConcatFacts
<1>3. /\ \A i \in 1 .. Len(new) : new[i].conn = c /\ new[i].at = Len(analysed) + 1 /\ new[i].time = clock
      /\ \A i, j \in 1 .. Len(new) : new[i].type = new[j].type => i = j
      /\ K = {new[i].type : i \in 1 .. Len(new)}
  BY DEF AlertsOf, TypesOf
<1> HIDE DEF n, u
<1>4. \A i \in n + 1 .. Len(u) : i - n \in 1 .. Len(new) /\ n + (i - n) = i
  BY <1>1, <1>2
<1>5. \A i \in n + 1 .. Len(u) : i - n \in 1 .. Len(new) /\ u[i] = new[i - n]
  BY ONLY <1>2, <1>4
<1>6. \A i \in n + 1 .. Len(u) : u[i].conn = c /\ u[i].at = Len(analysed) + 1 /\ u[i].time = clock /\ u[i].type \in K
  BY ONLY <1>3, <1>5
<1>7. \A i, j \in n + 1 .. Len(u) : u[i].type = u[j].type => i = j
  <2> SUFFICES ASSUME NEW i \in n + 1 .. Len(u), NEW j \in n + 1 .. Len(u), u[i].type = u[j].type
               PROVE  i = j
    OBVIOUS
  <2>1. i - n = j - n
    BY ONLY <1>3, <1>5, u[i].type = u[j].type, i \in n + 1 .. Len(u), j \in n + 1 .. Len(u)
  <2> QED
    BY <1>1, <2>1
<1>8. \A type \in K : \E i \in n + 1 .. Len(u) : u[i].type = type
  <2>1. ASSUME NEW x \in 1 .. Len(new)
        PROVE  \E i \in n + 1 .. Len(u) : u[i].type = new[x].type
    <3>1. n + x \in n + 1 .. Len(u)
      BY <1>1, <1>2
    <3> QED
      BY ONLY <1>2, <3>1, x \in 1 .. Len(new)
  <2> QED
    BY ONLY <1>3, <2>1
<1>9. n <= Len(u)
  BY <1>1, <1>2
<1> QED
  BY <1>2, <1>6, <1>7, <1>8, <1>9 DEF LogGrows, n, u

(* The alerts of one analysis: which types, and one of each.               *)
LEMMA NewAlerts ==
  ASSUME TypeOK, SeenOK, NEW c \in Conn, AnalyzeNew(c)
  PROVE  \E K : /\ LogGrows(c, K)
                /\ "periodic" \in K <=> IsPeriodic(BeaconOf(c), Prune(Append(history[BeaconOf(c)], clock), clock))
                /\ "process" \in K <=> NewProcess(c)
                /\ "connection" \in K <=> c \notin seenConnections
<1> DEFINE beacon == IsPeriodic(BeaconOf(c), Prune(Append(history[BeaconOf(c)], clock), clock)) <=> TRUE
           process == NewProcess(c) <=> TRUE
           connection == (c \notin seenConnections) <=> TRUE
           port == (c.port \in BadPort) <=> TRUE
           ip == (c.remote \in BadIP) <=> TRUE
           KB == IF beacon THEN {"periodic"} ELSE {}
           KP == IF process THEN {"process"} ELSE {}
           KC == IF connection THEN {"connection"} ELSE {}
           KO == IF port THEN {"port"} ELSE {}
           KI == IF ip THEN {"ip"} ELSE {}
           B == IF beacon THEN <<Alert("periodic", c)>> ELSE <<>>
           P == IF process THEN <<Alert("process", c)>> ELSE <<>>
           C == IF connection THEN <<Alert("connection", c)>> ELSE <<>>
           O == IF port THEN <<Alert("port", c)>> ELSE <<>>
           I == IF ip THEN <<Alert("ip", c)>> ELSE <<>>
<1>1. clock \in Times /\ analysed \in Seq(Conn) /\ alertLog \in Seq(AlertRec)
  BY DEF TypeOK, SeenOK, Times
<1>2. /\ beacon \in BOOLEAN /\ process \in BOOLEAN /\ connection \in BOOLEAN
      /\ port \in BOOLEAN /\ ip \in BOOLEAN
  OBVIOUS
<1>3. alertLog' = ((alertLog \o B) \o (P \o C)) \o (O \o I)
  BY DEF AnalyzeNew, PeriodicAlerts, NoveltyAlerts, SuspiciousAlerts
<1>4. /\ "periodic" \in KB <=> beacon
      /\ "process" \in KP <=> process
      /\ "connection" \in KC <=> connection
      /\ KB \subseteq {"periodic"} /\ KP \subseteq {"process"} /\ KC \subseteq {"connection"}
      /\ KO \subseteq {"port"} /\ KI \subseteq {"ip"}
  OBVIOUS
<1>5. AlertsOf(B, c, KB)
  BY <1>1, <1>2, AlertIf DEF AlertKind
<1>6. AlertsOf(P, c, KP)
  BY <1>1, <1>2, AlertIf DEF AlertKind
<1>7. AlertsOf(C, c, KC)
  BY <1>1, <1>2, AlertIf DEF AlertKind
<1>8. AlertsOf(O, c, KO)
  BY <1>1, <1>2, AlertIf DEF AlertKind
<1>9. AlertsOf(I, c, KI)
  BY <1>1, <1>2, AlertIf DEF AlertKind
<1> DEFINE K == (KB \cup (KP \cup KC)) \cup (KO \cup KI)
<1>10. "periodic" \in K <=> beacon
  BY <1>4
<1>11. "process" \in K <=> process
  BY <1>4
<1>12. "connection" \in K <=> connection
  BY <1>4
<1> HIDE DEF KB, KP, KC, KO, KI, B, P, C, O, I
<1>13. AlertsOf(P \o C, c, KP \cup KC)
  <2>1. KP \cap KC = {}
    BY <1>4
  <2> QED
    BY <1>6, <1>7, <2>1, AlertsJoin
<1>14. AlertsOf(O \o I, c, KO \cup KI)
  <2>1. KO \cap KI = {}
    BY <1>4
  <2> QED
    BY <1>8, <1>9, <2>1, AlertsJoin
<1>15. AlertsOf(B \o (P \o C), c, KB \cup (KP \cup KC))
  <2>1. KB \cap (KP \cup KC) = {}
    BY <1>4
  <2> QED
    BY <1>5, <1>13, <2>1, AlertsJoin
<1>16. AlertsOf((B \o (P \o C)) \o (O \o I), c, K)
  <2>1. (KB \cup (KP \cup KC)) \cap (KO \cup KI) = {}
    BY <1>4
  <2> QED
    BY <1>14, <1>15, <2>1, AlertsJoin
<1>17. alertLog' = alertLog \o ((B \o (P \o C)) \o (O \o I))
  <2> DEFINE T == Seq(AlertRec)
             Join(s, t) == s \o t
             x == P \o C
             y == O \o I
  <2>1. B \in T /\ x \in T /\ y \in T /\ alertLog \in T /\ B \o x \in T
    <3> HIDE DEF x, y, T
    <3>1. \A s, k : AlertsOf(s, c, k) => s \in T
      BY DEF AlertsOf, T
    <3> QED
      BY ONLY <1>1, <1>5, <1>13, <1>14, <1>15, <3>1 DEF x, y, T
  <2>2. Join(B, x) \in T
    BY <2>1
  <2>3. \A s, t, u \in T : Join(Join(s, t), u) = Join(s, Join(t, u))
    BY ConcatAssociative
  <2>4. alertLog' = Join(Join(Join(alertLog, B), x), y)
    BY ONLY <1>3
  <2> HIDE DEF x, y, T, Join
  <2>5. Join(Join(alertLog, B), x) = Join(alertLog, Join(B, x))
    BY ONLY <2>1, <2>3
  <2>6. Join(Join(alertLog, Join(B, x)), y) = Join(alertLog, Join(Join(B, x), y))
    BY ONLY <2>1, <2>2, <2>3
  <2>7. alertLog' = Join(alertLog, Join(Join(B, x), y))
    BY ONLY <2>4, <2>5, <2>6
  <2> QED
    BY ONLY <2>7 DEF Join, x, y
<1> HIDE DEF K
<1>18. LogGrows(c, K)
  BY ONLY <1>1, <1>16, <1>17, GrowsBy
<1> QED
  BY <1>10, <1>11, <1>12, <1>18

-----------------------------------------------------------------------------
(* The sequence of events grows by c, which is new to it if its connection *)
(* or its process is not in the maps.                                      *)
LEMMA AnalysedGrows ==
  ASSUME TypeOK, SeenOK, NEW c \in Conn, AnalyzeNew(c)
  PROVE  /\ analysed' \in Seq(Conn) /\ analysed \in Seq(Conn) /\ Len(analysed') = Len(analysed) + 1
         /\ \A i \in 1 .. Len(analysed) : analysed'[i] = analysed[i]
         /\ analysed'[Len(analysed) + 1] = c
         /\ c \notin seenConnections <=> \A i \in 1 .. Len(analysed) : analysed[i] # c
         /\ NewProcess(c) <=> c.pid # 0 /\ \A i \in 1 .. Len(analysed) : analysed[i].pid # c.pid
         /\ SeenOK'
<1>1. /\ analysed \in Seq(Conn) /\ alertLog \in Seq(AlertRec)
      /\ seenConnections = ToSet(analysed)
      /\ seenProcesses = {x.pid : x \in ToSet(analysed)} \ {0}
  BY DEF SeenOK
<1>2. analysed' = Append(analysed, c)
  BY DEF AnalyzeNew
<1>3. /\ analysed' \in Seq(Conn) /\ Len(analysed') = Len(analysed) + 1
      /\ \A i \in 1 .. Len(analysed) : analysed'[i] = analysed[i]
      /\ analysed'[Len(analysed) + 1] = c
  BY <1>1, <1>2, AppendFacts
<1>4. ToSet(analysed) = {analysed[i] : i \in 1 .. Len(analysed)}
  BY <1>1, ToSetFacts
<1>5. ToSet(analysed') = {analysed'[i] : i \in 1 .. Len(analysed')}
  BY <1>3, ToSetFacts
<1>6. ToSet(analysed') = ToSet(analysed) \cup {c}
  <2>1. Len(analysed) \in Nat /\ Len(analysed') = Len(analysed) + 1
    BY <1>1, <1>3
  <2>2. \A i \in 1 .. Len(analysed') : i \in 1 .. Len(analysed) \/ i = Len(analysed) + 1
    BY <2>1
  <2>3. 1 .. Len(analysed) \subseteq 1 .. Len(analysed') /\ Len(analysed) + 1 \in 1 .. Len(analysed')
    BY <2>1
  <2>4. ToSet(analysed') \subseteq ToSet(analysed) \cup {c}
    BY ONLY <1>3, <1>4, <1>5, <2>2
  <2>5. ToSet(analysed) \subseteq ToSet(analysed')
    BY ONLY <1>3, <1>4, <1>5, <2>3
  <2>6. c \in ToSet(analysed')
    BY ONLY <1>3, <1>5, <2>3
  <2> QED
    BY ONLY <2>4, <2>5, <2>6
<1>7. c \notin seenConnections <=> \A i \in 1 .. Len(analysed) : analysed[i] # c
  BY ONLY <1>1, <1>4
<1>8. c.pid \in Nat
  BY ConnAssumption
<1>9. NewProcess(c) <=> c.pid # 0 /\ c.pid \notin {x.pid : x \in ToSet(analysed)}
  BY <1>1, <1>8 DEF NewProcess
<1>10. NewProcess(c) <=> c.pid # 0 /\ \A i \in 1 .. Len(analysed) : analysed[i].pid # c.pid
  BY ONLY <1>4, <1>9
<1>11. alertLog' \in Seq(AlertRec)
  <2>1. PICK K : LogGrows(c, K)
    BY NewAlerts
  <2> QED
    BY <2>1 DEF LogGrows
<1>12. seenConnections' = ToSet(analysed')
  BY <1>1, <1>6 DEF AnalyzeNew
<1>13. seenProcesses' = {x.pid : x \in ToSet(analysed')} \ {0}
  <2>1. seenProcesses' = IF NewProcess(c) THEN seenProcesses \cup {c.pid} ELSE seenProcesses
    BY DEF AnalyzeNew
  <2>2. {x.pid : x \in ToSet(analysed')} = {x.pid : x \in ToSet(analysed)} \cup {c.pid}
    BY ONLY <1>6
  <2> QED
    BY <1>1, <1>9, <2>1, <2>2
<1>14. SeenOK'
  BY <1>3, <1>11, <1>12, <1>13 DEF SeenOK
<1> QED
  BY <1>1, <1>3, <1>7, <1>10, <1>14

(* The novelty detector's alerts, one event on.                            *)
LEMMA NoveltyStep ==
  ASSUME TypeOK, SeenOK, AtFirst, NoTwice, Announced, NEW c \in Conn, AnalyzeNew(c)
  PROVE  AtFirst' /\ NoTwice' /\ Announced'
<1> DEFINE n == Len(analysed)
           m == Len(alertLog)
           Old == 1 .. m
           New == m + 1 .. Len(alertLog')
<1>1. PICK K : /\ LogGrows(c, K)
               /\ "process" \in K <=> NewProcess(c)
               /\ "connection" \in K <=> c \notin seenConnections
  BY NewAlerts
<1>2. /\ analysed' \in Seq(Conn) /\ analysed \in Seq(Conn) /\ Len(analysed') = n + 1
      /\ \A i \in 1 .. n : analysed'[i] = analysed[i]
      /\ analysed'[n + 1] = c
      /\ c \notin seenConnections <=> \A i \in 1 .. n : analysed[i] # c
      /\ NewProcess(c) <=> c.pid # 0 /\ \A i \in 1 .. n : analysed[i].pid # c.pid
  BY AnalysedGrows
<1>3. n \in Nat /\ m \in Nat /\ Len(alertLog') \in Nat /\ m <= Len(alertLog')
  BY <1>1, <1>2 DEF SeenOK, LogGrows
<1>4. /\ \A i \in Old : alertLog'[i] = alertLog[i]
      /\ \A i \in New : alertLog'[i].conn = c /\ alertLog'[i].at = n + 1 /\ alertLog'[i].type \in K
      /\ \A i, j \in New : alertLog'[i].type = alertLog'[j].type => i = j
      /\ \A type \in K : \E i \in New : alertLog'[i].type = type
  BY <1>1 DEF LogGrows
<1>5. /\ \A i \in Old : alertLog[i].type = "connection" => FirstConnection(alertLog[i], analysed)
      /\ \A i \in Old : alertLog[i].type = "process" => FirstProcess(alertLog[i], analysed)
  BY DEF AtFirst
<1>6. /\ \A i \in 1 .. Len(alertLog') : i \in Old \/ i \in New
      /\ Old \subseteq 1 .. Len(alertLog') /\ New \subseteq 1 .. Len(alertLog')
  BY <1>3
<1>a. \A i \in 1 .. n + 1 : i \in 1 .. n \/ i = n + 1
  BY <1>3
<1> HIDE DEF n, m, Old, New
<1>8. AtFirst'
  <2>1. ASSUME NEW i \in Old, alertLog'[i].type = "connection"
        PROVE  FirstConnection(alertLog'[i], analysed')
    <3> DEFINE a == alertLog[i]
    <3>1. a.at \in 1 .. n /\ analysed[a.at] = a.conn /\ \A j \in 1 .. a.at - 1 : analysed[j] # a.conn
      BY <1>4, <1>5, <2>1 DEF FirstConnection, n
    <3>2. a.at \in 1 .. n + 1 /\ \A j \in 1 .. a.at - 1 : j \in 1 .. n
      BY <1>3, <3>1
    <3> QED
      BY ONLY i \in Old, <1>2, <1>4, <3>1, <3>2 DEF FirstConnection
  <2>2. ASSUME NEW i \in Old, alertLog'[i].type = "process"
        PROVE  FirstProcess(alertLog'[i], analysed')
    <3> DEFINE a == alertLog[i]
    <3>1. /\ a.conn.pid # 0 /\ a.at \in 1 .. n /\ analysed[a.at].pid = a.conn.pid
          /\ \A j \in 1 .. a.at - 1 : analysed[j].pid # a.conn.pid
      BY <1>4, <1>5, <2>2 DEF FirstProcess, n
    <3>2. a.at \in 1 .. n + 1 /\ \A j \in 1 .. a.at - 1 : j \in 1 .. n
      BY <1>3, <3>1
    <3> QED
      <4>1. alertLog'[i] = a
        BY <1>4
      <4>2. analysed'[a.at].pid = a.conn.pid /\ \A j \in 1 .. a.at - 1 : analysed'[j].pid # a.conn.pid
        BY ONLY <1>2, <3>1, <3>2
      <4> HIDE DEF a
      <4> QED
        BY ONLY <1>2, <3>1, <3>2, <4>1, <4>2 DEF FirstProcess
  <2>3. n + 1 \in 1 .. n + 1 /\ \A j \in 1 .. (n + 1) - 1 : j \in 1 .. n
    BY <1>3
  <2>4. ASSUME NEW i \in New, alertLog'[i].type = "connection"
        PROVE  FirstConnection(alertLog'[i], analysed')
    <3>1. \A j \in 1 .. n : analysed[j] # c
      BY ONLY <1>1, <1>2, <1>4, <2>4
    <3> QED
      BY ONLY i \in New, <1>2, <1>4, <2>3, <3>1 DEF FirstConnection
  <2>5. ASSUME NEW i \in New, alertLog'[i].type = "process"
        PROVE  FirstProcess(alertLog'[i], analysed')
    <3>1. c.pid # 0 /\ \A j \in 1 .. n : analysed[j].pid # c.pid
      BY ONLY <1>1, <1>2, <1>4, <2>5
    <3> QED
      BY ONLY i \in New, <1>2, <1>4, <2>3, <3>1 DEF FirstProcess
  <2> QED
    BY <1>6, <2>1, <2>2, <2>4, <2>5 DEF AtFirst
<1>9. NoTwice'
  <2> SUFFICES ASSUME NEW i \in 1 .. Len(alertLog'), NEW j \in 1 .. Len(alertLog'),
                      i # j, alertLog'[i].type = alertLog'[j].type
               PROVE  /\ alertLog'[i].type = "connection" => alertLog'[i].conn # alertLog'[j].conn
                      /\ alertLog'[i].type = "process" => alertLog'[i].conn.pid # alertLog'[j].conn.pid
    BY DEF NoTwice
  <2>1. CASE i \in Old /\ j \in Old
    BY <1>4, <2>1 DEF NoTwice, Old, m
  <2>2. ASSUME NEW x \in Old, NEW y \in New, alertLog'[x].type = alertLog'[y].type
        PROVE  /\ alertLog'[x].type = "connection" => alertLog'[x].conn # alertLog'[y].conn
               /\ alertLog'[x].type = "process" => alertLog'[x].conn.pid # alertLog'[y].conn.pid
    <3>1. CASE alertLog'[x].type = "connection"
      <4>1. alertLog'[x].conn = analysed[alertLog'[x].at] /\ alertLog'[x].at \in 1 .. n
        BY ONLY x \in Old, <1>4, <1>5, <3>1 DEF FirstConnection, n
      <4>2. "connection" \in K
        <5>1. alertLog'[y].type \in K
          BY ONLY y \in New, <1>4
        <5> QED
          BY ONLY <2>2, <3>1, <5>1
      <4>3. \A k \in 1 .. n : analysed[k] # c
        BY ONLY <1>1, <1>2, <4>2
      <4> QED
        BY ONLY y \in New, <1>4, <3>1, <4>1, <4>3
    <3>2. CASE alertLog'[x].type = "process"
      <4>1. alertLog'[x].conn.pid = analysed[alertLog'[x].at].pid /\ alertLog'[x].at \in 1 .. n
        BY ONLY x \in Old, <1>4, <1>5, <3>2 DEF FirstProcess, n
      <4>2. "process" \in K
        <5>1. alertLog'[y].type \in K
          BY ONLY y \in New, <1>4
        <5> QED
          BY ONLY <2>2, <3>2, <5>1
      <4>3. \A k \in 1 .. n : analysed[k].pid # c.pid
        BY ONLY <1>1, <1>2, <4>2
      <4> QED
        BY ONLY y \in New, <1>4, <3>2, <4>1, <4>3
    <3> QED
      BY <3>1, <3>2
  <2>3. i \in New /\ j \in New => i = j
    BY ONLY <1>4, alertLog'[i].type = alertLog'[j].type
  <2> QED
    BY <1>6, <2>1, <2>2, <2>3
<1>10. Announced'
  <2>1. ASSUME NEW y \in 1 .. n
        PROVE  \E i \in Old : alertLog'[i].type = "connection" /\ alertLog'[i].conn = analysed[y]
    <3>1. PICK i \in Old : alertLog[i].type = "connection" /\ alertLog[i].conn = analysed[y]
      BY DEF Announced, n, Old, m
    <3> QED
      BY <1>4, <3>1
  <2>2. ASSUME NEW y \in 1 .. n, analysed[y].pid # 0
        PROVE  \E i \in Old : alertLog'[i].type = "process" /\ alertLog'[i].conn.pid = analysed[y].pid
    <3>1. PICK i \in Old : alertLog[i].type = "process" /\ alertLog[i].conn.pid = analysed[y].pid
      BY <2>2 DEF Announced, n, Old, m
    <3> QED
      BY <1>4, <3>1
  <2>3. \E i \in Old \cup New : alertLog'[i].type = "connection" /\ alertLog'[i].conn = c
    <3>1. CASE "connection" \in K
      <4>1. PICK i \in New : alertLog'[i].type = "connection"
        BY <1>4, <3>1
      <4> QED
        BY <1>4, <4>1
    <3>2. CASE "connection" \notin K
      <4>1. PICK y \in 1 .. n : analysed[y] = c
        BY ONLY <1>1, <1>2, <3>2
      <4> QED
        BY <2>1, <4>1
    <3> QED
      BY <3>1, <3>2
  <2>4. ASSUME c.pid # 0
        PROVE  \E i \in Old \cup New : alertLog'[i].type = "process" /\ alertLog'[i].conn.pid = c.pid
    <3>1. CASE "process" \in K
      <4>1. PICK i \in New : alertLog'[i].type = "process"
        BY <1>4, <3>1
      <4> QED
        BY <1>4, <4>1
    <3>2. CASE "process" \notin K
      <4>1. PICK y \in 1 .. n : analysed[y].pid = c.pid
        BY ONLY <1>1, <1>2, <2>4, <3>2
      <4> QED
        BY <2>2, <2>4, <4>1
    <3> QED
      BY <3>1, <3>2
  <2>5. ASSUME NEW x \in 1 .. Len(analysed')
        PROVE  \E i \in 1 .. Len(alertLog') : alertLog'[i].type = "connection" /\ alertLog'[i].conn = analysed'[x]
    BY <1>2, <1>6, <1>a, <2>1, <2>3
  <2>6. ASSUME NEW x \in 1 .. Len(analysed'), analysed'[x].pid # 0
        PROVE  \E i \in 1 .. Len(alertLog') : alertLog'[i].type = "process" /\ alertLog'[i].conn.pid = analysed'[x].pid
    <3>1. CASE x \in 1 .. n
      BY <1>2, <1>6, <2>2, <2>6, <3>1
    <3>2. CASE x = n + 1
      BY <1>2, <1>6, <2>4, <2>6, <3>2
    <3> QED
      BY <1>2, <1>a, <3>1, <3>2
  <2> QED
    BY <2>5, <2>6 DEF Announced
<1> QED
  BY <1>8, <1>9, <1>10

(* The alerts of the periodic detector, one event on: a new one finds the  *)
(* latest for its destination a cooldown old.                              *)
LEMMA CooldownStep ==
  ASSUME PeriodicInv, SeenOK, LatestKept, AlertedInPast, CooldownHeld, NEW c \in Conn, AnalyzeNew(c)
  PROVE  LatestKept' /\ AlertedInPast' /\ CooldownHeld'
<1> DEFINE m == Len(alertLog)
           Old == 1 .. m
           New == m + 1 .. Len(alertLog')
           k == BeaconOf(c)
           fires == IsPeriodic(k, Prune(Append(history[k], clock), clock))
<1>1. PICK K : LogGrows(c, K) /\ ("periodic" \in K <=> fires)
  BY NewAlerts DEF PeriodicInv
<1>2. /\ m \in Nat /\ Len(alertLog') \in Nat /\ m <= Len(alertLog')
      /\ DOMAIN alertLog = Old /\ DOMAIN alertLog' = 1 .. Len(alertLog')
      /\ \A i \in Old : alertLog[i] \in AlertRec
  BY <1>1 DEF SeenOK, LogGrows
<1>3. /\ \A i \in Old : alertLog'[i] = alertLog[i]
      /\ \A i \in New : alertLog'[i].conn = c /\ alertLog'[i].time = clock /\ alertLog'[i].type \in K
      /\ \A i, j \in New : alertLog'[i].type = alertLog'[j].type => i = j
  BY <1>1 DEF LogGrows
<1>4. /\ \A i \in 1 .. Len(alertLog') : i \in Old \/ i \in New
      /\ \A i \in Old, j \in New : i < j
  BY <1>2
<1>5. Analyze(k) /\ k \in BeaconKey
  BY KeyAssumption DEF AnalyzeNew, BeaconKeys
<1>6. /\ alerted' = [alerted EXCEPT ![k] = IF fires THEN clock ELSE alerted[k]]
      /\ alerted \in [BeaconKey -> Times \cup {Never}] /\ clock' = clock /\ clock \in Times
  BY <1>5, AnalyzeFacts DEF PeriodicInv, TypeOK, Times
<1>7. /\ fires => alerted'[k] = clock
      /\ ~fires => alerted'[k] = alerted[k]
      /\ \A j \in BeaconKey : j # k => alerted'[j] = alerted[j]
  BY <1>5, <1>6
<1>8. \A t \in Times : t # Never /\ t \in Int
  BY ConfigFacts DEF Times, Never
<1>9. \A j \in BeaconKey : alerted[j] # Never => alerted[j] \in Times /\ alerted[j] <= clock
  BY <1>6 DEF AlertedInPast
<1>10. fires => alerted[k] = Never \/ clock - alerted[k] >= Cooldown
  <2>1. fires => ~CoolingDown(k)
    BY DEF IsPeriodic
  <2> HIDE DEF fires
  <2>2. ASSUME fires, alerted[k] # Never
        PROVE  clock - alerted[k] >= Cooldown
    <3>1. ~(clock - alerted[k] < Cooldown) /\ alerted[k] \in Times
      BY <1>5, <1>9, <2>1, <2>2 DEF CoolingDown
    <3> QED
      BY ONLY <1>6, <1>8, <3>1, ConfigFacts
  <2> QED
    BY <2>2
<1>11. \A i \in Old : alertLog[i].type = "periodic" =>
         /\ alertLog[i].time \in Times /\ BeaconOf(alertLog[i].conn) \in BeaconKey
         /\ alerted[BeaconOf(alertLog[i].conn)] # Never
         /\ alertLog[i].time <= alerted[BeaconOf(alertLog[i].conn)]
  <2> SUFFICES ASSUME NEW i \in Old, alertLog[i].type = "periodic"
               PROVE  /\ alertLog[i].time \in Times /\ BeaconOf(alertLog[i].conn) \in BeaconKey
                      /\ alerted[BeaconOf(alertLog[i].conn)] # Never
                      /\ alertLog[i].time <= alerted[BeaconOf(alertLog[i].conn)]
    OBVIOUS
  <2>1. alertLog[i].time \in Times /\ alertLog[i].conn \in Conn
    BY <1>2 DEF AlertRec
  <2>2. BeaconOf(alertLog[i].conn) \in BeaconKey
    BY <2>1, KeyAssumption DEF BeaconKeys
  <2> QED
    BY <2>1, <2>2 DEF LatestKept
<1> HIDE DEF fires, m, Old, New
<1>12. LatestKept'
  <2> SUFFICES ASSUME NEW i \in 1 .. Len(alertLog'), alertLog'[i].type = "periodic",
                      NEW b, b = BeaconOf(alertLog'[i].conn)
               PROVE  alerted'[b] # Never /\ alertLog'[i].time <= alerted'[b]
    BY DEF LatestKept
  <2>1. CASE i \in Old
    <3>1. /\ alertLog'[i].time \in Times /\ b \in BeaconKey /\ alerted[b] # Never
          /\ alertLog'[i].time <= alerted[b]
      BY <1>3, <1>11, <2>1
    <3>2. CASE b # k \/ ~fires
      BY <1>7, <3>1, <3>2
    <3>3. CASE b = k /\ fires
      <4>1. alerted'[b] = clock /\ alerted[b] <= clock /\ alerted[b] \in Times
        BY <1>7, <1>9, <3>1, <3>3
      <4> QED
        BY <1>6, <1>8, <3>1, <4>1
    <3> QED
      BY <3>2, <3>3
  <2>2. CASE i \in New
    <3>1. "periodic" \in K /\ alertLog'[i].time = clock /\ b = k
      BY <1>3, <2>2
    <3>2. alerted'[b] = clock
      BY <1>1, <1>7, <3>1
    <3> QED
      BY <1>6, <1>8, <3>1, <3>2
  <2> QED
    BY <1>4, <2>1, <2>2
<1>13. CooldownHeld'
  <2> SUFFICES ASSUME NEW i \in 1 .. Len(alertLog'), NEW j \in 1 .. Len(alertLog'), i < j,
                      alertLog'[i].type = "periodic", alertLog'[j].type = "periodic",
                      BeaconOf(alertLog'[i].conn) = BeaconOf(alertLog'[j].conn)
               PROVE  alertLog'[j].time - alertLog'[i].time >= Cooldown
    BY <1>2 DEF CooldownHeld
  <2>1. CASE i \in Old /\ j \in Old
    <3>1. /\ i \in DOMAIN alertLog /\ j \in DOMAIN alertLog
          /\ alertLog'[i] = alertLog[i] /\ alertLog'[j] = alertLog[j]
      BY <1>2, <1>3, <2>1
    <3> QED
      BY <3>1 DEF CooldownHeld
  <2>2. CASE i \in Old /\ j \in New
    <3>1. /\ alertLog'[i].time \in Times /\ alerted[k] # Never /\ alertLog'[i].time <= alerted[k]
          /\ alertLog'[j].time = clock /\ fires
      <4>1. "periodic" \in K /\ alertLog'[j].time = clock /\ BeaconOf(alertLog'[i].conn) = k
        BY <1>3, <2>2
      <4> QED
        BY <1>1, <1>3, <1>11, <2>2, <4>1
    <3>2. clock - alerted[k] >= Cooldown /\ alerted[k] \in Times
      BY <1>5, <1>9, <1>10, <3>1
    <3> QED
      BY <1>6, <1>8, <3>1, <3>2, ConfigFacts
  <2>3. CASE i \in New /\ j \in New
    <3>1. i = j
      BY <1>3, <2>3
    <3> QED
      BY <3>1
  <2>4. ~(i \in New /\ j \in Old)
    BY <1>4
  <2> QED
    BY <1>4, <2>1, <2>2, <2>3, <2>4
<1>14. AlertedInPast'
  BY <1>6, <1>7, <1>8 DEF AlertedInPast
<1> QED
  BY <1>12, <1>13, <1>14

LEMMA DetectStep == DetectInv /\ [DetectNext]_detectVars => DetectInv'
<1> SUFFICES ASSUME DetectInv, [DetectNext]_detectVars
             PROVE  DetectInv'
  OBVIOUS
<1>1. /\ PeriodicInv /\ SeenOK /\ AtFirst /\ NoTwice /\ Announced
      /\ LatestKept /\ AlertedInPast /\ CooldownHeld /\ TypeOK
  BY DEF DetectInv, PeriodicInv
<1>2. PeriodicInv'
  BY <1>1, DetectPeriodicStep, PeriodicStep
<1>3. ASSUME NEW c \in Conn, AnalyzeNew(c)
      PROVE  DetectInv'
  <2>1. SeenOK'
    BY <1>1, <1>3, AnalysedGrows
  <2>2. AtFirst' /\ NoTwice' /\ Announced'
    BY <1>1, <1>3, NoveltyStep
  <2>3. LatestKept' /\ AlertedInPast' /\ CooldownHeld'
    BY <1>1, <1>3, CooldownStep
  <2> QED
    BY <1>2, <2>1, <2>2, <2>3 DEF DetectInv
<1>4. CASE ResetAll
  <2>1. /\ analysed' = <<>> /\ alertLog' = <<>> /\ seenProcesses' = {} /\ seenConnections' = {}
        /\ ToSet(<<>>) = {} /\ Len(<<>>) = 0
    BY <1>4 DEF ResetAll, ToSet
  <2>2. SeenOK'
    BY <2>1 DEF SeenOK
  <2>3. AtFirst' /\ NoTwice' /\ Announced' /\ LatestKept' /\ CooldownHeld'
    BY <2>1 DEF AtFirst, NoTwice, Announced, LatestKept, CooldownHeld
  <2>4. AlertedInPast'
    <3>1. clock' = clock /\ alerted' = [k \in BeaconKey |-> Never] /\ clock \in Times
      BY <1>1, <1>4 DEF ResetAll, Reset, TypeOK, Times
    <3> QED
      BY <3>1, ConfigFacts DEF AlertedInPast, Never, Times
  <2> QED
    BY <1>2, <2>2, <2>3, <2>4 DEF DetectInv
<1>5. CASE Wait \/ UNCHANGED detectVars
  <2>1. /\ UNCHANGED <<seenProcesses, seenConnections, analysed, alertLog, alerted>>
        /\ clock' = clock \/ clock' = clock + 1
    BY <1>5 DEF Wait, Tick, detectVars, periodicVars
  <2>2. SeenOK' /\ AtFirst' /\ NoTwice' /\ Announced' /\ LatestKept' /\ CooldownHeld'
    BY <1>1, <2>1 DEF SeenOK, AtFirst, NoTwice, Announced, LatestKept, CooldownHeld
  <2>3. AlertedInPast'
    <3>1. alerted \in [BeaconKey -> Times \cup {Never}] /\ clock \in Times
      BY <1>1 DEF TypeOK, Times
    <3> QED
      BY <1>1, <2>1, <3>1, ConfigFacts DEF AlertedInPast, Never, Times
  <2> QED
    BY <1>2, <2>2, <2>3 DEF DetectInv
<1> QED
  BY <1>3, <1>4, <1>5 DEF DetectNext

LEMMA DetectInvariant == DetectSpec => []DetectInv
BY DetectInvInit, DetectStep, PTL DEF DetectSpec

(* Two periodic alerts about one process and one remote end are a cooldown *)
(* apart, for any cooldown and any number of local ports.                  *)
THEOREM CooldownCorrect == DetectSpec => []CooldownHeld
<1>1. DetectInv => CooldownHeld
  BY DEF DetectInv
<1> QED
  BY <1>1, DetectInvariant, PTL

(* The first of the events with some property, and the one alert about it. *)
LEMMA FirstEvent ==
  ASSUME NEW I, I \subseteq Nat, NEW i \in I, \A j \in 1 .. i - 1 : j \notin I, 0 \notin I
  PROVE  Min(I) = i
<1>1. Min(I) \in I /\ \A y \in I : Min(I) <= y
  BY LeastElement
<1> DEFINE m == Min(I)
<1>2. m \in Nat /\ m # 0 /\ i \in Nat /\ m <= i /\ m \notin 1 .. i - 1
  BY <1>1
<1> HIDE DEF m
<1>3. m = i
  BY <1>2
<1> QED
  BY <1>3 DEF m

LEMMA AnnouncedFollows == DetectInv => AnnouncedOnce
<1> SUFFICES ASSUME DetectInv
             PROVE  AnnouncedOnce
  OBVIOUS
<1> DEFINE N == 1 .. Len(analysed)
           A == 1 .. Len(alertLog)
<1>1. /\ analysed \in Seq(Conn) /\ alertLog \in Seq(AlertRec)
      /\ DOMAIN analysed = N /\ DOMAIN alertLog = A
      /\ ToSet(analysed) = {analysed[n] : n \in N}
      /\ \A i \in A : alertLog[i] \in AlertRec
      /\ \A n \in N : analysed[n] \in Conn
      /\ N \subseteq Nat /\ 0 \notin N
  BY ToSetFacts DEF DetectInv, SeenOK
<1>2. \A i \in A : alertLog[i].conn \in Conn
  BY <1>1 DEF AlertRec
<1> HIDE DEF N, A
<1>3. ASSUME NEW c \in ToSet(analysed)
      PROVE  \E i \in DOMAIN alertLog : Raised("connection", c) = {i} /\ alertLog[i].at = Min(Analysed(c))
  <2>1. PICK i \in A : alertLog[i].type = "connection" /\ alertLog[i].conn = c
    BY <1>1, <1>3 DEF DetectInv, Announced, N, A
  <2>2. Raised("connection", c) = {i}
    BY <1>1, <2>1 DEF DetectInv, NoTwice, Raised, A
  <2>3. FirstConnection(alertLog[i], analysed)
    BY <2>1 DEF DetectInv, AtFirst, A
  <2>4. /\ alertLog[i].at \in Analysed(c) /\ Analysed(c) \subseteq N
        /\ \A j \in 1 .. alertLog[i].at - 1 : j \notin Analysed(c)
    BY <1>1, <2>1, <2>3 DEF FirstConnection, Analysed, N
  <2>5. Min(Analysed(c)) = alertLog[i].at
    BY <1>1, <2>4, FirstEvent
  <2> QED
    BY <1>1, <2>1, <2>2, <2>5
<1>4. ASSUME NEW p \in {c.pid : c \in ToSet(analysed)},
             NEW found, found = UNION {Raised("process", c) : c \in {x \in Conn : x.pid = p}}
      PROVE  IF p = 0 THEN found = {}
             ELSE \E i \in DOMAIN alertLog :
                    found = {i} /\ alertLog[i].at = Min({n \in DOMAIN analysed : analysed[n].pid = p})
  <2>1. found = {i \in A : alertLog[i].type = "process" /\ alertLog[i].conn.pid = p}
    <3>1. \A i : i \in found <=> \E c \in Conn : c.pid = p /\ i \in Raised("process", c)
      BY <1>4
    <3> QED
      BY <1>1, <1>2, <3>1 DEF Raised
  <2>2. \A i \in A : alertLog[i].type = "process" => FirstProcess(alertLog[i], analysed)
    BY DEF DetectInv, AtFirst, A
  <2>3. CASE p = 0
    BY <2>1, <2>2, <2>3 DEF FirstProcess
  <2>4. CASE p # 0
    <3> DEFINE I == {n \in N : analysed[n].pid = p}
    <3>1. PICK first \in N : analysed[first].pid = p
      BY <1>1, <1>4
    <3>2. PICK i \in A : alertLog[i].type = "process" /\ alertLog[i].conn.pid = p
      BY <2>4, <3>1 DEF DetectInv, Announced, N, A
    <3>3. found = {i}
      BY <2>1, <3>2 DEF DetectInv, NoTwice, A
    <3>4. alertLog[i].at \in I /\ I \subseteq Nat /\ 0 \notin I /\ \A j \in 1 .. alertLog[i].at - 1 : j \notin I
      BY <1>1, <2>2, <3>2 DEF FirstProcess, N
    <3> HIDE DEF I
    <3>5. Min(I) = alertLog[i].at
      BY <3>4, FirstEvent
    <3>6. I = {n \in DOMAIN analysed : analysed[n].pid = p}
      BY <1>1 DEF I
    <3> QED
      BY <1>1, <2>4, <3>2, <3>3, <3>5, <3>6
  <2> QED
    BY <2>3, <2>4
<1> QED
  BY <1>3, <1>4 DEF AnnouncedOnce

(* Every process and every connection is announced once, at its first      *)
(* event, however the events of its connections interleave, and a process  *)
(* that is unknown never is.                                               *)
THEOREM AnnouncedCorrect == DetectSpec => []AnnouncedOnce
BY AnnouncedFollows, DetectInvariant, PTL
=============================================================================
