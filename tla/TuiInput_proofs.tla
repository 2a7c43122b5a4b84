-------------------------- MODULE TuiInput_proofs --------------------------
(***************************************************************************)
(* Proofs about TuiInput: for any capacity of inputCh and any number of    *)
(* bytes typed, whatever the helpers of abandoned ESCs do, the loop sees   *)
(* the bytes in the order of typing and none twice.                        *)
(*                                                                         *)
(* The bytes handled and on their way form one sequence, from the loop     *)
(* back to the terminal.  A step does one of three things to it: nothing,  *)
(* although bytes move from one variable to another; it adds the byte      *)
(* typed; or it cuts out the bytes that a channel swallows.                *)
(***************************************************************************)
EXTENDS TuiInput, Lists_proofs

(* What the place in readInput says about the variables it works on.       *)
PcOK ==
  /\ pc # "send" => sending = <<>>
  /\ pc = "send" => sending # <<>>
  /\ ~Waiting => sequence = <<>>
  /\ pc = "esc" => 1 = Len(sequence)
  /\ pc = "dir" => 2 = Len(sequence)
  /\ Waiting => helpers # <<>>

Rising(w) == \A i, j \in 1 .. Len(w) : i < j => w[i].n < w[j].n

Nums(B) == {b.n : b \in B}

(* The bytes of w are in the order of typing, and each of the n bytes      *)
(* typed is in w or in lost, never in both.                                *)
Accounted(w, lost, n) ==
  /\ Rising(w)
  /\ Nums(ToSet(w)) \cup Nums(lost) = 1 .. n
  /\ Nums(ToSet(w)) \cap Nums(lost) = {}

InputInv == TypeOK /\ PcOK /\ Accounted(OnTheWay, Swallowed, typed)

-----------------------------------------------------------------------------
(* The byte typed last has the largest number.                             *)
LEMMA AccountAppend ==
  ASSUME NEW w \in Seq(Byte), NEW lost \in SUBSET Byte, NEW n \in Nat, NEW e \in Byte,
         Accounted(w, lost, n), e.n = n + 1
  PROVE  Accounted(Append(w, e), lost, n + 1)
<1> DEFINE v == Append(w, e)
<1>1. /\ v \in Seq(Byte) /\ Len(v) = Len(w) + 1
      /\ \A i \in 1 .. Len(w) : v[i] = w[i]
      /\ v[Len(w) + 1] = e
  BY AppendFacts
<1>2. /\ ToSet(v) = {v[i] : i \in 1 .. Len(v)} /\ ToSet(v) \subseteq Byte
      /\ ToSet(w) = {w[i] : i \in 1 .. Len(w)} /\ ToSet(w) \subseteq Byte
  BY <1>1, ToSetFacts
<1> HIDE DEF v
<1>3. \A i \in 1 .. Len(w) : w[i].n \in 1 .. n
  BY <1>2 DEF Accounted, Nums
<1>4. Rising(v)
  BY <1>1, <1>3 DEF Accounted, Rising
<1>5. ToSet(v) = ToSet(w) \cup {e}
  BY <1>1, <1>2
<1>6. Nums(ToSet(v)) = Nums(ToSet(w)) \cup {n + 1}
  BY <1>5 DEF Nums
<1>7. n + 1 \notin 1 .. n /\ 1 .. n + 1 = (1 .. n) \cup {n + 1}
  OBVIOUS
<1>8. n + 1 \notin Nums(lost)
  BY <1>7 DEF Accounted
<1> QED
  BY <1>4, <1>6, <1>7, <1>8 DEF Accounted, v

(* The bytes of a middle part that is cut out, position by position.       *)
LEMMA CutFacts ==
  ASSUME NEW S, NEW a \in Seq(S), NEW b \in Seq(S), NEW c \in Seq(S)
  PROVE  LET w == (a \o b) \o c
             v == a \o c
         IN /\ w \in Seq(S) /\ v \in Seq(S)
            /\ Len(w) = Len(a) + Len(b) + Len(c) /\ Len(v) = Len(a) + Len(c)
            /\ \A i \in 1 .. Len(a) : w[i] = a[i] /\ v[i] = a[i]
            /\ \A i \in 1 .. Len(b) : w[Len(a) + i] = b[i]
            /\ \A i \in 1 .. Len(c) : w[Len(a) + Len(b) + i] = c[i] /\ v[Len(a) + i] = c[i]
<1> DEFINE ab == a \o b
           w == ab \o c
           v == a \o c
<1>1. /\ ab \in Seq(S) /\ Len(ab) = Len(a) + Len(b)
      /\ \A i \in 1 .. Len(a) : ab[i] = a[i]
      /\ \A i \in 1 .. Len(b) : ab[Len(a) + i] = b[i]
  BY ONLY ConcatFacts, a \in Seq(S), b \in Seq(S)
<1>a. ab \in Seq(S)
  BY ONLY <1>1
<1> HIDE DEF ab
<1>2. /\ w \in Seq(S) /\ Len(w) = Len(ab) + Len(c)
      /\ \A i \in 1 .. Len(ab) : w[i] = ab[i]
      /\ \A i \in 1 .. Len(c) : w[Len(ab) + i] = c[i]
  BY ONLY <1>a, ConcatFacts, c \in Seq(S)
<1>3. /\ v \in Seq(S) /\ Len(v) = Len(a) + Len(c)
      /\ \A i \in 1 .. Len(a) : v[i] = a[i]
      /\ \A i \in 1 .. Len(c) : v[Len(a) + i] = c[i]
  BY ONLY ConcatFacts, a \in Seq(S), c \in Seq(S)
<1> HIDE DEF w, v
<1>4. /\ \A i \in 1 .. Len(a) : w[i] = a[i]
      /\ \A i \in 1 .. Len(b) : w[Len(a) + i] = b[i]
  BY <1>1, <1>2
<1> QED
  BY <1>1, <1>2, <1>3, <1>4 DEF ab, w, v

(* Cutting a part out and counting it as lost keeps the account.           *)
LEMMA AccountCut ==
  ASSUME NEW a \in Seq(Byte), NEW b \in Seq(Byte), NEW c \in Seq(Byte),
         NEW lost \in SUBSET Byte, NEW n \in Nat,
         Accounted((a \o b) \o c, lost, n)
  PROVE  Accounted(a \o c, lost \cup ToSet(b), n)
<1> DEFINE w == (a \o b) \o c
           v == a \o c
<1>1. /\ w \in Seq(Byte) /\ v \in Seq(Byte)
      /\ Len(w) = Len(a) + Len(b) + Len(c) /\ Len(v) = Len(a) + Len(c)
      /\ \A i \in 1 .. Len(a) : w[i] = a[i] /\ v[i] = a[i]
      /\ \A i \in 1 .. Len(b) : w[Len(a) + i] = b[i]
      /\ \A i \in 1 .. Len(c) : w[Len(a) + Len(b) + i] = c[i] /\ v[Len(a) + i] = c[i]
  BY ONLY CutFacts, a \in Seq(Byte), b \in Seq(Byte), c \in Seq(Byte)
<1>2. Accounted(w, lost, n)
  OBVIOUS
<1> HIDE DEF w, v
<1>3. /\ ToSet(v) = {v[i] : i \in 1 .. Len(v)} /\ ToSet(v) \subseteq Byte
      /\ ToSet(w) = {w[i] : i \in 1 .. Len(w)} /\ ToSet(w) \subseteq Byte
      /\ ToSet(b) = {b[i] : i \in 1 .. Len(b)} /\ ToSet(b) \subseteq Byte
  BY <1>1, ToSetFacts
<1> DEFINE pos == [i \in 1 .. Len(v) |-> IF i <= Len(a) THEN i ELSE Len(b) + i]
<1>4. ASSUME NEW i \in 1 .. Len(v)
      PROVE  /\ pos[i] \in 1 .. Len(w) /\ w[pos[i]] = v[i]
             /\ i <= Len(a) => pos[i] = i
             /\ i > Len(a) => pos[i] = Len(b) + i
  <2>1. CASE i <= Len(a)
    BY <1>1, <2>1
  <2>2. CASE i > Len(a)
    <3>1. i - Len(a) \in 1 .. Len(c) /\ Len(a) + (i - Len(a)) = i
          /\ Len(a) + Len(b) + (i - Len(a)) = Len(b) + i
      BY <1>1, <2>2
    <3>2. v[i] = c[i - Len(a)] /\ w[Len(b) + i] = c[i - Len(a)]
      BY <1>1, <3>1
    <3>3. pos[i] = Len(b) + i /\ Len(b) + i \in 1 .. Len(w)
      BY <1>1, <2>2
    <3> QED
      BY <2>2, <3>2, <3>3
  <2> QED
    BY <1>1, <2>1, <2>2
<1> HIDE DEF pos
<1>5. ASSUME NEW i \in 1 .. Len(v), NEW j \in 1 .. Len(v), i < j
      PROVE  pos[i] < pos[j]
  <2>1. /\ i <= Len(a) => pos[i] = i
        /\ i > Len(a) => pos[i] = Len(b) + i
        /\ j <= Len(a) => pos[j] = j
        /\ j > Len(a) => pos[j] = Len(b) + j
    BY <1>4
  <2>2. i \in Nat /\ j \in Nat /\ Len(a) \in Nat /\ Len(b) \in Nat
    BY <1>1
  <2> QED
    BY ONLY <1>5, <2>1, <2>2
<1>6. Rising(w)
  BY <1>2 DEF Accounted
<1>7. Rising(v)
  BY <1>4, <1>5, <1>6 DEF Rising
<1>8. ToSet(w) = ToSet(v) \cup ToSet(b)
  <2>1. ToSet(v) \subseteq ToSet(w)
    BY <1>3, <1>4
  <2>2. ASSUME NEW i \in 1 .. Len(b)
        PROVE  b[i] \in ToSet(w)
    <3>1. Len(a) + i \in 1 .. Len(w)
      BY <1>1
    <3> QED
      BY <1>1, <1>3, <3>1
  <2>3. ASSUME NEW i \in 1 .. Len(w)
        PROVE  w[i] \in ToSet(v) \cup ToSet(b)
    <3>1. CASE i <= Len(a)
      <4>1. i \in 1 .. Len(a) /\ i \in 1 .. Len(v)
        BY <1>1, <3>1
      <4> QED
        BY <1>1, <1>3, <4>1
    <3>2. CASE i > Len(a) /\ i <= Len(a) + Len(b)
      <4>1. i - Len(a) \in 1 .. Len(b) /\ Len(a) + (i - Len(a)) = i
        BY <1>1, <3>2
      <4>2. w[i] = b[i - Len(a)]
        BY <1>1, <4>1
      <4> QED
        BY <1>3, <4>1, <4>2
    <3>3. CASE i > Len(a) + Len(b)
      <4>1. i - Len(b) \in 1 .. Len(v) /\ i - Len(b) > Len(a) /\ Len(b) + (i - Len(b)) = i
        BY <1>1, <3>3
      <4>2. w[i] = v[i - Len(b)]
        BY <1>4, <4>1
      <4> QED
        BY <1>3, <4>1, <4>2
    <3> QED
      BY <1>1, <3>1, <3>2, <3>3
  <2> QED
    BY <1>3, <2>1, <2>2, <2>3
<1>9. \A x \in ToSet(v), y \in ToSet(b) : x.n # y.n
  <2>1. SUFFICES ASSUME NEW i \in 1 .. Len(v), NEW k \in 1 .. Len(b)
                 PROVE  v[i].n # b[k].n
    BY <1>3
  <2>2. Len(a) + k \in 1 .. Len(w) /\ w[Len(a) + k] = b[k]
    BY <1>1
  <2>3. pos[i] < Len(a) + k \/ Len(a) + k < pos[i]
    <3>1. /\ i <= Len(a) => pos[i] = i
          /\ i > Len(a) => pos[i] = Len(b) + i
      BY <1>4
    <3>2. i \in Nat /\ k \in 1 .. Len(b) /\ Len(a) \in Nat /\ Len(b) \in Nat
      BY <1>1
    <3> QED
      BY ONLY <3>1, <3>2
  <2>4. pos[i] \in 1 .. Len(w) /\ w[pos[i]] = v[i]
    BY <1>4
  <2>5. w[pos[i]].n \in Int /\ w[Len(a) + k].n \in Int
    <3>1. w[pos[i]] \in Byte /\ w[Len(a) + k] \in Byte
      BY <1>3, <2>2, <2>4
    <3> QED
      BY ONLY <3>1 DEF Byte
  <2>6. w[pos[i]].n < w[Len(a) + k].n \/ w[Len(a) + k].n < w[pos[i]].n
    BY ONLY <1>6, <2>2, <2>3, <2>4 DEF Rising
  <2>7. w[pos[i]].n # w[Len(a) + k].n
    BY ONLY <2>5, <2>6
  <2> QED
    BY <2>2, <2>4, <2>7
<1>10. /\ Nums(ToSet(w)) = Nums(ToSet(v)) \cup Nums(ToSet(b))
       /\ Nums(lost \cup ToSet(b)) = Nums(lost) \cup Nums(ToSet(b))
       /\ Nums(ToSet(v)) \cap Nums(ToSet(b)) = {}
  BY <1>8, <1>9 DEF Nums
<1> QED
  BY <1>2, <1>7, <1>10 DEF Accounted, v

-----------------------------------------------------------------------------
(* Moving the first element of one sequence to the end of the sequence in  *)
(* front of it changes nothing in the two together.                        *)
LEMMA HeadMoves ==
  ASSUME NEW S, NEW a \in Seq(S), NEW t \in Seq(S), t # <<>>
  PROVE  /\ Append(a, Head(t)) \in Seq(S)
         /\ a \o <<Head(t)>> = Append(a, Head(t))
         /\ Append(a, Head(t)) \o Tail(t) = a \o t
<1> DEFINE h == Head(t)
           r == Tail(t)
<1>1. h \in S /\ r \in Seq(S)
  BY HeadTailProperties
<1>2. t = <<h>> \o r
  BY HeadTailProperties
<1> HIDE DEF h, r
<1>3. <<h>> \in Seq(S)
  BY <1>1
<1> DEFINE o == <<h>>
<1>4. Append(a, h) = a \o o /\ Append(a, h) \in Seq(S)
  BY <1>1, AppendIsConcat, AppendProperties
<1> HIDE DEF o
<1>5. o \in Seq(S)
  BY <1>3 DEF o
<1>6. (a \o o) \o r = a \o (o \o r)
  BY <1>1, <1>5, ConcatAssociative
<1>7. o \o r = t
  BY <1>2 DEF o
<1> QED
  BY <1>4, <1>6, <1>7 DEF h, r, o

(* Appending commutes with what is in front.                               *)
LEMMA ConcatAppend ==
  ASSUME NEW S, NEW a \in Seq(S), NEW q \in Seq(S), NEW e \in S
  PROVE  a \o Append(q, e) = Append(a \o q, e)
<1> DEFINE o == <<e>>
           aq == a \o q
<1>1. o \in Seq(S) /\ aq \in Seq(S)
  BY ConcatProperties
<1>2. Append(q, e) = q \o o /\ Append(aq, e) = aq \o o
  BY <1>1, AppendIsConcat
<1> HIDE DEF o
<1>3. (a \o q) \o o = a \o (q \o o)
  BY <1>1, ConcatAssociative
<1> QED
  BY <1>2, <1>3 DEF aq

-----------------------------------------------------------------------------
(* What is in the channels of hs that the reader does not receive from.    *)
NotReceived(hs, waiting) ==
  UNION {ToSet(hs[h].ch) : h \in {g \in DOMAIN hs : g < Len(hs) \/ ~waiting}}

LEMMA NotReceivedElement ==
  ASSUME NEW hs \in Seq(Helper), NEW waiting \in BOOLEAN, NEW x
  PROVE  x \in NotReceived(hs, waiting) <=>
           \E h \in 1 .. Len(hs) : (h < Len(hs) \/ ~waiting) /\ x \in ToSet(hs[h].ch)
BY DEF NotReceived

(* It depends on those channels alone.                                     *)
LEMMA NotReceivedSame ==
  ASSUME NEW hs \in Seq(Helper), NEW hs2 \in Seq(Helper),
         NEW w \in BOOLEAN, NEW w2 \in BOOLEAN,
         \A h \in 1 .. Len(hs) : h < Len(hs) \/ ~w =>
           h \in 1 .. Len(hs2) /\ (h < Len(hs2) \/ ~w2) /\ hs2[h].ch = hs[h].ch,
         \A h \in 1 .. Len(hs2) : h < Len(hs2) \/ ~w2 => h \in 1 .. Len(hs) /\ (h < Len(hs) \/ ~w)
  PROVE  NotReceived(hs2, w2) = NotReceived(hs, w)
<1>1. ASSUME NEW x
      PROVE  x \in NotReceived(hs2, w2) <=> x \in NotReceived(hs, w)
  <2>1. x \in NotReceived(hs, w) <=>
          \E h \in 1 .. Len(hs) : (h < Len(hs) \/ ~w) /\ x \in ToSet(hs[h].ch)
    BY NotReceivedElement
  <2>2. x \in NotReceived(hs2, w2) <=>
          \E h \in 1 .. Len(hs2) : (h < Len(hs2) \/ ~w2) /\ x \in ToSet(hs2[h].ch)
    BY NotReceivedElement
  <2> QED
    BY <2>1, <2>2
<1> QED
  BY <1>1

(* When the reader gives up, the latest channel is added.                  *)
LEMMA NotReceivedGivenUp ==
  ASSUME NEW hs \in Seq(Helper), NEW hs2 \in Seq(Helper), Len(hs2) = Len(hs),
         Len(hs) \in 1 .. Len(hs),
         \A h \in 1 .. Len(hs) : h # Len(hs) => hs2[h].ch = hs[h].ch
  PROVE  NotReceived(hs2, FALSE) = NotReceived(hs, TRUE) \cup ToSet(hs2[Len(hs)].ch)
<1>1. ASSUME NEW x
      PROVE  x \in NotReceived(hs2, FALSE) <=> x \in NotReceived(hs, TRUE) \/ x \in ToSet(hs2[Len(hs)].ch)
  <2>1. x \in NotReceived(hs, TRUE) <=> \E h \in 1 .. Len(hs) : h < Len(hs) /\ x \in ToSet(hs[h].ch)
    BY NotReceivedElement
  <2>2. x \in NotReceived(hs2, FALSE) <=> \E h \in 1 .. Len(hs) : x \in ToSet(hs2[h].ch)
    BY NotReceivedElement
  <2>3. \A h \in 1 .. Len(hs) : h < Len(hs) <=> h # Len(hs)
    OBVIOUS
  <2>4. \A h \in 1 .. Len(hs) : h # Len(hs) => ToSet(hs2[h].ch) = ToSet(hs[h].ch)
    OBVIOUS
  <2> QED
    BY ONLY <2>1, <2>2, <2>3, <2>4, Len(hs) \in 1 .. Len(hs)
<1> QED
  BY <1>1

-----------------------------------------------------------------------------
(***************************************************************************)
(* Types, and what the place of readInput says.                            *)
(***************************************************************************)
LEMMA ChFacts ==
  ASSUME helpers \in Seq(Helper)
  PROVE  /\ Ch \in Seq(Byte)
         /\ helpers # <<>> => /\ Len(helpers) \in 1 .. Len(helpers)
                              /\ helpers[Len(helpers)] \in Helper
                              /\ Ch = helpers[Len(helpers)].ch
<1>1. CASE helpers = <<>>
  BY <1>1 DEF Ch
<1>2. CASE helpers # <<>>
  <2>1. Len(helpers) \in 1 .. Len(helpers)
    BY <1>2, EmptySeq
  <2>2. helpers[Len(helpers)] \in Helper
    BY <2>1
  <2> QED
    BY <1>2, <2>1, <2>2 DEF Ch, Last, Helper
<1> QED
  BY <1>1, <1>2

(* Receiving from the channel of the latest helper.                        *)
LEMMA ReceiveFacts ==
  ASSUME helpers \in Seq(Helper), ReceiveCh
  PROVE  /\ helpers # <<>> /\ Ch # <<>>
         /\ Head(Ch) \in Byte /\ Tail(Ch) \in Seq(Byte)
         /\ helpers' \in Seq(Helper) /\ Len(helpers') = Len(helpers) /\ helpers' # <<>>
         /\ \A h \in 1 .. Len(helpers) : h # Len(helpers) => helpers'[h] = helpers[h]
         /\ helpers'[Len(helpers)].ch = Tail(Ch)
         /\ Ch' = Tail(Ch)
<1> DEFINE k == Len(helpers)
           e == [helpers[k] EXCEPT !.ch = Tail(helpers[k].ch)]
<1>1. helpers # <<>> /\ Ch # <<>> /\ Ch \in Seq(Byte)
  BY ChFacts DEF ReceiveCh, Ch
<1>2. k \in 1 .. k /\ helpers[k] \in Helper /\ Ch = helpers[k].ch
  BY <1>1, ChFacts
<1>3. Head(Ch) \in Byte /\ Tail(Ch) \in Seq(Byte)
  BY <1>1, HeadTailProperties
<1>4. e \in Helper /\ e.ch = Tail(Ch)
  BY <1>2, <1>3 DEF Helper
<1>5. helpers' = [helpers EXCEPT ![k] = e]
  BY DEF ReceiveCh
<1> HIDE DEF e
<1>6. /\ helpers' \in Seq(Helper) /\ Len(helpers') = k
      /\ \A h \in 1 .. k : h # k => helpers'[h] = helpers[h]
      /\ helpers'[k] = e
  BY <1>2, <1>4, <1>5
<1>7. helpers' # <<>>
  BY <1>2, <1>6, EmptySeq
<1>8. Ch' = helpers'[k].ch
  BY <1>6, <1>7 DEF Ch, Last
<1> QED
  BY <1>1, <1>3, <1>4, <1>6, <1>7, <1>8

LEMMA SinglesType ==
  ASSUME NEW s \in Seq(Byte)
  PROVE  /\ [i \in DOMAIN s |-> <<s[i]>>] \in Seq(Seq(Byte))
         /\ Len([i \in DOMAIN s |-> <<s[i]>>]) = Len(s)
         /\ [i \in DOMAIN s |-> <<s[i]>>] = [i \in 1 .. Len(s) |-> <<s[i]>>]
<1>1. \A i \in 1 .. Len(s) : <<s[i]>> \in Seq(Byte)
  OBVIOUS
<1> DEFINE r == [i \in 1 .. Len(s) |-> <<s[i]>>]
<1>2. r \in Seq(Seq(Byte)) /\ Len(r) = Len(s)
  BY <1>1
<1>3. [i \in DOMAIN s |-> <<s[i]>>] = r
  OBVIOUS
<1> QED
  BY <1>2, <1>3, Zenon

LEMMA InputTypeInit == Init => TypeOK /\ PcOK
<1> SUFFICES ASSUME Init
             PROVE  TypeOK /\ PcOK
  OBVIOUS
<1>1. /\ tty \in Seq(Byte) /\ sequence \in Seq(Byte) /\ handled \in Seq(Byte)
      /\ helpers \in Seq(Helper)
  BY DEF Init
<1>2. sending \in Seq(Seq(Byte)) /\ inputCh \in Seq(Seq(Byte)) /\ Len(inputCh) = 0
  BY DEF Init
<1>a. typed = 0 /\ hungUp = FALSE /\ pc = "read"
  BY DEF Init
<1>b. typed \in 0 .. MaxBytes
  BY <1>a, InputAssumption
<1>c. Len(inputCh) <= InputCap
  BY ONLY <1>2, InputAssumption
<1>3. TypeOK
  BY <1>1, <1>2, <1>a, <1>b, <1>c DEF TypeOK
<1> QED
  BY <1>3 DEF Init, PcOK, Waiting

LEMMA TypeTypeStep ==
  ASSUME TypeOK, PcOK, Type
  PROVE  TypeOK' /\ PcOK'
<1> DEFINE e(c) == [n |-> typed', char |-> c]
<1>1. PICK c \in Char : tty' = Append(tty, e(c))
  BY DEF Type
<1>2. typed' \in 1 .. MaxBytes
  BY InputAssumption DEF Type, TypeOK
<1>3. e(c) \in Byte
  BY <1>2 DEF Byte
<1> HIDE DEF e
<1>4. tty' \in Seq(Byte)
  BY <1>1, <1>3, AppendFacts DEF TypeOK
<1>5. /\ UNCHANGED <<hungUp, pc, sequence, helpers, sending, inputCh, handled>>
      /\ typed' \in 0 .. MaxBytes
  BY <1>2, InputAssumption DEF Type, readerVars
<1> QED
  BY <1>4, <1>5 DEF TypeOK, PcOK, Waiting

LEMMA ReadByteTypeStep ==
  ASSUME TypeOK, PcOK, ReadByte
  PROVE  TypeOK' /\ PcOK'
<1>1. Head(tty) \in Byte /\ tty' \in Seq(Byte)
  BY HeadTailProperties DEF TypeOK, ReadByte
<1>2. sequence' \in Seq(Byte)
  <2>1. <<Head(tty)>> \in Seq(Byte) /\ <<>> \in Seq(Byte)
    BY <1>1
  <2> QED
    BY <2>1 DEF ReadByte, ToSend
<1>3. helpers' \in Seq(Helper) /\ (Head(tty).char = "esc" => helpers' # <<>>)
  <2>1. NewHelper \in Helper
    BY EmptySeq DEF NewHelper, Helper
  <2>2. Append(helpers, NewHelper) \in Seq(Helper) /\ Append(helpers, NewHelper) # <<>>
    <3>1. helpers \in Seq(Helper)
      BY DEF TypeOK
    <3> QED
      BY ONLY <2>1, <3>1, AppendProperties
  <2>3. helpers' = IF Head(tty).char = "esc" THEN Append(helpers, NewHelper) ELSE helpers
    BY DEF ReadByte
  <2>4. helpers \in Seq(Helper)
    BY DEF TypeOK
  <2> QED
    BY ONLY <2>2, <2>3, <2>4
<1>4. sending' \in Seq(Seq(Byte))
  <2>1. <<<<Head(tty)>>>> \in Seq(Seq(Byte))
    BY <1>1
  <2> QED
    BY <2>1 DEF ReadByte, ToSend, TypeOK
<1>5. TypeOK'
  BY <1>1, <1>2, <1>3, <1>4 DEF TypeOK, ReadByte, ToSend
<1>6. CASE Head(tty).char = "esc"
  <2>1. pc' = "esc" /\ sequence' = <<Head(tty)>> /\ helpers' = Append(helpers, NewHelper) /\ sending' = sending
    BY <1>6 DEF ReadByte
  <2>2. helpers' # <<>>
    BY <1>3, <1>6
  <2>3. 1 = Len(sequence') /\ sending' = <<>>
    BY <2>1 DEF PcOK, ReadByte
  <2> QED
    BY <1>5, <2>1, <2>2, <2>3 DEF PcOK, Waiting
<1>7. CASE Head(tty).char # "esc"
  <2>1. pc' = "send" /\ sequence' = <<>> /\ sending' = <<<<Head(tty)>>>>
    BY <1>7 DEF ReadByte, ToSend
  <2>2. sending' # <<>>
    BY <2>1
  <2> QED
    BY <1>5, <2>1, <2>2 DEF PcOK, Waiting
<1> QED
  BY <1>6, <1>7

LEMMA TakeNextTypeStep ==
  ASSUME TypeOK, PcOK, TakeNext
  PROVE  TypeOK' /\ PcOK'
<1>1. /\ helpers \in Seq(Helper) /\ ReceiveCh /\ pc = "esc" /\ sending = <<>>
      /\ sequence \in Seq(Byte) /\ 1 = Len(sequence)
  BY DEF TypeOK, PcOK, TakeNext
<1>2. Head(Ch) \in Byte /\ helpers' \in Seq(Helper) /\ helpers' # <<>>
  BY <1>1, ReceiveFacts
<1>3. Append(sequence, Head(Ch)) \in Seq(Byte) /\ 2 = Len(Append(sequence, Head(Ch)))
  <2>1. sequence \in Seq(Byte) /\ Head(Ch) \in Byte
    BY <1>1, <1>2
  <2>2. Append(sequence, Head(Ch)) \in Seq(Byte) /\ Len(Append(sequence, Head(Ch))) = Len(sequence) + 1
    BY ONLY <2>1, AppendFacts
  <2> DEFINE l == Len(sequence)
             m == Len(Append(sequence, Head(Ch)))
  <2>3. 1 = l /\ m = l + 1
    BY <1>1, <2>2
  <2> HIDE DEF l, m
  <2>4. 2 = m
    BY ONLY <2>3
  <2> QED
    BY ONLY <2>2, <2>4 DEF m
<1>4. <<>> \in Seq(Byte) /\ <<sequence, <<Head(Ch)>>>> \in Seq(Seq(Byte)) /\ <<sequence, <<Head(Ch)>>>> # <<>>
  BY <1>1, <1>2
<1>5. \/ pc' = "dir" /\ sequence' = Append(sequence, Head(Ch)) /\ sending' = sending
      \/ pc' = "send" /\ sending' = <<sequence, <<Head(Ch)>>>> /\ sequence' = <<>>
  BY DEF TakeNext, ToSend
<1>6. TypeOK'
  BY <1>2, <1>3, <1>4, <1>5 DEF TypeOK, TakeNext, ttyVars
<1>7. CASE pc' = "dir" /\ sequence' = Append(sequence, Head(Ch)) /\ sending' = sending
  <2>1. 2 = Len(sequence') /\ sending' = <<>>
    BY <1>1, <1>3, <1>7
  <2> QED
    BY ONLY <1>2, <1>6, <1>7, <2>1 DEF PcOK, Waiting
<1>8. CASE pc' = "send" /\ sending' = <<sequence, <<Head(Ch)>>>> /\ sequence' = <<>>
  <2>1. sending' # <<>>
    BY <1>4, <1>8
  <2> QED
    BY ONLY <1>6, <1>8, <2>1 DEF PcOK, Waiting
<1> QED
  BY <1>5, <1>7, <1>8

LEMMA TakeDirTypeStep ==
  ASSUME TypeOK, PcOK, TakeDir
  PROVE  TypeOK' /\ PcOK'
<1>1. /\ helpers \in Seq(Helper) /\ ReceiveCh /\ pc = "dir"
      /\ sequence \in Seq(Byte) /\ 2 = Len(sequence)
  BY DEF TypeOK, PcOK, TakeDir
<1>2. Head(Ch) \in Byte /\ helpers' \in Seq(Helper) /\ helpers' # <<>>
  BY <1>1, ReceiveFacts
<1>3. /\ <<Append(sequence, Head(Ch))>> \in Seq(Seq(Byte))
      /\ <<Append(sequence, Head(Ch))>> # <<>>
  <2>1. Append(sequence, Head(Ch)) \in Seq(Byte)
    BY <1>1, <1>2, AppendFacts
  <2> QED
    BY <2>1
<1>4. /\ <<<<sequence[1]>>, <<sequence[2]>>, <<Head(Ch)>>>> \in Seq(Seq(Byte))
      /\ <<<<sequence[1]>>, <<sequence[2]>>, <<Head(Ch)>>>> # <<>>
  <2>1. sequence[1] \in Byte /\ sequence[2] \in Byte
    <3>1. 1 \in 1 .. Len(sequence) /\ 2 \in 1 .. Len(sequence)
      <4> DEFINE l == Len(sequence)
      <4>1. 2 = l
        BY <1>1
      <4> HIDE DEF l
      <4>2. 1 \in 1 .. l /\ 2 \in 1 .. l
        BY ONLY <4>1
      <4> QED
        BY ONLY <4>2 DEF l
    <3>2. sequence \in Seq(Byte)
      BY <1>1
    <3> QED
      BY ONLY <3>1, <3>2, ElementOfSeq
  <2>2. <<sequence[1]>> \in Seq(Byte) /\ <<sequence[2]>> \in Seq(Byte) /\ <<Head(Ch)>> \in Seq(Byte)
    BY <1>2, <2>1
  <2> QED
    BY <2>2
<1>5. /\ pc' = "send" /\ sequence' = <<>> /\ sequence' \in Seq(Byte)
      /\ \/ sending' = <<Append(sequence, Head(Ch))>>
         \/ sending' = <<<<sequence[1]>>, <<sequence[2]>>, <<Head(Ch)>>>>
  BY DEF TakeDir, ToSend
<1>6. sending' \in Seq(Seq(Byte)) /\ sending' # <<>>
  BY <1>3, <1>4, <1>5
<1>7. UNCHANGED <<typed, tty, hungUp, inputCh, handled>>
  BY DEF TakeDir, ttyVars
<1>8. TypeOK'
  BY <1>2, <1>5, <1>6, <1>7 DEF TypeOK
<1>9. PcOK'
  BY <1>5, <1>6 DEF PcOK, Waiting
<1> QED
  BY <1>8, <1>9

LEMMA TimeOutTypeStep ==
  ASSUME TypeOK, PcOK, TimeOut
  PROVE  TypeOK' /\ PcOK'
<1>1. sequence \in Seq(Byte) /\ Len(sequence) # 0
  <2>1. sequence \in Seq(Byte) /\ (1 = Len(sequence) \/ 2 = Len(sequence))
    BY DEF TypeOK, PcOK, TimeOut
  <2> QED
    BY ONLY <2>1
<1>2. /\ pc' = "send" /\ sequence' = <<>> /\ sequence' \in Seq(Byte)
      /\ sending' = [i \in DOMAIN sequence |-> <<sequence[i]>>]
  BY DEF TimeOut, ToSend
<1>3. sending' \in Seq(Seq(Byte)) /\ Len(sending') = Len(sequence)
  BY <1>1, <1>2, SinglesType
<1>4. sending' # <<>>
  BY <1>1, <1>3, EmptySeq
<1>5. UNCHANGED <<typed, tty, hungUp, helpers, inputCh, handled>>
  BY DEF TimeOut, ttyVars
<1>6. TypeOK'
  BY <1>2, <1>3, <1>5 DEF TypeOK
<1>7. PcOK'
  BY <1>2, <1>4 DEF PcOK, Waiting
<1> QED
  BY <1>6, <1>7

LEMMA SendTypeStep ==
  ASSUME TypeOK, PcOK, Send
  PROVE  TypeOK' /\ PcOK'
<1>1. sending # <<>> /\ sending \in Seq(Seq(Byte)) /\ inputCh \in Seq(Seq(Byte))
  BY DEF TypeOK, PcOK, Send
<1>2. Head(sending) \in Seq(Byte) /\ sending' \in Seq(Seq(Byte))
  BY <1>1, HeadTailProperties DEF Send
<1>3. inputCh' \in Seq(Seq(Byte)) /\ Len(inputCh') = Len(inputCh) + 1
  BY <1>1, <1>2, AppendFacts DEF Send
<1>4. Len(inputCh') <= InputCap
  BY <1>1, <1>3, InputAssumption DEF Send
<1>5. /\ UNCHANGED <<typed, tty, hungUp, sequence, helpers, handled>> /\ pc = "send"
      /\ pc' = IF sending' = <<>> THEN "read" ELSE "send"
  BY DEF Send, ttyVars
<1>6. TypeOK'
  BY <1>2, <1>3, <1>4, <1>5 DEF TypeOK
<1>7. PcOK'
  BY <1>5 DEF PcOK, Waiting
<1> QED
  BY <1>6, <1>7

(* The helper that reads keeps its type, the others are what they were.    *)
LEMMA HelperReadsFacts ==
  ASSUME TypeOK, NEW h \in DOMAIN helpers, HelperReads(h)
  PROVE  /\ helpers' \in Seq(Helper) /\ Len(helpers') = Len(helpers)
         /\ h \in 1 .. Len(helpers) /\ helpers' # <<>>
         /\ \A g \in 1 .. Len(helpers) : g # h => helpers'[g] = helpers[g]
         /\ helpers[h].ch \in Seq(Byte)
         /\ \/ /\ tty # <<>> /\ tty' = Tail(tty)
               /\ helpers'[h].ch = Append(helpers[h].ch, Head(tty))
            \/ tty' = tty /\ helpers'[h].ch = helpers[h].ch
<1>1. helpers \in Seq(Helper) /\ h \in 1 .. Len(helpers) /\ helpers[h] \in Helper /\ tty \in Seq(Byte)
  BY DEF TypeOK
<1>2. helpers[h].ch \in Seq(Byte) /\ helpers[h].left - 1 \in 0 .. 2
  BY <1>1 DEF Helper, HelperReads
<1> DEFINE a == [left |-> helpers[h].left - 1, ch |-> Append(helpers[h].ch, Head(tty))]
           b == [helpers[h] EXCEPT !.left = helpers[h].left - 1]
<1>3. CASE tty # <<>> /\ tty' = Tail(tty) /\ helpers' = [helpers EXCEPT ![h] = a]
  <2>1. Append(helpers[h].ch, Head(tty)) \in Seq(Byte)
    BY <1>1, <1>2, <1>3, HeadTailProperties, AppendFacts
  <2>2. a \in Helper /\ a.ch = Append(helpers[h].ch, Head(tty))
    BY <1>2, <2>1 DEF Helper
  <2> HIDE DEF a
  <2>3. /\ helpers' \in Seq(Helper) /\ Len(helpers') = Len(helpers)
        /\ \A g \in 1 .. Len(helpers) : g # h => helpers'[g] = helpers[g]
        /\ helpers'[h] = a
    BY <1>1, <1>3, <2>2
  <2>4. helpers' # <<>>
    BY <1>1, <2>3, EmptySeq
  <2> QED
    BY <1>1, <1>2, <1>3, <2>2, <2>3, <2>4
<1>4. CASE tty' = tty /\ helpers' = [helpers EXCEPT ![h] = b]
  <2>1. b \in Helper /\ b.ch = helpers[h].ch
    BY <1>1, <1>2 DEF Helper
  <2> HIDE DEF b
  <2>2. /\ helpers' \in Seq(Helper) /\ Len(helpers') = Len(helpers)
        /\ \A g \in 1 .. Len(helpers) : g # h => helpers'[g] = helpers[g]
        /\ helpers'[h] = b
    BY <1>1, <1>4, <2>1
  <2>3. helpers' # <<>>
    BY <1>1, <2>2, EmptySeq
  <2> QED
    BY <1>1, <1>2, <1>4, <2>1, <2>2, <2>3
<1> QED
  BY <1>3, <1>4 DEF HelperReads

LEMMA HelperReadsTypeStep ==
  ASSUME TypeOK, PcOK, NEW h \in DOMAIN helpers, HelperReads(h)
  PROVE  TypeOK' /\ PcOK'
<1>1. tty' \in Seq(Byte) /\ helpers' \in Seq(Helper) /\ helpers' # <<>>
  BY HelperReadsFacts, HeadTailProperties DEF TypeOK
<1>2. UNCHANGED <<typed, hungUp, pc, sequence, sending, inputCh, handled>>
  BY DEF HelperReads
<1> QED
  BY <1>1, <1>2 DEF TypeOK, PcOK, Waiting

LEMMA HandleTypeStep ==
  ASSUME TypeOK, PcOK, Handle
  PROVE  TypeOK' /\ PcOK'
<1>1. /\ inputCh # <<>> /\ inputCh \in Seq(Seq(Byte)) /\ handled \in Seq(Byte) /\ Len(inputCh) <= InputCap
      /\ inputCh' = Tail(inputCh) /\ handled' = handled \o Head(inputCh)
  BY DEF TypeOK, Handle
<1>2. Head(inputCh) \in Seq(Byte) /\ inputCh' \in Seq(Seq(Byte)) /\ Len(inputCh') = Len(inputCh) - 1
  BY <1>1, HeadTailProperties
<1>3. handled' \in Seq(Byte)
  BY <1>1, <1>2, ConcatProperties
<1>4. Len(inputCh') <= InputCap
  BY <1>1, <1>2, InputAssumption
<1>5. UNCHANGED <<typed, tty, hungUp, pc, sequence, helpers, sending>>
  BY DEF Handle, ttyVars, readerVars
<1> QED
  BY <1>2, <1>3, <1>4, <1>5 DEF TypeOK, PcOK, Waiting

LEMMA InputTypeStep == TypeOK /\ PcOK /\ [Next]_vars => TypeOK' /\ PcOK'
<1> SUFFICES ASSUME TypeOK, PcOK, [Next]_vars
             PROVE  TypeOK' /\ PcOK'
  OBVIOUS
<1>1. CASE HangUp
  BY <1>1 DEF HangUp, TypeOK, PcOK, Waiting, readerVars
<1>2. CASE ReadFails
  BY <1>2 DEF ReadFails, TypeOK, PcOK, Waiting, ttyVars
<1>3. CASE UNCHANGED vars
  BY <1>3 DEF TypeOK, PcOK, Waiting, vars, ttyVars, readerVars
<1>4. CASE Type \/ Handle \/ \E h \in DOMAIN helpers : HelperReads(h)
  BY <1>4, TypeTypeStep, HandleTypeStep, HelperReadsTypeStep
<1>5. CASE ReadByte \/ TakeNext \/ TakeDir \/ TimeOut \/ Send
  BY <1>5, ReadByteTypeStep, TakeNextTypeStep, TakeDirTypeStep, TimeOutTypeStep, SendTypeStep
<1> QED
  BY <1>1, <1>2, <1>3, <1>4, <1>5 DEF Next, Reader

-----------------------------------------------------------------------------
(***************************************************************************)
(* What is on its way, by the place of readInput.                          *)
(***************************************************************************)
Early == handled \o BytesOf(inputCh)

(* All but what is still in the terminal.                                  *)
Taken == Early \o BytesOf(sending) \o sequence \o (IF Waiting THEN Ch ELSE <<>>)

ShapeOK ==
  /\ Early \in Seq(Byte) /\ Taken \in Seq(Byte)
  /\ OnTheWay = Taken \o tty
  /\ pc = "read" => OnTheWay = Early \o tty
  /\ pc = "send" => OnTheWay = (Early \o BytesOf(sending)) \o tty
  /\ Waiting => OnTheWay = ((Early \o sequence) \o Ch) \o tty

LEMMA Shapes == TypeOK /\ PcOK => ShapeOK
<1> SUFFICES ASSUME TypeOK, PcOK
             PROVE  ShapeOK
  OBVIOUS
<1> DEFINE S == BytesOf(sending)
           C == IF Waiting THEN Ch ELSE <<>>
<1>1. /\ handled \in Seq(Byte) /\ inputCh \in Seq(Seq(Byte)) /\ sending \in Seq(Seq(Byte))
      /\ sequence \in Seq(Byte) /\ helpers \in Seq(Helper) /\ tty \in Seq(Byte)
  BY DEF TypeOK
<1>2. BytesOf(inputCh) \in Seq(Byte) /\ S \in Seq(Byte)
  BY <1>1, FlattenAppend, EmptySeq DEF BytesOf
<1>3. Early \in Seq(Byte)
  BY <1>1, <1>2, ConcatProperties DEF Early
<1>4. C \in Seq(Byte)
  BY <1>1, ChFacts, EmptySeq
<1>5. /\ pc # "send" => S = <<>>
      /\ ~Waiting => sequence = <<>> /\ C = <<>>
      /\ Waiting => C = Ch /\ pc # "send"
  BY FlattenNone DEF PcOK, Waiting, BytesOf
<1>6. Taken = ((Early \o S) \o sequence) \o C /\ OnTheWay = Taken \o tty
  BY DEF Taken, OnTheWay, Early
<1> HIDE DEF S, C
<1>7. Early \o S \in Seq(Byte) /\ (Early \o S) \o sequence \in Seq(Byte) /\ Taken \in Seq(Byte)
  BY <1>1, <1>2, <1>3, <1>4, <1>6, ConcatProperties
<1>8. Early \o <<>> = Early /\ (Early \o S) \o <<>> = Early \o S
  BY <1>3, <1>7, ConcatEmptySeq
<1>9. pc = "read" => OnTheWay = Early \o tty
  BY <1>5, <1>6, <1>8 DEF Waiting
<1>10. pc = "send" => OnTheWay = (Early \o S) \o tty
  BY <1>5, <1>6, <1>8 DEF Waiting
<1>11. Waiting => OnTheWay = ((Early \o sequence) \o Ch) \o tty
  BY <1>5, <1>6, <1>8
<1> QED
  BY <1>3, <1>6, <1>7, <1>9, <1>10, <1>11 DEF ShapeOK, S

LEMMA ShapesNext == TypeOK' /\ PcOK' => ShapeOK'
BY Shapes, PTL

LEMMA SwallowedFacts ==
  ASSUME TypeOK
  PROVE  /\ Swallowed = NotReceived(helpers, Waiting)
         /\ Swallowed \in SUBSET Byte
         /\ Waiting \in BOOLEAN
<1>1. Swallowed = NotReceived(helpers, Waiting) /\ Waiting \in BOOLEAN
  BY DEF Swallowed, NotReceived, Waiting
<1>2. ASSUME NEW x \in Swallowed
      PROVE  x \in Byte
  <2>1. helpers \in Seq(Helper)
    BY DEF TypeOK
  <2>2. PICK h \in 1 .. Len(helpers) : x \in ToSet(helpers[h].ch)
    BY <1>1, <1>2, <2>1, NotReceivedElement
  <2>3. helpers[h] \in Helper
    BY <2>1
  <2>4. helpers[h].ch \in Seq(Byte)
    BY <2>3 DEF Helper
  <2> QED
    BY <2>2, <2>4, ToSetFacts
<1> QED
  BY <1>1, <1>2

-----------------------------------------------------------------------------
(***************************************************************************)
(* The account, action by action.                                          *)
(***************************************************************************)
Account == Accounted(OnTheWay, Swallowed, typed)

LEMMA TypeAccount ==
  ASSUME TypeOK, PcOK, Account, Type
  PROVE  Account'
<1>1. ShapeOK /\ ShapeOK'
  BY Shapes, ShapesNext, InputTypeStep DEF Next
<1> DEFINE e(c) == [n |-> typed', char |-> c]
<1>2. PICK c \in Char : tty' = Append(tty, e(c))
  BY DEF Type
<1>3. typed \in Nat /\ typed' = typed + 1 /\ typed' \in 1 .. MaxBytes
  BY InputAssumption DEF Type, TypeOK
<1>4. e(c) \in Byte /\ e(c).n = typed + 1
  BY <1>3 DEF Byte
<1> HIDE DEF e
<1>5. UNCHANGED <<pc, sequence, helpers, sending, inputCh, handled>>
  BY DEF Type, readerVars
<1>6. Taken' = Taken /\ Swallowed' = Swallowed
  BY <1>5 DEF Taken, Early, Waiting, Ch, Swallowed
<1>7. tty \in Seq(Byte) /\ Taken \in Seq(Byte) /\ OnTheWay = Taken \o tty /\ OnTheWay' = Taken' \o tty'
  BY <1>1 DEF TypeOK, ShapeOK
<1>8. OnTheWay' = Append(OnTheWay, e(c)) /\ OnTheWay \in Seq(Byte)
  BY <1>2, <1>4, <1>6, <1>7, ConcatAppend, ConcatProperties
<1>9. Accounted(OnTheWay, Swallowed, typed) /\ Swallowed \in SUBSET Byte
  BY SwallowedFacts DEF Account
<1>10. Accounted(Append(OnTheWay, e(c)), Swallowed, typed + 1)
  BY ONLY <1>3, <1>4, <1>8, <1>9, AccountAppend
<1> QED
  BY <1>3, <1>6, <1>8, <1>10 DEF Account

LEMMA ReadByteAccount ==
  ASSUME TypeOK, PcOK, Account, ReadByte
  PROVE  Account'
<1>1. ShapeOK /\ ShapeOK'
  BY Shapes, ShapesNext, InputTypeStep DEF Next, Reader
<1>2. /\ pc = "read" /\ tty # <<>> /\ tty \in Seq(Byte) /\ helpers \in Seq(Helper)
      /\ tty' = Tail(tty) /\ typed' = typed /\ Early' = Early
  BY DEF ReadByte, TypeOK, Early
<1>3. Early \in Seq(Byte) /\ OnTheWay = Early \o tty
  BY <1>1, <1>2 DEF ShapeOK
<1>4. /\ Head(tty) \in Byte /\ Append(Early, Head(tty)) \in Seq(Byte)
      /\ Early \o <<Head(tty)>> = Append(Early, Head(tty))
      /\ Append(Early, Head(tty)) \o Tail(tty) = OnTheWay
  BY <1>2, <1>3, HeadMoves, HeadTailProperties
<1>5. CASE Head(tty).char = "esc"
  <2>1. pc' = "esc" /\ sequence' = <<Head(tty)>> /\ helpers' = Append(helpers, NewHelper)
    BY <1>5 DEF ReadByte
  <2>2. NewHelper \in Helper /\ NewHelper.ch = <<>>
    BY EmptySeq DEF NewHelper, Helper
  <2>3. /\ helpers' \in Seq(Helper) /\ helpers' # <<>> /\ Len(helpers') = Len(helpers) + 1
        /\ \A h \in 1 .. Len(helpers) : helpers'[h] = helpers[h]
        /\ helpers'[Len(helpers) + 1] = NewHelper
    BY ONLY <1>2, <2>1, <2>2, AppendProperties
  <2>4. Ch' = <<>>
    BY <2>2, <2>3 DEF Ch, Last
  <2>5. OnTheWay' = (Append(Early, Head(tty)) \o <<>>) \o Tail(tty)
    BY <1>1, <1>2, <1>4, <2>1, <2>4 DEF ShapeOK, Waiting
  <2>6. OnTheWay' = OnTheWay
    BY <1>4, <2>5, ConcatEmptySeq
  <2>7. ~Waiting /\ Waiting'
    BY <1>2, <2>1 DEF Waiting
  <2>8. NotReceived(helpers', TRUE) = NotReceived(helpers, FALSE)
    <3>1. \A h \in 1 .. Len(helpers) : h \in 1 .. Len(helpers') /\ h < Len(helpers') /\ helpers'[h].ch = helpers[h].ch
      BY <1>2, <2>3
    <3>2. \A h \in 1 .. Len(helpers') : h < Len(helpers') => h \in 1 .. Len(helpers)
      BY <1>2, <2>3
    <3> QED
      BY <1>2, <2>3, <3>1, <3>2, NotReceivedSame
  <2>9. Swallowed' = Swallowed
    BY <2>7, <2>8 DEF Swallowed, NotReceived
  <2> QED
    BY <1>2, <2>6, <2>9 DEF Account
<1>6. CASE Head(tty).char # "esc"
  <2>1. pc' = "send" /\ sending' = <<<<Head(tty)>>>> /\ helpers' = helpers
    BY <1>6 DEF ReadByte, ToSend
  <2>2. <<Head(tty)>> \in Seq(Byte)
    BY <1>4
  <2>3. BytesOf(sending') = <<Head(tty)>>
    BY <2>1, <2>2, FlattenFew DEF BytesOf
  <2>4. OnTheWay' = (Early' \o BytesOf(sending')) \o tty'
    BY <1>1, <2>1 DEF ShapeOK
  <2>5. OnTheWay' = OnTheWay
    BY <1>2, <1>4, <2>3, <2>4
  <2>6. Swallowed' = Swallowed
    BY <1>2, <2>1 DEF Swallowed, Waiting
  <2> QED
    BY <1>2, <2>5, <2>6 DEF Account
<1> QED
  BY <1>5, <1>6

(* The byte after the ESC, or after the ESC [, when it completes what is   *)
(* sent: the rest of the channel is swallowed.                             *)
LEMMA ReceivedAccount ==
  ASSUME TypeOK, PcOK, Account, Waiting, ReceiveCh, pc' = "send",
         TypeOK', PcOK', UNCHANGED <<ttyVars, inputCh, handled>>,
         BytesOf(sending') = Append(sequence, Head(Ch))
  PROVE  Account'
<1>1. ShapeOK /\ ShapeOK'
  BY Shapes, ShapesNext
<1>2. /\ sequence \in Seq(Byte) /\ helpers \in Seq(Helper) /\ tty \in Seq(Byte) /\ typed \in Nat
      /\ tty' = tty /\ typed' = typed /\ Early' = Early
  BY InputAssumption DEF TypeOK, Early, ttyVars
<1>3. /\ helpers # <<>> /\ Ch # <<>> /\ Head(Ch) \in Byte /\ Tail(Ch) \in Seq(Byte)
      /\ helpers' \in Seq(Helper) /\ Len(helpers') = Len(helpers)
      /\ \A h \in 1 .. Len(helpers) : h # Len(helpers) => helpers'[h] = helpers[h]
      /\ helpers'[Len(helpers)].ch = Tail(Ch)
  BY <1>2, ReceiveFacts
<1>4. Len(helpers) \in 1 .. Len(helpers) /\ Ch \in Seq(Byte)
  BY <1>2, <1>3, ChFacts
<1>5. Early \in Seq(Byte) /\ Early \o sequence \in Seq(Byte)
  BY <1>1, <1>2, ConcatProperties DEF ShapeOK
<1> DEFINE q == Early \o sequence
           a == Append(q, Head(Ch))
<1>6. OnTheWay = (q \o Ch) \o tty
  BY <1>1 DEF ShapeOK
<1>7. Early \o Append(sequence, Head(Ch)) = a
  BY <1>2, <1>3, <1>5, ConcatAppend
<1> HIDE DEF q
<1>8. q \in Seq(Byte)
  BY <1>5 DEF q
<1>9. a \in Seq(Byte) /\ a \o Tail(Ch) = q \o Ch
  BY <1>3, <1>4, <1>8, HeadMoves
<1>10. OnTheWay' = a \o tty
  BY <1>1, <1>2, <1>7 DEF ShapeOK
<1> HIDE DEF a
<1>11. Swallowed = NotReceived(helpers, TRUE) /\ Swallowed \in SUBSET Byte /\ Swallowed' = NotReceived(helpers', FALSE)
  BY SwallowedFacts DEF Swallowed, NotReceived, Waiting
<1>12. NotReceived(helpers', FALSE) = NotReceived(helpers, TRUE) \cup ToSet(Tail(Ch))
  BY <1>2, <1>3, <1>4, NotReceivedGivenUp
<1>13. Accounted((a \o Tail(Ch)) \o tty, Swallowed, typed)
  BY <1>6, <1>9 DEF Account
<1>14. Accounted(a \o tty, Swallowed \cup ToSet(Tail(Ch)), typed)
  BY <1>2, <1>3, <1>9, <1>11, <1>13, AccountCut
<1> QED
  BY <1>2, <1>10, <1>11, <1>12, <1>14 DEF Account

LEMMA TakeNextAccount ==
  ASSUME TypeOK, PcOK, Account, TakeNext
  PROVE  Account'
<1>1. TypeOK' /\ PcOK' /\ ShapeOK /\ ShapeOK'
  BY Shapes, ShapesNext, InputTypeStep DEF Next, Reader
<1>2. /\ sequence \in Seq(Byte) /\ helpers \in Seq(Helper) /\ ReceiveCh /\ Waiting
      /\ UNCHANGED <<ttyVars, inputCh, handled>>
  BY DEF TypeOK, TakeNext, Waiting
<1>3. /\ helpers # <<>> /\ Ch # <<>> /\ Head(Ch) \in Byte /\ Tail(Ch) \in Seq(Byte) /\ Ch' = Tail(Ch)
      /\ helpers' \in Seq(Helper) /\ Len(helpers') = Len(helpers)
      /\ \A h \in 1 .. Len(helpers) : h # Len(helpers) => helpers'[h] = helpers[h]
  BY <1>2, ReceiveFacts
<1>4. CASE Head(Ch).char = "["
  <2>1. pc' = "dir" /\ sequence' = Append(sequence, Head(Ch)) /\ Waiting'
    BY <1>4 DEF TakeNext, Waiting
  <2>2. Early' = Early /\ tty' = tty /\ typed' = typed /\ Early \in Seq(Byte) /\ Ch \in Seq(Byte)
    BY <1>1, <1>2, ChFacts DEF Early, ttyVars, ShapeOK
  <2> DEFINE q == Early \o sequence
  <2>3. OnTheWay = (q \o Ch) \o tty /\ OnTheWay' = ((Early \o Append(sequence, Head(Ch))) \o Tail(Ch)) \o tty
    BY <1>1, <1>2, <1>3, <2>1, <2>2 DEF ShapeOK
  <2>4. q \in Seq(Byte) /\ Early \o Append(sequence, Head(Ch)) = Append(q, Head(Ch))
    BY <1>2, <1>3, <2>2, ConcatAppend, ConcatProperties
  <2> HIDE DEF q
  <2>5. Append(q, Head(Ch)) \o Tail(Ch) = q \o Ch
    BY <1>3, <2>2, <2>4, HeadMoves
  <2>6. OnTheWay' = OnTheWay
    BY <2>3, <2>4, <2>5
  <2>7. NotReceived(helpers', TRUE) = NotReceived(helpers, TRUE)
    <3>1. \A h \in 1 .. Len(helpers) : h < Len(helpers) => helpers'[h].ch = helpers[h].ch
      BY <1>3
    <3>2. /\ \A h \in 1 .. Len(helpers) : h < Len(helpers) \/ ~TRUE =>
                h \in 1 .. Len(helpers') /\ (h < Len(helpers') \/ ~TRUE) /\ helpers'[h].ch = helpers[h].ch
          /\ \A h \in 1 .. Len(helpers') : h < Len(helpers') \/ ~TRUE =>
                h \in 1 .. Len(helpers) /\ (h < Len(helpers) \/ ~TRUE)
      BY <1>3, <3>1
    <3> QED
      BY <1>2, <1>3, <3>2, NotReceivedSame, Zenon
  <2>8. Swallowed' = Swallowed
    BY <1>2, <2>1, <2>7 DEF Swallowed, NotReceived
  <2> QED
    BY <2>2, <2>6, <2>8 DEF Account
<1>5. CASE Head(Ch).char # "["
  <2>1. pc' = "send" /\ sending' = <<sequence, <<Head(Ch)>>>>
    BY <1>5 DEF TakeNext, ToSend
  <2>2. <<Head(Ch)>> \in Seq(Byte) /\ sequence \o <<Head(Ch)>> = Append(sequence, Head(Ch))
    BY <1>2, <1>3, AppendIsConcat
  <2>3. BytesOf(sending') = Append(sequence, Head(Ch))
    BY <1>2, <2>1, <2>2, FlattenFew DEF BytesOf
  <2> QED
    BY <1>1, <1>2, <2>1, <2>3, ReceivedAccount
<1> QED
  BY <1>4, <1>5

LEMMA TakeDirAccount ==
  ASSUME TypeOK, PcOK, Account, TakeDir
  PROVE  Account'
<1>1. TypeOK' /\ PcOK'
  BY InputTypeStep DEF Next, Reader
<1>2. /\ sequence \in Seq(Byte) /\ helpers \in Seq(Helper) /\ ReceiveCh /\ Waiting /\ 2 = Len(sequence)
      /\ UNCHANGED <<ttyVars, inputCh, handled>> /\ pc' = "send"
  BY DEF TypeOK, PcOK, TakeDir, Waiting, ToSend
<1>3. Head(Ch) \in Byte
  BY <1>2, ReceiveFacts
<1> DEFINE s == Append(sequence, Head(Ch))
<1>4. s \in Seq(Byte)
  BY <1>2, <1>3, AppendFacts
<1>5. BytesOf(<<s>>) = s
  BY <1>4, FlattenFew DEF BytesOf
<1>6. BytesOf(<<<<sequence[1]>>, <<sequence[2]>>, <<Head(Ch)>>>>) = s
  <2> DEFINE l == Len(sequence)
  <2>1. 2 = l
    BY <1>2
  <2>2. /\ Len(s) = l + 1 /\ s[l + 1] = Head(Ch)
        /\ \A i \in 1 .. l : s[i] = sequence[i]
    BY ONLY <1>2, <1>3, AppendFacts
  <2> HIDE DEF l, s
  <2>3. Len(s) = 3 /\ s[1] = sequence[1] /\ s[2] = sequence[2] /\ s[3] = Head(Ch)
    BY ONLY <2>1, <2>2
  <2>4. [i \in 1 .. Len(s) |-> <<s[i]>>] = [i \in 1 .. 3 |-> <<s[i]>>]
    BY <2>3
  <2>5. [i \in 1 .. 3 |-> <<s[i]>>] = <<<<s[1]>>, <<s[2]>>, <<s[3]>>>>
    OBVIOUS
  <2>6. FlattenSeq([i \in 1 .. Len(s) |-> <<s[i]>>]) = s
    BY <1>4, FlattenSingles
  <2> QED
    BY <2>3, <2>4, <2>5, <2>6 DEF BytesOf
<1>7. BytesOf(sending') = s
  BY <1>5, <1>6 DEF TakeDir, ToSend
<1> QED
  BY <1>1, <1>2, <1>7, ReceivedAccount

LEMMA TimeOutAccount ==
  ASSUME TypeOK, PcOK, Account, TimeOut
  PROVE  Account'
<1>1. ShapeOK /\ ShapeOK'
  BY Shapes, ShapesNext, InputTypeStep DEF Next, Reader
<1>2. /\ sequence \in Seq(Byte) /\ helpers \in Seq(Helper) /\ tty \in Seq(Byte) /\ typed \in Nat
      /\ Waiting /\ helpers # <<>>
  BY InputAssumption DEF TypeOK, PcOK, TimeOut, Waiting
<1>3. /\ tty' = tty /\ typed' = typed /\ Early' = Early /\ helpers' = helpers /\ pc' = "send"
      /\ sending' = [i \in DOMAIN sequence |-> <<sequence[i]>>]
  BY DEF TimeOut, ToSend, Early, ttyVars
<1>4. BytesOf(sending') = sequence
  BY <1>2, <1>3, SinglesType, FlattenSingles DEF BytesOf
<1>5. Ch \in Seq(Byte) /\ Len(helpers) \in 1 .. Len(helpers) /\ Ch = helpers[Len(helpers)].ch
  BY <1>2, ChFacts
<1>6. Early \o sequence \in Seq(Byte)
  BY <1>1, <1>2, ConcatProperties DEF ShapeOK
<1>7. /\ OnTheWay = ((Early \o sequence) \o Ch) \o tty
      /\ OnTheWay' = (Early \o sequence) \o tty
  BY <1>1, <1>2, <1>3, <1>4 DEF ShapeOK
<1>8. Swallowed = NotReceived(helpers, TRUE) /\ Swallowed \in SUBSET Byte /\ Swallowed' = NotReceived(helpers, FALSE)
  BY <1>2, <1>3, SwallowedFacts DEF Swallowed, NotReceived, Waiting
<1>9. NotReceived(helpers, FALSE) = NotReceived(helpers, TRUE) \cup ToSet(Ch)
  BY <1>2, <1>5, NotReceivedGivenUp
<1> DEFINE a == Early \o sequence
<1>10. a \in Seq(Byte) /\ Accounted((a \o Ch) \o tty, Swallowed, typed)
  BY <1>6, <1>7 DEF Account
<1>11. OnTheWay' = a \o tty
  BY <1>7
<1> HIDE DEF a
<1>12. Accounted(a \o tty, Swallowed \cup ToSet(Ch), typed)
  BY <1>2, <1>5, <1>8, <1>10, AccountCut
<1> QED
  BY <1>3, <1>8, <1>9, <1>11, <1>12 DEF Account

LEMMA SendAccount ==
  ASSUME TypeOK, PcOK, Account, Send
  PROVE  Account'
<1>1. ShapeOK /\ ShapeOK'
  BY Shapes, ShapesNext, InputTypeStep DEF Next, Reader
<1>2. /\ sending # <<>> /\ sending \in Seq(Seq(Byte)) /\ inputCh \in Seq(Seq(Byte)) /\ handled \in Seq(Byte)
      /\ inputCh' = Append(inputCh, Head(sending)) /\ sending' = Tail(sending)
      /\ UNCHANGED <<typed, tty, helpers, handled>> /\ pc = "send"
      /\ pc' = IF sending' = <<>> THEN "read" ELSE "send"
  BY DEF TypeOK, PcOK, Send, ttyVars
<1>3. Head(sending) \in Seq(Byte) /\ Tail(sending) \in Seq(Seq(Byte))
  BY <1>2, HeadTailProperties
<1> DEFINE h == Head(sending)
           r == BytesOf(Tail(sending))
           c == BytesOf(inputCh)
<1>4. BytesOf(inputCh') = c \o h /\ c \in Seq(Byte) /\ r \in Seq(Byte)
  BY <1>2, <1>3, FlattenAppend, EmptySeq DEF BytesOf
<1>5. BytesOf(sending) = h \o r
  BY <1>2, FlattenHead DEF BytesOf
<1>6. h \in Seq(Byte) /\ BytesOf(sending') = r
  BY <1>2, <1>3
<1>7. sending' = <<>> => r = <<>>
  BY <1>2, FlattenNone DEF BytesOf
<1>8. Early = handled \o c /\ Early' = handled \o (c \o h)
  BY <1>2, <1>4 DEF Early
<1>9. /\ OnTheWay = (Early \o (h \o r)) \o tty
      /\ sending' = <<>> => OnTheWay' = Early' \o tty
      /\ sending' # <<>> => OnTheWay' = (Early' \o r) \o tty
      /\ Early \in Seq(Byte) /\ Early' \in Seq(Byte)
  BY <1>1, <1>2, <1>5, <1>6 DEF ShapeOK
<1> HIDE DEF h, r, c
<1>10. handled \o (c \o h) = (handled \o c) \o h
  <2>1. \A x, y, z \in Seq(Byte) : (x \o y) \o z = x \o (y \o z)
    BY ConcatAssociative
  <2>2. handled \in Seq(Byte) /\ c \in Seq(Byte) /\ h \in Seq(Byte)
    BY <1>2, <1>4, <1>6
  <2> QED
    BY ONLY <2>1, <2>2
<1>11. Early' = Early \o h
  BY <1>8, <1>10
<1>12. (Early \o h) \o r = Early \o (h \o r)
  <2>1. \A x, y, z \in Seq(Byte) : (x \o y) \o z = x \o (y \o z)
    BY ConcatAssociative
  <2>2. Early \in Seq(Byte) /\ h \in Seq(Byte) /\ r \in Seq(Byte)
    BY <1>4, <1>6, <1>9
  <2> QED
    BY ONLY <2>1, <2>2
<1>13. Early' \o <<>> = Early'
  BY <1>9, ConcatEmptySeq
<1>14. OnTheWay' = OnTheWay
  BY <1>7, <1>9, <1>11, <1>12, <1>13
<1>15. Swallowed' = Swallowed
  BY <1>2 DEF Swallowed, Waiting
<1> QED
  BY <1>2, <1>14, <1>15 DEF Account

LEMMA HandleAccount ==
  ASSUME TypeOK, PcOK, Account, Handle
  PROVE  Account'
<1>1. /\ inputCh # <<>> /\ inputCh \in Seq(Seq(Byte)) /\ handled \in Seq(Byte)
      /\ inputCh' = Tail(inputCh) /\ handled' = handled \o Head(inputCh)
      /\ UNCHANGED <<typed, tty, pc, sequence, helpers, sending>>
  BY DEF TypeOK, Handle, ttyVars, readerVars
<1> DEFINE h == Head(inputCh)
           r == BytesOf(Tail(inputCh))
<1>2. h \in Seq(Byte) /\ Tail(inputCh) \in Seq(Seq(Byte))
  BY <1>1, HeadTailProperties
<1>3. r \in Seq(Byte)
  BY <1>2, FlattenAppend, EmptySeq DEF BytesOf
<1>4. BytesOf(inputCh) = h \o r
  BY <1>1, FlattenHead DEF BytesOf
<1>5. Early = handled \o (h \o r) /\ Early' = (handled \o h) \o r
  BY <1>1, <1>4 DEF Early
<1> HIDE DEF h, r
<1>6. Early' = Early
  <2>1. \A x, y, z \in Seq(Byte) : (x \o y) \o z = x \o (y \o z)
    BY ConcatAssociative
  <2>2. handled \in Seq(Byte) /\ h \in Seq(Byte) /\ r \in Seq(Byte)
    BY <1>1, <1>2, <1>3
  <2>3. (handled \o h) \o r = handled \o (h \o r)
    BY ONLY <2>1, <2>2
  <2> QED
    BY ONLY <1>5, <2>3
<1>7. OnTheWay' = OnTheWay
  <2>1. Taken' = Taken
    BY <1>1, <1>6 DEF Taken, Waiting, Ch
  <2>2. OnTheWay = Taken \o tty /\ OnTheWay' = Taken' \o tty'
    BY DEF OnTheWay, Taken, Early
  <2> QED
    BY <1>1, <2>1, <2>2
<1>8. Swallowed' = Swallowed
  BY <1>1 DEF Swallowed, Waiting
<1> QED
  BY <1>1, <1>7, <1>8 DEF Account

LEMMA HelperReadsAccount ==
  ASSUME TypeOK, PcOK, Account, NEW h \in DOMAIN helpers, HelperReads(h)
  PROVE  Account'
<1>1. ShapeOK /\ ShapeOK'
  BY Shapes, ShapesNext, InputTypeStep DEF Next
<1>2. /\ helpers \in Seq(Helper) /\ tty \in Seq(Byte) /\ typed \in Nat
      /\ UNCHANGED <<typed, pc, sequence, sending, inputCh, handled>>
      /\ Early' = Early /\ Waiting' = Waiting
  BY InputAssumption DEF TypeOK, HelperReads, Early, Waiting
<1>3. /\ helpers' \in Seq(Helper) /\ Len(helpers') = Len(helpers)
      /\ h \in 1 .. Len(helpers) /\ helpers' # <<>> /\ helpers # <<>>
      /\ \A g \in 1 .. Len(helpers) : g # h => helpers'[g] = helpers[g]
      /\ helpers[h].ch \in Seq(Byte)
      /\ \/ /\ tty # <<>> /\ tty' = Tail(tty)
            /\ helpers'[h].ch = Append(helpers[h].ch, Head(tty))
         \/ tty' = tty /\ helpers'[h].ch = helpers[h].ch
  BY HelperReadsFacts, EmptySeq
<1>4. Ch = helpers[Len(helpers)].ch /\ Ch' = helpers'[Len(helpers)].ch /\ Ch \in Seq(Byte)
  <2>1. Ch' = helpers'[Len(helpers')].ch
    BY <1>3 DEF Ch, Last
  <2> QED
    BY <1>2, <1>3, <2>1, ChFacts
<1>5. Taken \in Seq(Byte) /\ OnTheWay = Taken \o tty /\ OnTheWay' = Taken' \o tty'
  BY <1>1 DEF ShapeOK
<1>6. /\ Swallowed = NotReceived(helpers, Waiting) /\ Swallowed \in SUBSET Byte /\ Waiting \in BOOLEAN
      /\ Swallowed' = NotReceived(helpers', Waiting)
  BY <1>2, SwallowedFacts DEF Swallowed, NotReceived
<1>7. CASE tty' = tty /\ helpers'[h].ch = helpers[h].ch
  <2>1. \A g \in 1 .. Len(helpers) : helpers'[g].ch = helpers[g].ch
    BY <1>3, <1>7
  <2>2. Ch' = Ch
    BY <1>3, <1>4, <2>1
  <2>3. OnTheWay' = OnTheWay
    BY <1>2, <1>5, <1>7, <2>2 DEF Taken
  <2>4. NotReceived(helpers', Waiting) = NotReceived(helpers, Waiting)
    <3>1. /\ \A g \in 1 .. Len(helpers) : g < Len(helpers) \/ ~Waiting =>
                g \in 1 .. Len(helpers') /\ (g < Len(helpers') \/ ~Waiting) /\ helpers'[g].ch = helpers[g].ch
          /\ \A g \in 1 .. Len(helpers') : g < Len(helpers') \/ ~Waiting =>
                g \in 1 .. Len(helpers) /\ (g < Len(helpers) \/ ~Waiting)
      BY <1>3, <2>1
    <3> QED
      BY <1>2, <1>3, <1>6, <3>1, NotReceivedSame, Zenon
  <2> QED
    BY <1>2, <1>6, <2>3, <2>4 DEF Account
<1>8. CASE /\ tty # <<>> /\ tty' = Tail(tty)
           /\ helpers'[h].ch = Append(helpers[h].ch, Head(tty))
           /\ Waiting /\ h = Len(helpers)
  <2> DEFINE q == Early \o sequence
             a == q \o Ch
  <2>1. sequence \in Seq(Byte) /\ Early \in Seq(Byte) /\ Head(tty) \in Byte
    BY <1>1, <1>2, <1>8, HeadTailProperties DEF TypeOK, ShapeOK
  <2>2. q \in Seq(Byte)
    BY <2>1, ConcatProperties
  <2>3. OnTheWay = a \o tty /\ OnTheWay' = (q \o Append(Ch, Head(tty))) \o Tail(tty)
    BY <1>1, <1>2, <1>4, <1>8 DEF ShapeOK
  <2> HIDE DEF q
  <2>4. a \in Seq(Byte) /\ q \o Append(Ch, Head(tty)) = Append(a, Head(tty))
    <3>1. q \in Seq(Byte) /\ Ch \in Seq(Byte) /\ Head(tty) \in Byte
      BY <1>4, <2>1, <2>2
    <3>2. q \o Append(Ch, Head(tty)) = Append(q \o Ch, Head(tty))
      BY ONLY <3>1, ConcatAppend
    <3>3. q \o Ch \in Seq(Byte)
      BY ONLY <3>1, ConcatProperties
    <3> QED
      BY <3>2, <3>3
  <2> HIDE DEF a
  <2>5. Append(a, Head(tty)) \o Tail(tty) = a \o tty
    BY <1>2, <1>8, <2>4, HeadMoves
  <2>6. OnTheWay' = OnTheWay
    BY <2>3, <2>4, <2>5
  <2>7. NotReceived(helpers', TRUE) = NotReceived(helpers, TRUE)
    <3>1. /\ \A g \in 1 .. Len(helpers) : g < Len(helpers) \/ ~TRUE =>
                g \in 1 .. Len(helpers') /\ (g < Len(helpers') \/ ~TRUE) /\ helpers'[g].ch = helpers[g].ch
          /\ \A g \in 1 .. Len(helpers') : g < Len(helpers') \/ ~TRUE =>
                g \in 1 .. Len(helpers) /\ (g < Len(helpers) \/ ~TRUE)
      BY <1>3, <1>8
    <3> QED
      BY <1>2, <1>3, <3>1, NotReceivedSame, Zenon
  <2>8. Waiting = TRUE
    BY <1>6, <1>8
  <2> QED
    BY <1>2, <1>6, <2>6, <2>7, <2>8 DEF Account
<1>9. CASE /\ tty # <<>> /\ tty' = Tail(tty)
           /\ helpers'[h].ch = Append(helpers[h].ch, Head(tty))
           /\ h < Len(helpers) \/ ~Waiting
  <2>1. Head(tty) \in Byte /\ Tail(tty) \in Seq(Byte)
    BY <1>2, <1>9, HeadTailProperties
  <2>2. Taken' = Taken
    <3>1. CASE Waiting
      <4>1. Ch' = Ch
        BY <1>3, <1>4, <1>9, <3>1
      <4> QED
        BY <1>2, <4>1 DEF Taken
    <3>2. CASE ~Waiting
      BY <1>2, <3>2 DEF Taken
    <3> QED
      BY <3>1, <3>2
  <2>3. ToSet(<<Head(tty)>>) = {Head(tty)} /\ <<Head(tty)>> \in Seq(Byte)
    BY <2>1 DEF ToSet
  <2> DEFINE b == <<Head(tty)>>
  <2>4. Taken \o b = Append(Taken, Head(tty)) /\ Append(Taken, Head(tty)) \o Tail(tty) = Taken \o tty
    BY <1>2, <1>5, <1>9, HeadMoves
  <2>5. b \in Seq(Byte) /\ ToSet(b) = {Head(tty)}
    BY <2>3
  <2> HIDE DEF b
  <2>6. (Taken \o b) \o Tail(tty) = OnTheWay
    BY <1>5, <2>4
  <2>7. Accounted((Taken \o b) \o Tail(tty), Swallowed, typed)
    BY <2>6 DEF Account
  <2>8. Accounted(Taken \o Tail(tty), Swallowed \cup ToSet(b), typed)
    BY <1>2, <1>5, <1>6, <2>1, <2>5, <2>7, AccountCut
  <2>9. OnTheWay' = Taken \o Tail(tty)
    BY <1>5, <1>9, <2>2
  <2>10. ToSet(helpers'[h].ch) = ToSet(helpers[h].ch) \cup {Head(tty)}
    <3> DEFINE c == helpers[h].ch
               d == Append(c, Head(tty))
    <3>1. /\ c \in Seq(Byte) /\ d \in Seq(Byte) /\ Len(d) = Len(c) + 1 /\ Len(c) \in Nat
          /\ \A i \in 1 .. Len(c) : d[i] = c[i]
          /\ d[Len(c) + 1] = Head(tty)
      BY <1>3, <2>1, AppendFacts
    <3>2. helpers'[h].ch = d
      BY <1>9
    <3> HIDE DEF c, d
    <3>3. ToSet(c) = {c[i] : i \in 1 .. Len(c)} /\ ToSet(d) = {d[i] : i \in 1 .. Len(d)}
      BY <3>1, ToSetFacts
    <3>4. ToSet(d) = ToSet(c) \cup {Head(tty)}
      BY <3>1, <3>3
    <3> QED
      BY <3>2, <3>4 DEF c
  <2>11. ToSet(helpers'[h].ch) = ToSet(helpers[h].ch) \cup ToSet(b)
    BY <2>5, <2>10
  <2>12. NotReceived(helpers', Waiting) = NotReceived(helpers, Waiting) \cup ToSet(b)
    <3>1. \A g \in 1 .. Len(helpers) : g # h => ToSet(helpers'[g].ch) = ToSet(helpers[g].ch)
      BY <1>3
    <3>2. ASSUME NEW x
          PROVE  x \in NotReceived(helpers', Waiting) <=> x \in NotReceived(helpers, Waiting) \/ x \in ToSet(b)
      <4>1. x \in NotReceived(helpers, Waiting) <=>
              \E g \in 1 .. Len(helpers) : (g < Len(helpers) \/ ~Waiting) /\ x \in ToSet(helpers[g].ch)
        BY <1>2, <1>6, NotReceivedElement
      <4>2. x \in NotReceived(helpers', Waiting) <=>
              \E g \in 1 .. Len(helpers) : (g < Len(helpers) \/ ~Waiting) /\ x \in ToSet(helpers'[g].ch)
        BY <1>3, <1>6, NotReceivedElement
      <4>3. x \in ToSet(helpers'[h].ch) <=> x \in ToSet(helpers[h].ch) \/ x \in ToSet(b)
        BY <2>11
      <4>4. h \in 1 .. Len(helpers) /\ (h < Len(helpers) \/ ~Waiting)
        BY <1>3, <1>9
      <4> QED
        BY ONLY <3>1, <4>1, <4>2, <4>3, <4>4
    <3> QED
      BY <3>2
  <2> QED
    BY <1>2, <1>6, <2>8, <2>9, <2>12 DEF Account
<1>10. h < Len(helpers) \/ h = Len(helpers)
  BY <1>3
<1> QED
  BY <1>3, <1>7, <1>8, <1>9, <1>10

-----------------------------------------------------------------------------
LEMMA InputInvInit == Init => InputInv
<1> SUFFICES ASSUME Init
             PROVE  InputInv
  OBVIOUS
<1>1. TypeOK /\ PcOK /\ ShapeOK
  BY InputTypeInit, Shapes
<1>2. BytesOf(inputCh) = <<>> /\ tty = <<>> /\ handled = <<>> /\ pc = "read" /\ typed = 0
  BY FlattenNone DEF Init, BytesOf
<1>3. OnTheWay = <<>>
  <2>1. OnTheWay = (<<>> \o <<>>) \o <<>>
    BY <1>1, <1>2 DEF ShapeOK, Early
  <2> QED
    BY <2>1
<1>4. Swallowed = {}
  BY DEF Init, Swallowed
<1>5. ToSet(<<>>) = {} /\ Rising(<<>>)
  BY DEF ToSet, Rising
<1>6. 1 .. 0 = {}
  OBVIOUS
<1>7. Accounted(OnTheWay, Swallowed, typed)
  BY <1>2, <1>3, <1>4, <1>5, <1>6 DEF Accounted, Nums
<1> QED
  BY <1>1, <1>7 DEF InputInv

LEMMA InputInvStep == InputInv /\ [Next]_vars => InputInv'
<1> SUFFICES ASSUME InputInv, [Next]_vars
             PROVE  InputInv'
  OBVIOUS
<1>1. TypeOK /\ PcOK /\ Account /\ TypeOK' /\ PcOK'
  BY InputTypeStep DEF InputInv, Account
<1>2. CASE HangUp \/ UNCHANGED vars
  <2>1. UNCHANGED <<typed, tty, readerVars, inputCh, handled>>
    BY <1>2 DEF HangUp, vars, ttyVars
  <2> QED
    BY <1>1, <2>1 DEF Account, OnTheWay, Swallowed, Waiting, Ch, readerVars, InputInv
<1>3. CASE ReadFails
  <2>1. /\ UNCHANGED <<ttyVars, sequence, helpers, sending, inputCh, handled>>
        /\ pc = "read" /\ pc' = "closed"
    BY <1>3 DEF ReadFails
  <2>2. OnTheWay' = OnTheWay /\ Swallowed' = Swallowed /\ typed' = typed
    BY <2>1 DEF OnTheWay, Swallowed, Waiting, ttyVars
  <2> QED
    BY <1>1, <2>2 DEF Account, InputInv
<1>4. CASE Type \/ Handle \/ \E h \in DOMAIN helpers : HelperReads(h)
  BY <1>1, <1>4, TypeAccount, HandleAccount, HelperReadsAccount DEF InputInv, Account
<1>5. CASE ReadByte \/ TakeNext \/ TakeDir \/ TimeOut \/ Send
  BY <1>1, <1>5, ReadByteAccount, TakeNextAccount, TakeDirAccount, TimeOutAccount, SendAccount
     DEF InputInv, Account
<1> QED
  BY <1>2, <1>3, <1>4, <1>5 DEF Next, Reader

LEMMA InputInvariant == Spec => []InputInv
BY InputInvInit, InputInvStep, PTL DEF Spec

(* The variables of readInput, of its helpers and of the display loop's    *)
(* end of inputCh keep their types; inputCh never exceeds its capacity.    *)
THEOREM TypeCorrect == Spec => []TypeOK
<1>1. InputInv => TypeOK
  BY DEF InputInv
<1> QED
  BY <1>1, InputInvariant, PTL

(* The loop sees what is typed in the order of typing and none twice; what *)
(* it never sees is in the channel of a helper that was given up.          *)
THEOREM InputCorrect == Spec => []InputAccounted
<1>1. InputInv => InputAccounted
  <2> SUFFICES ASSUME InputInv
               PROVE  InputAccounted
    OBVIOUS
  <2>1. ShapeOK /\ Accounted(OnTheWay, Swallowed, typed) /\ tty \in Seq(Byte)
    BY Shapes DEF InputInv, TypeOK
  <2>2. OnTheWay \in Seq(Byte)
    BY <2>1, ConcatProperties DEF ShapeOK
  <2>3. ASSUME NEW i \in 1 .. Len(OnTheWay) - 1
        PROVE  OnTheWay[i].n < OnTheWay[i + 1].n
    <3>1. i \in 1 .. Len(OnTheWay) /\ i + 1 \in 1 .. Len(OnTheWay) /\ i < i + 1
      BY <2>2
    <3> QED
      BY <2>1, <3>1 DEF Accounted, Rising
  <2>4. Nums(ToSet(OnTheWay)) = (1 .. typed) \ Nums(Swallowed)
    BY <2>1 DEF Accounted
  <2> QED
    BY <2>3, <2>4 DEF InputAccounted, Nums
<1> QED
  BY <1>1, InputInvariant, PTL
=============================================================================
