--------------------------- MODULE TuiRows_proofs ---------------------------
(***************************************************************************)
(* Proofs about TuiRows, for any keys and any limits of the table and of   *)
(* the list of alerts.                                                     *)
(*                                                                         *)
(* The argument: the stream announces a key only when it is closed, so the *)
(* open keys that got a row are all different, and the key of an event     *)
(* picks one of them.  Without -keep the table is the end of that list,    *)
(* position by position; the row an EventConnectionClosed finds by its key *)
(* is therefore the row of that connection, and a close that finds none    *)
(* takes away a key in front of the table.  The alerts are counted from    *)
(* the end of their list: newer[k] is the distance of the last alert of k. *)
(***************************************************************************)
EXTENDS TuiRows, Lists_proofs

FeedOK == balance \in [Key -> {0, 1}]

ArrivalsOpen ==
  /\ \A i \in 1 .. Len(arrivals) : balance[arrivals[i]] = 1
  /\ \A i, j \in 1 .. Len(arrivals) : arrivals[i] = arrivals[j] => i = j

(* How many of the arrivals are in front of the table.                     *)
Dropped == Len(arrivals) - Len(connections)

RowsAligned ==
  ~keep =>
    /\ Len(connections) <= Len(arrivals)
    /\ \A i \in 1 .. Len(connections) : connections[i].key = arrivals[Dropped + i]

(* newer[k] leads from the end of the list to the last alert of k.         *)
MarksOK ==
  \A k \in Key :
    /\ newer[k] < MaxAlerts =>
         newer[k] < Len(alerts) /\ alerts[Len(alerts) - newer[k]] = k
    /\ \A i \in 1 .. Len(alerts) : alerts[i] = k => newer[k] <= Len(alerts) - i

RowsInv == TypeOK /\ FeedOK /\ ArrivalsOpen /\ RowsAligned

-----------------------------------------------------------------------------
(* What is kept of a list are its last elements.                           *)
LEMMA NewestFacts ==
  ASSUME NEW S, NEW s \in Seq(S), NEW n \in Nat \ {0}
  PROVE  /\ Newest(s, n) \in Seq(S)
         /\ Len(Newest(s, n)) = IF Len(s) > n THEN n ELSE Len(s)
         /\ \A i \in 1 .. Len(Newest(s, n)) : Newest(s, n)[i] = s[Len(s) - Len(Newest(s, n)) + i]
<1>1. CASE Len(s) > n
  <2>1. Newest(s, n) = SubSeq(s, Len(s) - n + 1, Len(s))
    BY <1>1 DEF Newest
  <2>2. /\ SubSeq(s, Len(s) - n + 1, Len(s)) \in Seq(S)
        /\ Len(SubSeq(s, Len(s) - n + 1, Len(s))) = n
        /\ \A i \in 1 .. n : SubSeq(s, Len(s) - n + 1, Len(s))[i] = s[Len(s) - n + i]
    BY <1>1
  <2> QED
    BY <1>1, <2>1, <2>2
<1>2. CASE ~(Len(s) > n)
  BY <1>2 DEF Newest
<1> QED
  BY <1>1, <1>2

(* What CloseRow finds: the first row with the key, and that alone changes.*)
LEMMA CloseRowFacts ==
  ASSUME NEW k \in Key, connections \in Seq(Row), CloseRow(k), keep \in BOOLEAN
  PROVE  \/ /\ \A i \in 1 .. Len(connections) : connections[i].key # k
            /\ UNCHANGED connections
         \/ \E i \in 1 .. Len(connections) :
              /\ connections[i].key = k
              /\ keep => connections' = [connections EXCEPT ![i].state = "close"]
              /\ ~keep => connections' = RemoveAt(connections, i)
<1> DEFINE I == {j \in 1 .. Len(connections) : connections[j].key = k}
           f == IF I # {} THEN Min(I) ELSE 0
<1>1. connections' = IF f = 0 THEN connections
                     ELSE IF keep THEN [connections EXCEPT ![f].state = "close"]
                     ELSE RemoveAt(connections, f)
  BY DEF CloseRow, SelectInSeq
<1>2. Len(connections) \in Nat /\ I \subseteq 1 .. Len(connections)
  OBVIOUS
<1>3. f \in 0 .. Len(connections) /\ (f = 0 <=> I = {}) /\ (f # 0 => f \in I)
  <2> HIDE DEF I
  <2> QED
    BY <1>2, FirstOf
<1> HIDE DEF f
<1> QED
  BY <1>1, <1>3

(* Marking a row keeps the length of the table, the keys and the rows that *)
(* are not marked.                                                         *)
LEMMA MarkFacts ==
  ASSUME NEW rows \in Seq(Row), NEW i \in 1 .. Len(rows),
         NEW marked, marked = [rows EXCEPT ![i].state = "close"]
  PROVE  /\ marked \in Seq(Row) /\ Len(marked) = Len(rows)
         /\ \A j \in 1 .. Len(rows) : j # i => marked[j] = rows[j]
         /\ marked[i].key = rows[i].key
<1>1. rows[i] \in Row
  OBVIOUS
<1>2. /\ [rows[i] EXCEPT !.state = "close"] \in Row
      /\ [rows[i] EXCEPT !.state = "close"].key = rows[i].key
  BY <1>1 DEF Row, RowStates
<1>3. marked = [rows EXCEPT ![i] = [rows[i] EXCEPT !.state = "close"]]
  OBVIOUS
<1> QED
  BY <1>2, <1>3

-----------------------------------------------------------------------------
LEMMA RowsInit == Init => RowsInv
<1> SUFFICES ASSUME Init
             PROVE  RowsInv
  OBVIOUS
<1>1. TypeOK
  <2>1. connections \in Seq(Row) /\ Len(connections) = 0
    BY DEF Init
  <2>2. alerts \in Seq(Key) /\ Len(alerts) = 0 /\ arrivals \in Seq(Key)
    BY DEF Init
  <2>3. newer \in [Key -> 0 .. MaxAlerts]
    BY TableAssumption DEF Init
  <2> QED
    BY <2>1, <2>2, <2>3, TableAssumption DEF Init, TypeOK
<1>2. FeedOK /\ ArrivalsOpen /\ RowsAligned
  BY DEF Init, FeedInit, FeedOK, ArrivalsOpen, RowsAligned
<1> QED
  BY <1>1, <1>2 DEF RowsInv

(* After the alerts of an event the list is the end of the old one and the *)
(* new alerts, which it keeps first.                                       *)
LEMMA AlertsStep ==
  ASSUME alerts \in Seq(Key), Len(alerts) <= MaxAlerts,
         NEW k \in Key, NEW n \in Nat, AppendAlerts(n, k)
  PROVE  /\ alerts' \in Seq(Key)
         /\ Len(alerts') = IF Len(alerts) + n > MaxAlerts THEN MaxAlerts ELSE Len(alerts) + n
         /\ \A i \in 1 .. Len(alerts') :
              LET p == Len(alerts) + n - Len(alerts') + i
              IN IF p > Len(alerts) THEN alerts'[i] = k ELSE alerts'[i] = alerts[p]
<1> DEFINE new == Times(n, k)
           all == alerts \o new
<1>0. new \in Seq(Key) /\ Len(new) = n /\ \A i \in 1 .. n : new[i] = k
  BY DEF Times
<1>len. Len(alerts) \in Nat /\ MaxAlerts \in Nat \ {0}
  BY TableAssumption
<1>1. alerts' = Newest(all, MaxAlerts)
  BY DEF AppendAlerts
<1> HIDE DEF new
<1>2. /\ all \in Seq(Key) /\ Len(all) = Len(alerts) + n
      /\ \A i \in 1 .. Len(alerts) : all[i] = alerts[i]
      /\ \A i \in 1 .. n : all[Len(alerts) + i] = k
  <2>1. /\ alerts \o new \in Seq(Key) /\ Len(alerts \o new) = Len(alerts) + Len(new)
        /\ \A i \in 1 .. Len(alerts) : (alerts \o new)[i] = alerts[i]
        /\ \A i \in 1 .. Len(new) : (alerts \o new)[Len(alerts) + i] = new[i]
    <3>1. alerts \in Seq(Key) /\ new \in Seq(Key)
      BY <1>0
    <3> QED
      BY ONLY <3>1, ConcatFacts
  <2>2. /\ all \in Seq(Key) /\ Len(all) = Len(alerts) + Len(new)
        /\ \A i \in 1 .. Len(alerts) : all[i] = alerts[i]
        /\ \A i \in 1 .. Len(new) : all[Len(alerts) + i] = new[i]
    BY <2>1, Zenon
  <2> HIDE DEF all
  <2> QED
    BY <1>0, <2>2
<1> HIDE DEF all
<1>3. /\ alerts' \in Seq(Key)
      /\ Len(alerts') = IF Len(all) > MaxAlerts THEN MaxAlerts ELSE Len(all)
      /\ \A i \in 1 .. Len(alerts') : alerts'[i] = all[Len(all) - Len(alerts') + i]
  BY ONLY <1>1, <1>2, <1>len, NewestFacts
<1>4. ASSUME NEW i \in 1 .. Len(alerts'), NEW p, p = Len(alerts) + n - Len(alerts') + i
      PROVE  IF p > Len(alerts) THEN alerts'[i] = k ELSE alerts'[i] = alerts[p]
  <2>1. alerts'[i] = all[p]
    <3>1. p = Len(all) - Len(alerts') + i
      BY <1>2, <1>4
    <3>2. alerts'[i] = all[Len(all) - Len(alerts') + i]
      BY <1>3
    <3> QED
      BY ONLY <3>1, <3>2
  <2>4. Len(alerts') \in Nat /\ Len(alerts') <= Len(alerts) + n
    <3>1. Len(all) = Len(alerts) + n /\ Len(alerts') = IF Len(all) > MaxAlerts THEN MaxAlerts ELSE Len(all)
      BY <1>2, <1>3
    <3>2. n \in Nat
      OBVIOUS
    <3> QED
      BY ONLY <1>len, <3>1, <3>2
  <2>5. p \in 1 .. Len(alerts) + n
    BY <1>4, <1>len, <2>4
  <2>2. CASE p > Len(alerts)
    <3>1. p - Len(alerts) \in 1 .. n /\ Len(alerts) + (p - Len(alerts)) = p
      BY <1>len, <2>2, <2>5
    <3> QED
      BY <1>2, <2>1, <2>2, <3>1
  <2>3. CASE ~(p > Len(alerts))
    BY <1>2, <1>len, <2>1, <2>3, <2>5
  <2> QED
    BY <2>2, <2>3
<1> QED
  BY <1>2, <1>3, <1>4

(* The ages of the alerts stay within their bound.                         *)
LEMMA AgedType ==
  ASSUME newer \in [Key -> 0 .. MaxAlerts], NEW n \in Nat, NEW k
  PROVE  Aged(n, k) \in [Key -> 0 .. MaxAlerts]
<1>1. ASSUME NEW j \in Key
      PROVE  Aged(n, k)[j] \in 0 .. MaxAlerts
  BY TableAssumption DEF Aged
<1> QED
  BY <1>1 DEF Aged

(* A new row goes to the end of the table, and one row at most leaves it:  *)
(* the oldest, when the table is full.                                     *)
LEMMA NewRow ==
  ASSUME connections \in Seq(Row), Len(connections) <= MaxConns, NEW r \in Row,
         connections' = Newest(Append(connections, r), MaxConns)
  PROVE  /\ connections' \in Seq(Row)
         /\ Len(connections') =
              IF Len(connections) = MaxConns THEN MaxConns ELSE Len(connections) + 1
         /\ connections'[Len(connections')] = r
         /\ \A i \in 1 .. Len(connections') - 1 :
              connections'[i] = connections[Len(connections) + 1 - Len(connections') + i]
<1> DEFINE all == Append(connections, r)
<1>1. /\ all \in Seq(Row) /\ Len(all) = Len(connections) + 1
      /\ \A i \in 1 .. Len(connections) : all[i] = connections[i]
      /\ all[Len(connections) + 1] = r
  BY AppendFacts
<1>2. connections' = Newest(all, MaxConns)
  OBVIOUS
<1>3. Len(connections) \in Nat /\ MaxConns \in Nat \ {0} /\ Len(connections) <= MaxConns
  BY TableAssumption
<1> HIDE DEF all
<1>4. /\ connections' \in Seq(Row)
      /\ Len(connections') = IF Len(all) > MaxConns THEN MaxConns ELSE Len(all)
      /\ \A i \in 1 .. Len(connections') : connections'[i] = all[Len(all) - Len(connections') + i]
  BY ONLY <1>1, <1>2, <1>3, NewestFacts
<1>5. Len(connections') = IF Len(connections) = MaxConns THEN MaxConns ELSE Len(connections) + 1
  BY <1>1, <1>3, <1>4
<1>6. connections'[Len(connections')] = r
  <2> DEFINE n == Len(connections')
  <2>1. n \in 1 .. n /\ Len(all) - n + n = Len(connections) + 1
    BY <1>1, <1>3, <1>5
  <2>2. connections'[n] = all[Len(all) - n + n]
    BY <1>4, <2>1
  <2> HIDE DEF n
  <2>3. connections'[n] = r
    BY <1>1, <2>1, <2>2
  <2> QED
    BY <2>3 DEF n
<1>7. ASSUME NEW i \in 1 .. Len(connections') - 1
      PROVE  connections'[i] = connections[Len(connections) + 1 - Len(connections') + i]
  <2>1. /\ i \in 1 .. Len(connections')
        /\ Len(all) - Len(connections') + i \in 1 .. Len(connections)
    BY <1>1, <1>3, <1>5, <1>7
  <2> QED
    BY <1>1, <1>4, <2>1
<1> QED
  BY <1>4, <1>5, <1>6, <1>7

(* The arrivals stay the open keys with a row, each of them once.          *)
LEMMA ArrivalsNew ==
  ASSUME RowsInv, NEW k \in Key, Announce(k),
         arrivals' = arrivals \/ arrivals' = Append(arrivals, k)
  PROVE  FeedOK' /\ ArrivalsOpen' /\ arrivals' \in Seq(Key)
<1>1. /\ balance \in [Key -> {0, 1}] /\ balance[k] = 0
      /\ balance' = [balance EXCEPT ![k] = 1]
      /\ arrivals \in Seq(Key) /\ Len(arrivals) \in Nat
  BY DEF RowsInv, TypeOK, FeedOK, Announce
<1>2. /\ \A i \in 1 .. Len(arrivals) : arrivals[i] # k /\ balance'[arrivals[i]] = 1
      /\ \A i, j \in 1 .. Len(arrivals) : arrivals[i] = arrivals[j] => i = j
  BY <1>1 DEF RowsInv, ArrivalsOpen
<1>3. FeedOK' /\ balance'[k] = 1
  BY <1>1 DEF FeedOK
<1>4. CASE arrivals' = arrivals
  BY <1>1, <1>2, <1>3, <1>4 DEF ArrivalsOpen
<1>5. CASE arrivals' = Append(arrivals, k)
  <2>1. /\ arrivals' \in Seq(Key) /\ Len(arrivals') = Len(arrivals) + 1
        /\ \A i \in 1 .. Len(arrivals) : arrivals'[i] = arrivals[i]
        /\ arrivals'[Len(arrivals) + 1] = k
    BY <1>1, <1>5, AppendFacts
  <2>2. \A i \in 1 .. Len(arrivals') : i \in 1 .. Len(arrivals) \/ i = Len(arrivals) + 1
    BY <1>1, <2>1
  <2>3. \A i \in 1 .. Len(arrivals') : balance'[arrivals'[i]] = 1
    BY <1>2, <1>3, <2>1, <2>2
  <2>4. \A i, j \in 1 .. Len(arrivals') : arrivals'[i] = arrivals'[j] => i = j
    BY <1>2, <2>1, <2>2
  <2> QED
    BY <1>3, <2>1, <2>3, <2>4 DEF ArrivalsOpen
<1> QED
  BY <1>4, <1>5

(* A close takes its key out of the arrivals, from the one place where it  *)
(* is, if it is there.                                                     *)
LEMMA ArrivalsClosed ==
  ASSUME RowsInv, NEW k \in Key, Retire(k), arrivals' = RemoveFirst(arrivals, k)
  PROVE  /\ FeedOK' /\ ArrivalsOpen' /\ arrivals' \in Seq(Key)
         /\ \/ /\ \A i \in 1 .. Len(arrivals) : arrivals[i] # k
               /\ arrivals' = arrivals
            \/ \E p \in 1 .. Len(arrivals) :
                 /\ arrivals[p] = k
                 /\ Len(arrivals') = Len(arrivals) - 1
                 /\ \A i \in 1 .. p - 1 : arrivals'[i] = arrivals[i]
                 /\ \A i \in p .. Len(arrivals) - 1 : arrivals'[i] = arrivals[i + 1]
<1>1. /\ balance \in [Key -> {0, 1}] /\ balance' = [balance EXCEPT ![k] = 0]
      /\ arrivals \in Seq(Key) /\ Len(arrivals) \in Nat
      /\ \A i \in 1 .. Len(arrivals) : arrivals[i] \in Key /\ balance[arrivals[i]] = 1
      /\ \A i, j \in 1 .. Len(arrivals) : arrivals[i] = arrivals[j] => i = j
  BY DEF RowsInv, TypeOK, FeedOK, ArrivalsOpen, Retire
<1>2. FeedOK' /\ \A x \in Key : x # k => balance'[x] = balance[x]
  BY <1>1 DEF FeedOK
<1>3. /\ (\A i \in 1 .. Len(arrivals) : arrivals[i] # k) => RemoveFirst(arrivals, k) = arrivals
      /\ \A i \in 1 .. Len(arrivals) : arrivals[i] = k => RemoveFirst(arrivals, k) = RemoveAt(arrivals, i)
  BY ONLY <1>1, RemoveFirstFacts
<1>4. CASE \A i \in 1 .. Len(arrivals) : arrivals[i] # k
  <2>1. arrivals' = arrivals
    BY <1>3, <1>4
  <2> QED
    BY <1>1, <1>2, <1>4, <2>1 DEF ArrivalsOpen
<1>5. CASE \E p \in 1 .. Len(arrivals) : arrivals[p] = k
  <2>1. PICK p \in 1 .. Len(arrivals) : arrivals[p] = k
    BY <1>5
  <2>2. arrivals' = RemoveAt(arrivals, p)
    BY <1>3, <2>1
  <2>3. /\ arrivals' \in Seq(Key) /\ Len(arrivals') = Len(arrivals) - 1
        /\ \A i \in 1 .. p - 1 : arrivals'[i] = arrivals[i]
        /\ \A i \in p .. Len(arrivals) - 1 : arrivals'[i] = arrivals[i + 1]
    BY ONLY <1>1, <2>2, RemoveAtFacts
  <2> DEFINE from(i) == IF i < p THEN i ELSE i + 1
  <2>4. \A i \in 1 .. Len(arrivals') : from(i) \in 1 .. Len(arrivals) /\ from(i) # p /\ arrivals'[i] = arrivals[from(i)]
    BY <1>1, <2>3
  <2>5. \A i, j \in 1 .. Len(arrivals') : from(i) = from(j) => i = j
    BY <1>1, <2>3
  <2> HIDE DEF from
  <2>6. \A i \in 1 .. Len(arrivals') : balance'[arrivals'[i]] = 1
    BY <1>1, <1>2, <2>1, <2>4
  <2>7. \A i, j \in 1 .. Len(arrivals') : arrivals'[i] = arrivals'[j] => i = j
    BY <1>1, <2>4, <2>5
  <2>8. ArrivalsOpen'
    BY <2>6, <2>7 DEF ArrivalsOpen
  <2> QED
    BY <1>2, <2>1, <2>3, <2>8
<1> QED
  BY <1>4, <1>5

LEMMA RowsStep == RowsInv /\ [Next]_vars => RowsInv'
<1> SUFFICES ASSUME RowsInv, [Next]_vars
             PROVE  RowsInv'
  OBVIOUS
<1>ty. /\ connections \in Seq(Row) /\ Len(connections) \in Nat /\ Len(connections) <= MaxConns
       /\ alerts \in Seq(Key) /\ Len(alerts) <= MaxAlerts
       /\ keep \in BOOLEAN /\ showTimeWait \in BOOLEAN
       /\ arrivals \in Seq(Key) /\ Len(arrivals) \in Nat
       /\ newer \in [Key -> 0 .. MaxAlerts]
       /\ MaxConns \in Nat \ {0} /\ MaxAlerts \in Nat \ {0}
  BY TableAssumption DEF RowsInv, TypeOK
<1>1. ASSUME NEW k \in Key, NEW state \in {"open", "timewait"}, NEW n \in 0 .. EventAlerts,
             HandleNew(k, state, n)
      PROVE  RowsInv'
  <2>1. Announce(k) /\ UNCHANGED <<keep, showTimeWait>>
    BY <1>1 DEF HandleNew
  <2>2. CASE UNCHANGED <<connections, alerts, arrivals, newer>>
    <3>1. FeedOK' /\ ArrivalsOpen'
      BY <2>1, <2>2, ArrivalsNew
    <3> QED
      BY <2>1, <2>2, <3>1 DEF RowsInv, TypeOK, RowsAligned, Dropped
  <2>3. CASE ~ UNCHANGED <<connections, alerts, arrivals, newer>>
    <3> DEFINE r == [key |-> k, state |-> state]
    <3>1. /\ connections' = Newest(Append(connections, r), MaxConns)
          /\ AppendAlerts(n, k) /\ arrivals' = Append(arrivals, k) /\ newer' = Aged(n, k)
      BY <1>1, <2>3 DEF HandleNew
    <3>2. r \in Row /\ r.key = k /\ n \in Nat
      BY TableAssumption DEF Row, RowStates
    <3> HIDE DEF r
    <3>3. FeedOK' /\ ArrivalsOpen' /\ arrivals' \in Seq(Key)
      BY <2>1, <3>1, ArrivalsNew
    <3>4. /\ alerts' \in Seq(Key) /\ Len(alerts') <= MaxAlerts
          /\ newer' \in [Key -> 0 .. MaxAlerts]
      <4>1. alerts' \in Seq(Key) /\ Len(alerts') = IF Len(alerts) + n > MaxAlerts THEN MaxAlerts ELSE Len(alerts) + n
        BY ONLY <1>1, <1>ty, <3>1, <3>2, AlertsStep
      <4>2. Len(alerts') <= MaxAlerts
        BY <1>ty, <3>2, <4>1
      <4> QED
        BY <1>ty, <3>1, <3>2, <4>1, <4>2, AgedType
    <3>5. /\ connections' \in Seq(Row)
          /\ Len(connections') = IF Len(connections) = MaxConns THEN MaxConns ELSE Len(connections) + 1
          /\ connections'[Len(connections')] = r
          /\ \A i \in 1 .. Len(connections') - 1 :
               connections'[i] = connections[Len(connections) + 1 - Len(connections') + i]
      BY ONLY <1>ty, <3>1, <3>2, NewRow
    <3>6. /\ Len(arrivals') = Len(arrivals) + 1
          /\ \A i \in 1 .. Len(arrivals) : arrivals'[i] = arrivals[i]
          /\ arrivals'[Len(arrivals) + 1] = k
      BY ONLY <1>1, <1>ty, <3>1, AppendFacts
    <3>7. TypeOK'
      BY <1>ty, <2>1, <3>3, <3>4, <3>5 DEF TypeOK
    <3>8. ASSUME ~keep
          PROVE  /\ Len(connections') <= Len(arrivals')
                 /\ \A i \in 1 .. Len(connections') : connections'[i].key = arrivals'[Dropped' + i]
      <4>1. /\ Len(connections) <= Len(arrivals)
            /\ \A i \in 1 .. Len(connections) : connections[i].key = arrivals[Len(arrivals) - Len(connections) + i]
        BY <3>8 DEF RowsInv, RowsAligned, Dropped
      <4>2. Dropped' = Len(arrivals) + 1 - Len(connections')
        BY <3>6 DEF Dropped
      <4>3. ASSUME NEW i \in 1 .. Len(connections')
            PROVE  connections'[i].key = arrivals'[Dropped' + i]
        <5>1. CASE i = Len(connections')
          BY <1>ty, <3>2, <3>5, <3>6, <4>2, <5>1
        <5>2. CASE i # Len(connections')
          <6> DEFINE o == Len(connections) + 1 - Len(connections') + i
          <6>1. /\ i \in 1 .. Len(connections') - 1
                /\ o \in 1 .. Len(connections)
                /\ Len(arrivals) - Len(connections) + o = Dropped' + i
                /\ Dropped' + i \in 1 .. Len(arrivals)
            <7>1. /\ Len(connections) \in Nat /\ Len(arrivals) \in Nat /\ Len(connections') \in Nat
                  /\ Len(connections) <= Len(arrivals)
                  /\ i \in 1 .. Len(connections') /\ i # Len(connections')
                  /\ Len(connections') = Len(connections) \/ Len(connections') = Len(connections) + 1
              BY <1>ty, <3>5, <4>1, <5>2
            <7> QED
              BY ONLY <4>2, <7>1
          <6>2. connections'[i] = connections[o]
            BY <3>5, <6>1
          <6> HIDE DEF o
          <6> QED
            BY <3>6, <4>1, <6>1, <6>2
        <5> QED
          BY <5>1, <5>2
      <4> QED
        BY <1>ty, <3>5, <3>6, <4>1, <4>3
    <3> QED
      BY <2>1, <3>3, <3>7, <3>8 DEF RowsInv, RowsAligned
  <2> QED
    BY <2>2, <2>3
<1>2. ASSUME NEW k \in Key, HandleClosed(k)
      PROVE  RowsInv'
  <2>1. /\ Retire(k) /\ CloseRow(k) /\ AppendAlerts(0, k)
        /\ arrivals' = RemoveFirst(arrivals, k) /\ UNCHANGED <<keep, showTimeWait, newer>>
    BY <1>2 DEF HandleClosed
  <2>2. alerts' \in Seq(Key) /\ Len(alerts') <= MaxAlerts
    <3>1. alerts' \in Seq(Key) /\ Len(alerts') = IF Len(alerts) + 0 > MaxAlerts THEN MaxAlerts ELSE Len(alerts) + 0
      <4>1. 0 \in Nat
        OBVIOUS
      <4> QED
        BY ONLY <1>2, <1>ty, <2>1, <4>1, AlertsStep
    <3> QED
      BY <1>ty, <3>1
  <2>3. /\ FeedOK' /\ ArrivalsOpen' /\ arrivals' \in Seq(Key)
        /\ \/ /\ \A i \in 1 .. Len(arrivals) : arrivals[i] # k
              /\ arrivals' = arrivals
           \/ \E p \in 1 .. Len(arrivals) :
                /\ arrivals[p] = k
                /\ Len(arrivals') = Len(arrivals) - 1
                /\ \A i \in 1 .. p - 1 : arrivals'[i] = arrivals[i]
                /\ \A i \in p .. Len(arrivals) - 1 : arrivals'[i] = arrivals[i + 1]
    BY <2>1, ArrivalsClosed
  <2>4. \/ /\ \A i \in 1 .. Len(connections) : connections[i].key # k
           /\ UNCHANGED connections
        \/ \E i \in 1 .. Len(connections) :
             /\ connections[i].key = k
             /\ keep => connections' = [connections EXCEPT ![i].state = "close"]
             /\ ~keep => connections' = RemoveAt(connections, i)
    BY ONLY <1>2, <1>ty, <2>1, CloseRowFacts
  <2>5. CASE keep
    <3>1. connections' \in Seq(Row) /\ Len(connections') <= MaxConns
      BY <1>ty, <2>4, <2>5, MarkFacts
    <3> QED
      BY <1>ty, <2>1, <2>2, <2>3, <2>5, <3>1 DEF RowsInv, TypeOK, RowsAligned
  <2>6. CASE ~keep
    <3>1. /\ Len(connections) <= Len(arrivals)
          /\ \A i \in 1 .. Len(connections) : connections[i].key = arrivals[Len(arrivals) - Len(connections) + i]
      BY <2>6 DEF RowsInv, RowsAligned, Dropped
    <3>2. \A i, j \in 1 .. Len(arrivals) : arrivals[i] = arrivals[j] => i = j
      BY DEF RowsInv, ArrivalsOpen
    <3> SUFFICES /\ connections' \in Seq(Row) /\ Len(connections') <= MaxConns
                 /\ Len(connections') <= Len(arrivals')
                 /\ \A i \in 1 .. Len(connections') :
                      connections'[i].key = arrivals'[Len(arrivals') - Len(connections') + i]
      BY <1>ty, <2>1, <2>2, <2>3 DEF RowsInv, TypeOK, RowsAligned, Dropped
    <3>3. CASE \E i \in 1 .. Len(connections) : connections[i].key = k
      <4>1. PICK i \in 1 .. Len(connections) : connections[i].key = k /\ connections' = RemoveAt(connections, i)
        BY <2>4, <2>6, <3>3
      <4>2. /\ connections' \in Seq(Row) /\ Len(connections') = Len(connections) - 1
            /\ \A j \in 1 .. i - 1 : connections'[j] = connections[j]
            /\ \A j \in i .. Len(connections) - 1 : connections'[j] = connections[j + 1]
        BY ONLY <1>ty, <4>1, RemoveAtFacts
      <4> DEFINE d == Len(arrivals) - Len(connections)
      <4>3. d \in Nat /\ d + i \in 1 .. Len(arrivals) /\ arrivals[d + i] = k
        BY <1>ty, <3>1, <4>1
      <4>4. /\ Len(arrivals') = Len(arrivals) - 1
            /\ \A j \in 1 .. d + i - 1 : arrivals'[j] = arrivals[j]
            /\ \A j \in d + i .. Len(arrivals) - 1 : arrivals'[j] = arrivals[j + 1]
        BY <2>3, <3>2, <4>3
      <4>5. Len(arrivals') - Len(connections') = d
        BY <1>ty, <4>2, <4>4
      <4>6. ASSUME NEW j \in 1 .. Len(connections')
            PROVE  connections'[j].key = arrivals'[d + j]
        <5>1. CASE j < i
          <6>1. j \in 1 .. i - 1 /\ j \in 1 .. Len(connections) /\ d + j \in 1 .. d + i - 1
            <7>1. /\ Len(connections) \in Nat /\ Len(connections') = Len(connections) - 1
                  /\ d \in Nat /\ i \in 1 .. Len(connections) /\ j \in 1 .. Len(connections')
              BY <1>ty, <4>1, <4>2, <4>3
            <7> HIDE DEF d
            <7> QED
              BY ONLY <5>1, <7>1
          <6> QED
            BY <3>1, <4>2, <4>4, <6>1
        <5>2. CASE ~(j < i)
          <6>1. /\ j \in i .. Len(connections) - 1 /\ j + 1 \in 1 .. Len(connections)
                /\ d + j \in d + i .. Len(arrivals) - 1 /\ d + (j + 1) = (d + j) + 1
            BY <1>ty, <4>2, <4>3, <5>2
          <6>2. connections'[j] = connections[j + 1] /\ arrivals'[d + j] = arrivals[(d + j) + 1]
            BY <4>2, <4>4, <6>1
          <6>3. connections[j + 1].key = arrivals[d + (j + 1)]
            BY <3>1, <6>1
          <6> QED
            BY <6>1, <6>2, <6>3
        <5> QED
          BY <5>1, <5>2
      <4> HIDE DEF d
      <4>7. Len(connections') <= MaxConns /\ Len(connections') <= Len(arrivals')
        BY <1>ty, <3>1, <4>2, <4>4
      <4> QED
        BY <4>2, <4>5, <4>6, <4>7
    <3>4. CASE ~ \E i \in 1 .. Len(connections) : connections[i].key = k
      <4>1. connections' = connections
        BY <2>4, <3>4
      <4>2. CASE arrivals' = arrivals
        BY <1>ty, <3>1, <4>1, <4>2
      <4>3. CASE arrivals' # arrivals
        <5>1. PICK p \in 1 .. Len(arrivals) :
                /\ arrivals[p] = k
                /\ Len(arrivals') = Len(arrivals) - 1
                /\ \A i \in p .. Len(arrivals) - 1 : arrivals'[i] = arrivals[i + 1]
          BY <2>3, <4>3
        <5> DEFINE d == Len(arrivals) - Len(connections)
        <5>2. d \in Nat /\ p <= d
          <6> SUFFICES ASSUME p > d
                       PROVE  FALSE
            BY <1>ty, <3>1
          <6>1. p - d \in 1 .. Len(connections) /\ d + (p - d) = p
            BY <1>ty, <3>1
          <6> QED
            BY <3>1, <3>4, <5>1, <6>1
        <5>3. ASSUME NEW j \in 1 .. Len(connections)
              PROVE  connections[j].key = arrivals'[(d - 1) + j]
          <6>1. (d - 1) + j \in p .. Len(arrivals) - 1 /\ ((d - 1) + j) + 1 = d + j
            BY <1>ty, <5>2
          <6> QED
            BY <3>1, <5>1, <6>1
        <5> QED
          BY <1>ty, <4>1, <5>1, <5>2, <5>3
      <4> QED
        BY <4>2, <4>3
    <3> QED
      BY <3>3, <3>4
  <2> QED
    BY <2>5, <2>6
<1>3. CASE ToggleTimeWait
  BY <1>3 DEF ToggleTimeWait, feedVars, RowsInv, TypeOK, FeedOK, ArrivalsOpen, RowsAligned, Dropped
<1>4. CASE StopFeed \/ UNCHANGED vars
  BY <1>4 DEF StopFeed, Stop, vars, rowVars, feedVars, RowsInv, TypeOK, FeedOK, ArrivalsOpen, RowsAligned, Dropped
<1> QED
  BY <1>1, <1>2, <1>3, <1>4 DEF Next

LEMMA RowsInvariant == Spec => []RowsInv
BY RowsInit, RowsStep, PTL DEF Spec

(* Every variable of the table keeps its type, and the rows and the alerts *)
(* stay within their limits.                                               *)
THEOREM TypeCorrect == Spec => []TypeOK
BY RowsInvariant, PTL DEF RowsInv

(* Without -keep the table is, in every reachable state, the newest of the *)
(* open connections that got a row, whatever the limit of the table.       *)
THEOREM RowsCorrect == Spec => []RowsAreNewestOpen
<1>1. RowsInv => RowsAreNewestOpen
  <2> SUFFICES ASSUME RowsInv, ~keep
               PROVE  IsSuffix(KeyList(connections), arrivals)
    BY DEF RowsAreNewestOpen
  <2> DEFINE keys == KeyList(connections)
  <2>1. /\ connections \in Seq(Row) /\ arrivals \in Seq(Key)
        /\ Len(connections) <= Len(arrivals)
        /\ \A i \in 1 .. Len(connections) : connections[i].key = arrivals[Len(arrivals) - Len(connections) + i]
    BY DEF RowsInv, TypeOK, RowsAligned, Dropped
  <2>2. /\ keys \in Seq(Key) /\ Len(keys) = Len(connections)
        /\ \A i \in 1 .. Len(connections) : keys[i] = connections[i].key
    <3>1. keys = [i \in 1 .. Len(connections) |-> connections[i].key]
      BY <2>1 DEF KeyList
    <3>2. \A i \in 1 .. Len(connections) : connections[i].key \in Key
      BY <2>1 DEF Row
    <3> HIDE DEF keys
    <3> QED
      BY <2>1, <3>1, <3>2
  <2> HIDE DEF keys
  <2>3. IsSuffix(keys, arrivals)
    BY <2>1, <2>2, SuffixFacts
  <2> QED
    BY <2>3 DEF keys
<1> QED
  BY <1>1, RowsInvariant, PTL

(* Where an open row is.                                                   *)
LEMMA OpenRowsFacts ==
  ASSUME connections \in Seq(Row)
  PROVE  \A k : k \in OpenRows <=>
           \E i \in 1 .. Len(connections) : connections[i].key = k /\ connections[i].state # "close"
BY DEF OpenRows

(* A connection that is still open loses its last open row only to a newer *)
(* row in a full table, with -keep and without, in every step.             *)
THEOREM RowsLostCorrect == Spec => RowsLostOnlyWhenFull
<1> DEFINE Kept ==
      \A k \in OpenRows \ OpenRows' :
        \/ balance'[k] = 0
        \/ Len(connections) = MaxConns /\ \E j \in Key \ {k} : balance'[j] > balance[j]
<1>1. RowsInv /\ RowsInv' /\ [Next]_vars => [Kept]_vars
  <2> SUFFICES ASSUME RowsInv, RowsInv', Next, NEW x \in OpenRows \ OpenRows', balance'[x] # 0
               PROVE  Len(connections) = MaxConns /\ \E j \in Key \ {x} : balance'[j] > balance[j]
    OBVIOUS
  <2>ty. /\ connections \in Seq(Row) /\ Len(connections) \in Nat /\ Len(connections) <= MaxConns
         /\ keep \in BOOLEAN /\ balance \in [Key -> {0, 1}] /\ MaxConns \in Nat \ {0}
    BY TableAssumption DEF RowsInv, TypeOK, FeedOK
  <2>new. connections' \in Seq(Row)
    BY DEF RowsInv, TypeOK
  <2>1. PICK i \in 1 .. Len(connections) : connections[i].key = x /\ connections[i].state # "close"
    BY <2>ty, OpenRowsFacts
  <2>2. \A j \in 1 .. Len(connections') : ~(connections'[j].key = x /\ connections'[j].state # "close")
    <3>1. x \in OpenRows' <=> \E j \in 1 .. Len(connections') : connections'[j].key = x /\ connections'[j].state # "close"
      BY <2>new DEF OpenRows
    <3> QED
      BY <3>1
  <2>3. connections' # connections
    BY <2>1, <2>2
  <2>4. ASSUME NEW k \in Key, NEW state \in {"open", "timewait"}, NEW n \in 0 .. EventAlerts,
               HandleNew(k, state, n)
        PROVE  Len(connections) = MaxConns /\ \E j \in Key \ {x} : balance'[j] > balance[j]
    <3> DEFINE r == [key |-> k, state |-> state]
    <3>1. /\ connections' = Newest(Append(connections, r), MaxConns)
          /\ balance[k] = 0 /\ balance' = [balance EXCEPT ![k] = 1]
      BY <2>3, <2>4 DEF HandleNew, Announce
    <3>2. r \in Row /\ r.key = k /\ r.state # "close"
      BY DEF Row, RowStates
    <3> HIDE DEF r
    <3>3. /\ Len(connections') = IF Len(connections) = MaxConns THEN MaxConns ELSE Len(connections) + 1
          /\ connections'[Len(connections')] = r
          /\ \A j \in 1 .. Len(connections') - 1 :
               connections'[j] = connections[Len(connections) + 1 - Len(connections') + j]
      BY ONLY <2>ty, <3>1, <3>2, NewRow
    <3>4. k # x
      <4>1. Len(connections') \in 1 .. Len(connections')
        BY <2>ty, <3>3
      <4> QED
        BY <2>2, <3>2, <3>3, <4>1
    <3>5. balance'[k] > balance[k]
      BY <2>ty, <3>1
    <3>6. Len(connections) = MaxConns
      <4> SUFFICES ASSUME Len(connections) # MaxConns
                   PROVE  FALSE
        OBVIOUS
      <4>1. i \in 1 .. Len(connections') - 1 /\ Len(connections) + 1 - Len(connections') + i = i
        BY <2>ty, <3>3
      <4> QED
        BY <2>1, <2>2, <3>3, <4>1
    <3> QED
      BY <2>4, <3>4, <3>5, <3>6
  <2>5. ASSUME NEW k \in Key, HandleClosed(k)
        PROVE  FALSE
    <3>1. CloseRow(k) /\ balance' = [balance EXCEPT ![k] = 0] /\ k # x
      BY <2>5, <2>ty DEF HandleClosed, Retire
    <3>2. PICK c \in 1 .. Len(connections) :
            /\ connections[c].key = k
            /\ keep => connections' = [connections EXCEPT ![c].state = "close"]
            /\ ~keep => connections' = RemoveAt(connections, c)
      BY <2>3, <2>5, <2>ty, <3>1, CloseRowFacts
    <3>3. i # c
      BY <2>1, <3>1, <3>2
    <3>4. CASE keep
      <4>1. Len(connections') = Len(connections) /\ connections'[i] = connections[i]
        BY <2>ty, <3>2, <3>3, <3>4, MarkFacts
      <4> QED
        BY <2>1, <2>2, <4>1
    <3>5. CASE ~keep
      <4>1. /\ Len(connections') = Len(connections) - 1
            /\ \A j \in 1 .. c - 1 : connections'[j] = connections[j]
            /\ \A j \in c .. Len(connections) - 1 : connections'[j] = connections[j + 1]
        <5>1. connections' = RemoveAt(connections, c)
          BY <3>2, <3>5
        <5> QED
          BY ONLY <2>ty, <5>1, RemoveAtFacts
      <4>2. CASE i < c
        <5>1. i \in 1 .. c - 1 /\ i \in 1 .. Len(connections')
          BY <2>ty, <4>1, <4>2
        <5> QED
          BY <2>1, <2>2, <4>1, <5>1
      <4>3. CASE i > c
        <5>1. i - 1 \in c .. Len(connections) - 1 /\ (i - 1) + 1 = i /\ i - 1 \in 1 .. Len(connections')
          BY <2>ty, <4>1, <4>3
        <5>2. connections'[i - 1] = connections[i]
          BY <4>1, <5>1
        <5> QED
          BY <2>1, <2>2, <5>1, <5>2
      <4> QED
        BY <3>3, <4>2, <4>3
    <3> QED
      BY <2>ty, <3>4, <3>5
  <2>6. CASE ToggleTimeWait \/ StopFeed
    BY <2>3, <2>6 DEF ToggleTimeWait, StopFeed, rowVars
  <2> QED
    BY <2>4, <2>5, <2>6 DEF Next
<1>2. RowsLostOnlyWhenFull <=> [][Kept]_vars
  BY PTL DEF RowsLostOnlyWhenFull
<1> HIDE DEF Kept
<1> QED
  BY <1>1, <1>2, RowsInvariant, PTL DEF Spec

(* An event's alerts move every older one by their number from the end of  *)
(* the list, and those of its own connection are the last.                 *)
LEMMA MarksStep == RowsInv /\ MarksOK /\ [Next]_vars => MarksOK'
<1> SUFFICES ASSUME RowsInv, MarksOK, [Next]_vars
             PROVE  MarksOK'
  OBVIOUS
<1>ty. /\ alerts \in Seq(Key) /\ Len(alerts) \in Nat /\ Len(alerts) <= MaxAlerts
       /\ newer \in [Key -> 0 .. MaxAlerts] /\ MaxAlerts \in Nat \ {0}
  BY TableAssumption DEF RowsInv, TypeOK
<1>1. ASSUME NEW k \in Key, NEW n \in Nat, AppendAlerts(n, k), newer' = Aged(n, k)
      PROVE  MarksOK'
  <2> DEFINE size == Len(alerts')
  <2>1. /\ size = IF Len(alerts) + n > MaxAlerts THEN MaxAlerts ELSE Len(alerts) + n
        /\ \A i \in 1 .. size :
             LET p == Len(alerts) + n - size + i
             IN IF p > Len(alerts) THEN alerts'[i] = k ELSE alerts'[i] = alerts[p]
    BY ONLY <1>1, <1>ty, AlertsStep
  <2> SUFFICES ASSUME NEW j \in Key
               PROVE  /\ newer'[j] < MaxAlerts => newer'[j] < size /\ alerts'[size - newer'[j]] = j
                      /\ \A i \in 1 .. size : alerts'[i] = j => newer'[j] <= size - i
    BY DEF MarksOK
  <2>2. size \in Nat /\ size <= MaxAlerts /\ newer[j] \in 0 .. MaxAlerts
    BY <1>ty, <2>1
  <2> HIDE DEF size
  <2>3. CASE j = k /\ n > 0
    <3>1. newer'[j] = 0
      BY <1>1, <2>3 DEF Aged
    <3>2. size \in 1 .. size /\ Len(alerts) + n - size + size > Len(alerts)
      BY <1>ty, <2>1, <2>2, <2>3
    <3>3. alerts'[size] = k
      BY <2>1, <3>2
    <3> QED
      BY <2>2, <2>3, <3>1, <3>2, <3>3
  <2>4. CASE ~(j = k /\ n > 0)
    <3>1. newer'[j] = IF newer[j] + n < MaxAlerts THEN newer[j] + n ELSE MaxAlerts
      BY <1>1, <2>4 DEF Aged
    <3>2. ASSUME newer'[j] < MaxAlerts
          PROVE  newer'[j] < size /\ alerts'[size - newer'[j]] = j
      <4>1. newer[j] < MaxAlerts /\ newer'[j] = newer[j] + n
        BY <1>ty, <2>2, <3>1, <3>2
      <4>2. newer[j] < Len(alerts) /\ alerts[Len(alerts) - newer[j]] = j
        BY <4>1 DEF MarksOK
      <4>3. newer'[j] < size
        BY <1>ty, <2>1, <2>2, <3>2, <4>1, <4>2
      <4>4. /\ size - newer'[j] \in 1 .. size
            /\ Len(alerts) + n - size + (size - newer'[j]) = Len(alerts) - newer[j]
            /\ ~(Len(alerts) - newer[j] > Len(alerts))
        BY <1>ty, <2>2, <4>1, <4>3
      <4>5. alerts'[size - newer'[j]] = alerts[Len(alerts) - newer[j]]
        BY <2>1, <4>4
      <4> QED
        BY <4>2, <4>3, <4>5
    <3>3. ASSUME NEW i \in 1 .. size, alerts'[i] = j
          PROVE  newer'[j] <= size - i
      <4> DEFINE p == Len(alerts) + n - size + i
      <4>1. ~(p > Len(alerts))
        <5> SUFFICES ASSUME p > Len(alerts)
                     PROVE  FALSE
          OBVIOUS
        <5>1. j = k
          BY <2>1, <3>3
        <5>2. n > 0
          BY <1>ty, <2>2
        <5> QED
          BY <2>4, <5>1, <5>2
      <4>2. alerts[p] = j
        BY <2>1, <3>3, <4>1
      <4>3. p \in 1 .. Len(alerts)
        <5>1. size <= Len(alerts) + n /\ Len(alerts) \in Nat /\ size \in Nat
          BY <1>ty, <2>1, <2>2
        <5> QED
          BY ONLY <4>1, <5>1, <1>1, <3>3
      <4>4. newer[j] <= Len(alerts) - p
        BY <4>2, <4>3 DEF MarksOK
      <4> QED
        BY <1>ty, <2>2, <3>1, <4>4
    <3> QED
      BY <3>2, <3>3
  <2> QED
    BY <2>3, <2>4
<1>2. CASE UNCHANGED <<alerts, newer>>
  BY <1>2 DEF MarksOK
<1>3. ASSUME NEW k \in Key, HandleClosed(k)
      PROVE  MarksOK'
  <2>1. AppendAlerts(0, k) /\ newer' = newer
    BY <1>3 DEF HandleClosed
  <2>2. newer = Aged(0, k)
    <3>1. ASSUME NEW j \in Key
          PROVE  Aged(0, k)[j] = newer[j]
      BY <1>ty DEF Aged
    <3> QED
      BY <1>ty, <3>1 DEF Aged
  <2> QED
    BY <1>1, <2>1, <2>2
<1>4. ASSUME NEW k \in Key, NEW state \in {"open", "timewait"}, NEW n \in 0 .. EventAlerts,
             HandleNew(k, state, n)
      PROVE  MarksOK'
  <2>1. UNCHANGED <<alerts, newer>> \/ (AppendAlerts(n, k) /\ newer' = Aged(n, k))
    <3>1. CASE state = "timewait" /\ ~showTimeWait
      BY <1>4, <3>1 DEF HandleNew
    <3>2. CASE ~(state = "timewait" /\ ~showTimeWait)
      BY <1>4, <3>2, Zenon DEF HandleNew
    <3> QED
      BY <3>1, <3>2
  <2>2. n \in Nat
    BY TableAssumption
  <2> QED
    BY <1>1, <1>2, <2>1, <2>2
<1>5. CASE ToggleTimeWait \/ StopFeed \/ UNCHANGED vars
  BY <1>2, <1>5 DEF ToggleTimeWait, StopFeed, vars, rowVars
<1> QED
  BY <1>3, <1>4, <1>5 DEF Next

(* A row has its alert mark exactly when fewer than MaxAlerts alerts are   *)
(* newer than the latest one of its connection, in every reachable state,  *)
(* for any limit of the list and any number of alerts of one event.        *)
THEOREM MarkCorrect == Spec => []MarkIsRecentAlert
<1>1. Init => MarksOK
  <2> SUFFICES ASSUME Init, NEW k \in Key
               PROVE  /\ newer[k] < MaxAlerts =>
                           newer[k] < Len(alerts) /\ alerts[Len(alerts) - newer[k]] = k
                      /\ \A i \in 1 .. Len(alerts) : alerts[i] = k => newer[k] <= Len(alerts) - i
    BY DEF MarksOK
  <2>1. newer[k] = MaxAlerts /\ Len(alerts) = 0 /\ MaxAlerts \in Nat
    BY TableAssumption DEF Init
  <2>2. ~(newer[k] < MaxAlerts) /\ 1 .. Len(alerts) = {}
    BY <2>1
  <2> QED
    BY <2>2
<1>2. RowsInv /\ MarksOK => MarkIsRecentAlert
  <2> SUFFICES ASSUME RowsInv, MarksOK, NEW k \in Key
               PROVE  HasAlert(k) <=> newer[k] < MaxAlerts
    BY DEF MarkIsRecentAlert
  <2>1. /\ alerts \in Seq(Key) /\ Len(alerts) \in Nat /\ Len(alerts) <= MaxAlerts
        /\ newer[k] \in 0 .. MaxAlerts /\ MaxAlerts \in Nat \ {0}
    BY TableAssumption DEF RowsInv, TypeOK
  <2>2. HasAlert(k) <=> \E i \in 1 .. Len(alerts) : alerts[i] = k
    BY <2>1 DEF HasAlert, Contains
  <2>3. ASSUME NEW i \in 1 .. Len(alerts), alerts[i] = k
        PROVE  newer[k] < MaxAlerts
    <3>1. newer[k] <= Len(alerts) - i
      BY <2>3 DEF MarksOK
    <3> QED
      BY <2>1, <3>1
  <2>4. ASSUME newer[k] < MaxAlerts
        PROVE  \E i \in 1 .. Len(alerts) : alerts[i] = k
    <3>1. newer[k] < Len(alerts) /\ alerts[Len(alerts) - newer[k]] = k
      BY <2>4 DEF MarksOK
    <3>2. Len(alerts) - newer[k] \in 1 .. Len(alerts)
      BY <2>1, <3>1
    <3> QED
      BY <3>1, <3>2
  <2> QED
    BY <2>2, <2>3, <2>4
<1> QED
  BY <1>1, <1>2, RowsInvariant, MarksStep, PTL DEF Spec
=============================================================================
