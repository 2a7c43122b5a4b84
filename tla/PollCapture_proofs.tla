------------------------ MODULE PollCapture_proofs -------------------------
(***************************************************************************)
(* Proofs about PollCapture, for every set of addresses, inodes and        *)
(* processes, for both backends and with every failure allowed.            *)
(*                                                                         *)
(* The argument: while the context is live, the consumer's list of open    *)
(* connections is the backend's map without the events still to be sent:   *)
(* keys with a pending "new" are in the map and not yet shown, keys with a *)
(* pending "closed" are shown and no longer in the map (Accounted).  That, *)
(* with the shape of the pending sets at each program point (Pending), is  *)
(* inductive, and says at every send what the balance of its key is.       *)
(***************************************************************************)
EXTENDS PollCapture, TLAPS

(* The kernel stays well typed: every socket entry keeps its shape         *)
(* (Sockets).                                                              *)
LEMMA KernelTypes ==
  ASSUME KernelTypeOK, Kernel
  PROVE  KernelTypeOK'
<1>1. ASSUME NEW a \in Addr, NEW i \in Inode, NEW p \in Pid, NEW st \in {"open", "listen"},
             OpenSocket(a, i, p, st)
      PROVE  KernelTypeOK'
  BY <1>1 DEF OpenSocket, KernelTypeOK, Sock, SockState
<1>2. ASSUME NEW a \in Addr, NEW p \in Pid, ShareSocket(a, p)
      PROVE  KernelTypeOK'
  BY <1>2 DEF ShareSocket, KernelTypeOK, Sock, SockState
<1>3. ASSUME NEW a \in Addr, NEW p \in Pid, DropSocket(a, p)
      PROVE  KernelTypeOK'
  BY <1>3 DEF DropSocket, NoSock, KernelTypeOK, Sock, SockState
<1>4. ASSUME NEW a \in Addr, ExpireTimeWait(a)
      PROVE  KernelTypeOK'
  BY <1>4 DEF ExpireTimeWait, NoSock, KernelTypeOK, Sock, SockState
<1> QED
  BY <1>1, <1>2, <1>3, <1>4 DEF Kernel

KeysOf(conns) == {KeyOf(c) : c \in conns}

Pending ==
  /\ pc \in {"start", "idle", "dumped", "closed"} => pendNew = {} /\ pendClosed = {}
  /\ pc = "sendNew" => pendClosed = {}
  /\ pc = "sendClosed" => pendNew = {}
  /\ \A c, d \in pendNew : KeyOf(c) = KeyOf(d) => c = d
  /\ \A c, d \in pendClosed : KeyOf(c) = KeyOf(d) => c = d
  /\ \A c \in pendNew : KeyOf(c) \in DOMAIN known
  /\ \A c \in pendClosed : KeyOf(c) \notin DOMAIN known
  /\ pc \in {"sendNew", "sendClosed"} => current \subseteq DOMAIN known

Expected == (DOMAIN known \ KeysOf(pendNew)) \cup KeysOf(pendClosed)

Accounted ==
  ~cancelled => balance = [k \in Key |-> IF k \in Expected THEN 1 ELSE 0]

Inv == TypeOK /\ Pending /\ Accounted

-----------------------------------------------------------------------------
(***************************************************************************)
(* Lemmas about the operators of a scan.                                   *)
(***************************************************************************)

(* A walk over the descriptors finds process ids and nothing else.         *)
LEMMA VisibleIsPids ==
  ASSUME KernelTypeOK, NEW i \in Inode
  PROVE  Visible(i) \subseteq Pid
BY DEF Visible, KernelTypeOK, Sock

(* Merging a walk into the cache gives a PID, or none, for every inode.    *)
LEMMA MergeType ==
  ASSUME KernelTypeOK, inodePID \in [Inode -> PidOrNone],
         NEW live \in LiveInodePID \cup {NoPids}
  PROVE  Merge(live) \in [Inode -> PidOrNone]
BY DEF Merge, LiveInodePID, NoPids, PidOrNone

(* rawToConnection makes a connection of any row.                          *)
LEMMA ConnType ==
  ASSUME NEW r \in Row, NEW m \in [Inode -> PidOrNone]
  PROVE  ToConn(r, m) \in Conn
BY BackendAssumption, ViewAssumption DEF Row, ToConn, AddrText, ProcText, Conn, PidOrNone

(* The key of a connection is a key.                                       *)
LEMMA KeyType ==
  ASSUME NEW c \in Conn
  PROVE  KeyOf(c) \in Key
BY DEF Conn, Key, KeyOf

(* A dump, complete or not, consists of rows.                              *)
LEMMA RowsType ==
  ASSUME KernelTypeOK, NEW failed
  PROVE  RowsOf(failed) \subseteq Row
BY DEF RowsOf, Row, KernelTypeOK, Sock

(* Receiving an event keeps the balance a function from keys to integers.  *)
LEMMA ReceivedType ==
  ASSUME balance \in [Key -> Int], NEW c, NEW delta \in {1, -1}, Received(c, delta)
  PROVE  balance' \in [Key -> Int]
<1> DEFINE k == KeyOf(c)
<1>1. CASE cancelled
  BY <1>1 DEF Received
<1>2. CASE ~cancelled
  <2>1. balance' = [balance EXCEPT ![k] = balance[k] + delta]
    BY <1>2 DEF Received
  <2>2. delta \in Int
    OBVIOUS
  <2> HIDE DEF k
  <2>3. \A x \in Key : balance'[x] \in Int
    BY <2>1, <2>2
  <2> QED
    BY <2>1, <2>3
<1> QED
  BY <1>1, <1>2

(* What a scan does to the map: the keys of the dump are added, each with  *)
(* a connection of that key, and the added connections are the ones to be  *)
(* announced.                                                              *)
LEMMA ScanResult ==
  ASSUME TypeOK, NEW live \in LiveInodePID \cup {NoPids}, Scan(live)
  PROVE  /\ inodePID' \in [Inode -> PidOrNone]
         /\ current' \subseteq Key
         /\ DOMAIN known' = DOMAIN known \cup current'
         /\ \A k \in DOMAIN known : known'[k] = known[k]
         /\ \A k \in DOMAIN known' : known'[k] \in Conn /\ KeyOf(known'[k]) = k
         /\ pendNew' = {known'[k] : k \in current' \ DOMAIN known}
<1> DEFINE m == Merge(live)
           conns == {ToConn(r, m) : r \in {x \in rows : x.state # "listen"}}
           fresh == {KeyOf(c) : c \in conns} \ DOMAIN known
<1>1. m \in [Inode -> PidOrNone]
  BY MergeType DEF TypeOK
<1>2. conns \subseteq Conn
  <2> HIDE DEF m
  <2> QED BY <1>1, ConnType DEF TypeOK
<1>3. /\ inodePID' = m
      /\ current' = {KeyOf(c) : c \in conns}
  BY DEF Scan
<1>4. current' \subseteq Key
  <2> HIDE DEF conns
  <2> QED BY <1>2, <1>3, KeyType
<1>5. PICK first \in [fresh -> conns] :
        /\ \A k \in fresh : KeyOf(first[k]) = k
        /\ known' = [k \in DOMAIN known \cup fresh |->
                       IF k \in DOMAIN known THEN known[k] ELSE first[k]]
        /\ pendNew' = {first[k] : k \in fresh}
  BY DEF Scan, AddNew
<1>6. fresh = current' \ DOMAIN known
  BY <1>3
<1> HIDE DEF m, conns, fresh
<1>7. /\ DOMAIN known' = DOMAIN known \cup current'
      /\ \A k \in DOMAIN known : known'[k] = known[k]
  BY <1>5, <1>6
<1>8. \A k \in fresh : known'[k] = first[k] /\ known'[k] \in Conn
  BY <1>2, <1>5, <1>6
<1>9. \A k \in DOMAIN known' : known'[k] \in Conn /\ KeyOf(known'[k]) = k
  <2> SUFFICES ASSUME NEW k \in DOMAIN known'
               PROVE  known'[k] \in Conn /\ KeyOf(known'[k]) = k
    OBVIOUS
  <2>1. CASE k \in DOMAIN known
    BY <2>1, <1>7 DEF TypeOK
  <2>2. CASE k \in fresh
    BY <2>2, <1>5, <1>8
  <2> QED
    BY <2>1, <2>2, <1>6, <1>7
<1>10. pendNew' = {known'[k] : k \in fresh}
  BY <1>5, <1>8
<1> QED
  BY <1>1, <1>3, <1>4, <1>6, <1>7, <1>9, <1>10

-----------------------------------------------------------------------------
(* The backend starts with no connection known, pending or shown.          *)
LEMMA InitInv == Init => Inv
<1> SUFFICES ASSUME Init PROVE Inv
  OBVIOUS
<1>1. TypeOK
  <2>1. KernelTypeOK
    BY DEF Init, KernelInit, KernelTypeOK, Sock, SockState, NoSock
  <2>2. inodePID \in [Inode -> PidOrNone]
    BY DEF Init, NoPids, PidOrNone
  <2>3. balance \in [Key -> Int]
    BY DEF Init
  <2>4. DOMAIN known = {}
    BY DEF Init
  <2> QED
    BY <2>1, <2>2, <2>3, <2>4 DEF Init, TypeOK
<1>2. Pending
  BY DEF Init, Pending
<1>3. Accounted
  BY DEF Init, Accounted, Expected, KeysOf
<1> QED
  BY <1>1, <1>2, <1>3 DEF Inv

(* Steps of the kernel leave the backend alone; the other steps leave the  *)
(* kernel alone.                                                           *)
LEMMA TypeStep ==
  ASSUME TypeOK, Next
  PROVE  TypeOK'
<1>1. CASE DumpTCP
  <2>1. rows' \subseteq Row
    BY <1>1, RowsType DEF DumpTCP, TypeOK
  <2> QED
    BY <1>1, <2>1 DEF DumpTCP, TypeOK, kernelVars, KernelTypeOK
<1>2. ASSUME NEW live \in LiveInodePID \cup {NoPids}, Scan(live),
             pc' = "sendNew", rows' = {},
             UNCHANGED <<kernelVars, pendClosed, cancelled, balance>>
      PROVE  TypeOK'
  <2>1. /\ inodePID' \in [Inode -> PidOrNone]
        /\ current' \subseteq Key
        /\ DOMAIN known' = DOMAIN known \cup current'
        /\ \A k \in DOMAIN known' : known'[k] \in Conn /\ KeyOf(known'[k]) = k
        /\ pendNew' = {known'[k] : k \in current' \ DOMAIN known}
    BY <1>2, ScanResult
  <2>2. pendNew' \subseteq Conn
    BY <2>1
  <2> QED
    BY <1>2, <2>1, <2>2 DEF TypeOK, kernelVars, KernelTypeOK
<1>3. CASE ResolvePIDs
  BY <1>2, <1>3 DEF ResolvePIDs
<1>4. CASE ResolveWithoutPIDs
  BY <1>2, <1>4 DEF ResolveWithoutPIDs
<1>5. CASE AbandonScan
  BY <1>5 DEF AbandonScan, TypeOK, kernelVars, KernelTypeOK
<1>6. CASE SendNew
  <2>1. balance' \in [Key -> Int]
    BY <1>6, ReceivedType DEF SendNew, TypeOK
  <2> QED
    BY <1>6, <2>1 DEF SendNew, TypeOK, kernelVars, KernelTypeOK
<1>7. CASE DetectClosed
  BY <1>7 DEF DetectClosed, TypeOK, kernelVars, KernelTypeOK
<1>8. CASE SendClosed
  <2>1. balance' \in [Key -> Int]
    BY <1>8, ReceivedType DEF SendClosed, TypeOK
  <2> QED
    BY <1>8, <2>1 DEF SendClosed, TypeOK, kernelVars, KernelTypeOK
<1>9. CASE EndScan
  BY <1>9 DEF EndScan, TypeOK, kernelVars, KernelTypeOK
<1>10. CASE AbortSend
  BY <1>10 DEF AbortSend, TypeOK, kernelVars, KernelTypeOK
<1>11. CASE Stop
  BY <1>11 DEF Stop, TypeOK, kernelVars, KernelTypeOK
<1>12. CASE Cancel
  BY <1>12 DEF Cancel, TypeOK, kernelVars, scanVars, KernelTypeOK
<1>13. CASE KernelStep
  <2>1. KernelTypeOK'
    BY <1>13, KernelTypes DEF KernelStep, TypeOK
  <2> QED
    BY <1>13, <2>1 DEF KernelStep, TypeOK, scanVars
<1> QED
  BY <1>1, <1>3, <1>4, <1>5, <1>6, <1>7, <1>8, <1>9, <1>10, <1>11, <1>12, <1>13 DEF Next

(* The pending events keep one entry per key, and name what known says of  *)
(* it.                                                                     *)
LEMMA PendingStep ==
  ASSUME TypeOK, Pending, Next
  PROVE  Pending'
<1>1. CASE DumpTCP
  BY <1>1 DEF DumpTCP, Pending
<1>2. ASSUME pc = "dumped", NEW live \in LiveInodePID \cup {NoPids}, Scan(live),
             pc' = "sendNew", rows' = {},
             UNCHANGED <<kernelVars, pendClosed, cancelled, balance>>
      PROVE  Pending'
  <2>1. /\ DOMAIN known' = DOMAIN known \cup current'
        /\ \A k \in DOMAIN known' : known'[k] \in Conn /\ KeyOf(known'[k]) = k
        /\ pendNew' = {known'[k] : k \in current' \ DOMAIN known}
    BY <1>2, ScanResult
  <2>2. pendClosed' = {}
    BY <1>2 DEF Pending
  <2>3. \A c \in pendNew' : KeyOf(c) \in DOMAIN known' /\ c = known'[KeyOf(c)]
    BY <2>1
  <2> QED
    BY <1>2, <2>1, <2>2, <2>3 DEF Pending
<1>3. CASE ResolvePIDs
  BY <1>2, <1>3 DEF ResolvePIDs
<1>4. CASE ResolveWithoutPIDs
  BY <1>2, <1>4 DEF ResolveWithoutPIDs
<1>5. CASE AbandonScan
  BY <1>5 DEF AbandonScan, Pending
<1>6. CASE SendNew
  BY <1>6 DEF SendNew, Pending
<1>7. CASE DetectClosed
  <2>1. /\ DOMAIN known' = DOMAIN known \cap current
        /\ pendClosed' = {known[k] : k \in DOMAIN known \ current}
        /\ \A k \in DOMAIN known : KeyOf(known[k]) = k
        /\ UNCHANGED <<current, pendNew>>
        /\ pendNew = {} /\ pc = "sendNew" /\ pc' = "sendClosed"
    BY <1>7 DEF DetectClosed, TypeOK
  <2>2. \A c \in pendClosed' : KeyOf(c) \in DOMAIN known \ current /\ c = known[KeyOf(c)]
    BY <2>1
  <2>3. current \subseteq DOMAIN known
    BY <2>1 DEF Pending
  <2> QED
    BY <2>1, <2>2, <2>3 DEF Pending
<1>8. CASE SendClosed
  BY <1>8 DEF SendClosed, Pending
<1>9. CASE EndScan
  BY <1>9 DEF EndScan, Pending
<1>10. CASE AbortSend
  BY <1>10 DEF AbortSend, Pending
<1>11. CASE Stop
  BY <1>11 DEF Stop, Pending
<1>12. CASE Cancel
  BY <1>12 DEF Cancel, scanVars, Pending
<1>13. CASE KernelStep
  BY <1>13 DEF KernelStep, scanVars, Pending
<1> QED
  BY <1>1, <1>3, <1>4, <1>5, <1>6, <1>7, <1>8, <1>9, <1>10, <1>11, <1>12, <1>13 DEF Next

(* What a delivered event finds on the consumer's list: nothing under its  *)
(* key for a "new", one entry for a "closed".                              *)
LEMMA Deliverable ==
  ASSUME Inv, ~cancelled
  PROVE  /\ \A c \in pendNew : pc = "sendNew" => KeyOf(c) \in Key /\ balance[KeyOf(c)] = 0
         /\ \A c \in pendClosed : pc = "sendClosed" => KeyOf(c) \in Key /\ balance[KeyOf(c)] = 1
<1>1. \A c \in pendNew \cup pendClosed : KeyOf(c) \in Key
  BY KeyType DEF Inv, TypeOK
<1>2. balance = [k \in Key |-> IF k \in Expected THEN 1 ELSE 0]
  BY DEF Inv, Accounted
<1>3. ASSUME NEW c \in pendNew, pc = "sendNew"
      PROVE  KeyOf(c) \notin Expected
  BY <1>3 DEF Inv, Pending, Expected, KeysOf
<1>4. ASSUME NEW c \in pendClosed
      PROVE  KeyOf(c) \in Expected
  BY DEF Expected, KeysOf
<1> QED
  BY <1>1, <1>2, <1>3, <1>4

(* Every step keeps the account: shown, pending and known agree.           *)
LEMMA AccountedStep ==
  ASSUME Inv, Next
  PROVE  Accounted'
<1> SUFFICES ASSUME ~cancelled'
             PROVE  balance' = [k \in Key |-> IF k \in Expected' THEN 1 ELSE 0]
  BY DEF Accounted
<1>0. ~cancelled /\ balance = [k \in Key |-> IF k \in Expected THEN 1 ELSE 0]
  <2>1. ~cancelled
    BY DEF Next, DumpTCP, ResolvePIDs, ResolveWithoutPIDs, AbandonScan, SendNew, DetectClosed,
           SendClosed, EndScan, AbortSend, Stop, Cancel, KernelStep
  <2> QED
    BY <2>1 DEF Inv, Accounted
<1>1. ASSUME UNCHANGED <<known, pendNew, pendClosed, balance>>
      PROVE  balance' = [k \in Key |-> IF k \in Expected' THEN 1 ELSE 0]
  BY <1>0, <1>1 DEF Expected, KeysOf
<1>2. ASSUME pc = "dumped", NEW live \in LiveInodePID \cup {NoPids}, Scan(live),
             UNCHANGED <<pendClosed, balance>>
      PROVE  balance' = [k \in Key |-> IF k \in Expected' THEN 1 ELSE 0]
  <2>1. /\ DOMAIN known' = DOMAIN known \cup current'
        /\ \A k \in DOMAIN known' : KeyOf(known'[k]) = k
        /\ pendNew' = {known'[k] : k \in current' \ DOMAIN known}
    BY <1>2, ScanResult DEF Inv
  <2>2. pendNew = {} /\ pendClosed = {}
    BY <1>2 DEF Inv, Pending
  <2>3. KeysOf(pendNew') = current' \ DOMAIN known
    BY <2>1 DEF KeysOf
  <2>4. Expected' = Expected
    BY <1>2, <2>1, <2>2, <2>3 DEF Expected, KeysOf
  <2> QED
    BY <1>0, <1>2, <2>4
<1>3. ASSUME NEW c \in pendNew, pc = "sendNew", pendNew' = pendNew \ {c}, Received(c, 1),
             UNCHANGED <<known, pendClosed>>
      PROVE  balance' = [k \in Key |-> IF k \in Expected' THEN 1 ELSE 0]
  <2>1. balance' = [balance EXCEPT ![KeyOf(c)] = 0 + 1] /\ KeyOf(c) \in Key
    BY <1>0, <1>3, Deliverable DEF Received
  <2>2. KeysOf(pendNew') = KeysOf(pendNew) \ {KeyOf(c)}
    BY <1>3 DEF Inv, Pending, KeysOf
  <2>3. KeyOf(c) \in DOMAIN known
    BY <1>3 DEF Inv, Pending
  <2>4. Expected' = Expected \cup {KeyOf(c)}
    BY <1>3, <2>2, <2>3 DEF Expected, KeysOf
  <2> QED
    BY <1>0, <2>1, <2>4
<1>4. ASSUME NEW c \in pendClosed, pc = "sendClosed", pendClosed' = pendClosed \ {c}, Received(c, -1),
             UNCHANGED <<known, pendNew>>
      PROVE  balance' = [k \in Key |-> IF k \in Expected' THEN 1 ELSE 0]
  <2>1. balance' = [balance EXCEPT ![KeyOf(c)] = 0] /\ KeyOf(c) \in Key
    <3>1. balance[KeyOf(c)] = 1 /\ KeyOf(c) \in Key
      BY <1>0, <1>4, Deliverable
    <3>2. balance' = [balance EXCEPT ![KeyOf(c)] = balance[KeyOf(c)] + -1]
      BY <1>0, <1>4 DEF Received
    <3> QED
      BY <3>1, <3>2
  <2>2. KeysOf(pendClosed') = KeysOf(pendClosed) \ {KeyOf(c)}
    BY <1>4 DEF Inv, Pending, KeysOf
  <2>3. KeyOf(c) \notin DOMAIN known
    BY <1>4 DEF Inv, Pending
  <2>4. Expected' = Expected \ {KeyOf(c)}
    BY <1>4, <2>2, <2>3 DEF Expected, KeysOf
  <2> QED
    BY <1>0, <2>1, <2>4
<1>5. CASE DetectClosed
  <2>1. /\ DOMAIN known' = DOMAIN known \cap current
        /\ pendClosed' = {known[k] : k \in DOMAIN known \ current}
        /\ \A k \in DOMAIN known : KeyOf(known[k]) = k
        /\ pendNew' = {} /\ pendNew = {} /\ pc = "sendNew"
        /\ balance' = balance
    BY <1>5 DEF DetectClosed, Inv, TypeOK
  <2>2. pendClosed = {}
    BY <2>1 DEF Inv, Pending
  <2>3. KeysOf(pendClosed') = DOMAIN known \ current
    BY <2>1 DEF KeysOf
  <2>4. Expected' = Expected
    BY <2>1, <2>2, <2>3 DEF Expected, KeysOf
  <2> QED
    BY <1>0, <2>1, <2>4
<1>6. CASE DumpTCP
  BY <1>1, <1>6 DEF DumpTCP
<1>7. CASE ResolvePIDs
  BY <1>2, <1>7 DEF ResolvePIDs
<1>8. CASE ResolveWithoutPIDs
  BY <1>2, <1>8 DEF ResolveWithoutPIDs
<1>9. CASE AbandonScan
  BY <1>1, <1>9 DEF AbandonScan
<1>10. CASE SendNew
  BY <1>3, <1>10 DEF SendNew
<1>11. CASE SendClosed
  BY <1>4, <1>11 DEF SendClosed
<1>12. CASE EndScan
  BY <1>1, <1>12 DEF EndScan
<1>13. CASE AbortSend
  BY <1>0, <1>13 DEF AbortSend
<1>14. CASE Stop
  BY <1>0, <1>14 DEF Stop
<1>15. CASE Cancel
  BY <1>15 DEF Cancel
<1>16. CASE KernelStep
  BY <1>1, <1>16 DEF KernelStep, scanVars
<1> QED
  BY <1>5, <1>6, <1>7, <1>8, <1>9, <1>10, <1>11, <1>12, <1>13, <1>14, <1>15, <1>16 DEF Next

(* Every step keeps the inductive invariant.                               *)
LEMMA InvStep ==
  ASSUME Inv, [Next]_vars
  PROVE  Inv'
<1>1. CASE Next
  BY <1>1, TypeStep, PendingStep, AccountedStep DEF Inv
<1>2. CASE UNCHANGED vars
  BY <1>2 DEF vars, scanVars, Inv, TypeOK, KernelTypeOK, Pending, Accounted, Expected, KeysOf
<1> QED
  BY <1>1, <1>2

(* The inductive invariant holds in every reachable state.                 *)
THEOREM Invariance == Spec => []Inv
BY InitInv, InvStep, PTL DEF Spec

-----------------------------------------------------------------------------
(* The map of known connections is keyed by its connections' own keys, and *)
(* every other variable of scanAndEmit stays in its type.                  *)
THEOREM TypeCorrect == Spec => []TypeOK
<1>1. Inv => TypeOK
  BY DEF Inv
<1> QED
  BY <1>1, Invariance, PTL

(* Between two scans the consumer's open connections are exactly the ones  *)
(* the backend remembers.                                                  *)
THEOREM ViewCorrect == Spec => []ViewMatchesKnown
<1>1. ASSUME Inv, pc = "idle", ~cancelled
      PROVE  Shown = DOMAIN known
  <2>1. Expected = DOMAIN known
    BY <1>1 DEF Inv, Pending, Expected, KeysOf
  <2>2. DOMAIN known \subseteq Key
    BY <1>1 DEF Inv, TypeOK
  <2>3. \A k \in Key : balance[k] = 1 <=> k \in DOMAIN known
    BY <1>1, <2>1 DEF Inv, Accounted
  <2> QED
    BY <2>2, <2>3 DEF Shown
<1>2. Inv => ViewMatchesKnown
  BY <1>1 DEF ViewMatchesKnown
<1> QED
  BY <1>2, Invariance, PTL

(* Every step of the backend, of the kernel and of the cancellation is a   *)
(* step of the abstract stream or leaves it alone.                         *)
LEMMA FeedStep ==
  ASSUME Inv, [Next]_vars
  PROVE  [Feed!FeedNext]_(Feed!feedVars)
<1> USE DEF Feed!feedVars
<1>1. CASE UNCHANGED <<balance, cancelled>>
  BY <1>1
<1>2. CASE SendNew
  <2>1. PICK c \in pendNew : Received(c, 1)
    BY <1>2 DEF SendNew
  <2>2. CASE cancelled
    BY <1>2, <2>1, <2>2 DEF SendNew, Received
  <2>3. CASE ~cancelled
    <3>1. KeyOf(c) \in Key /\ balance[KeyOf(c)] = 0
      BY <1>2, <2>3, Deliverable DEF SendNew
    <3>2. balance' = [balance EXCEPT ![KeyOf(c)] = 1]
      BY <2>1, <2>3, <3>1 DEF Received
    <3>3. Feed!Announce(KeyOf(c))
      BY <1>2, <2>3, <3>1, <3>2 DEF Feed!Announce, SendNew
    <3> QED
      BY <3>1, <3>3 DEF Feed!FeedNext
  <2> QED
    BY <2>2, <2>3
<1>3. CASE SendClosed
  <2>1. PICK c \in pendClosed : Received(c, -1)
    BY <1>3 DEF SendClosed
  <2>2. CASE cancelled
    BY <1>3, <2>1, <2>2 DEF SendClosed, Received
  <2>3. CASE ~cancelled
    <3>1. KeyOf(c) \in Key /\ balance[KeyOf(c)] = 1
      BY <1>3, <2>3, Deliverable DEF SendClosed
    <3>2. balance' = [balance EXCEPT ![KeyOf(c)] = 0]
      BY <2>1, <2>3, <3>1 DEF Received
    <3>3. Feed!Retire(KeyOf(c))
      BY <1>3, <2>3, <3>1, <3>2 DEF Feed!Retire, SendClosed
    <3> QED
      BY <3>1, <3>3 DEF Feed!FeedNext
  <2> QED
    BY <2>2, <2>3
<1>4. CASE Cancel
  BY <1>4 DEF Cancel, Feed!FeedNext, Feed!Stop
<1> QED
  BY <1>1, <1>2, <1>3, <1>4
     DEF Next, vars, DumpTCP, ResolvePIDs, ResolveWithoutPIDs, AbandonScan, DetectClosed,
         EndScan, AbortSend, Stop, KernelStep

(* The backend implements the abstract stream of ConnFeed: key by key,     *)
(* "new" and "closed" alternate, beginning with "new".                     *)
THEOREM FeedRefinement == Spec => ImplementsFeed
<1>1. Init => Feed!FeedInit
  BY DEF Init, Feed!FeedInit
<1> QED
  BY <1>1, FeedStep, Invariance, PTL DEF Spec, ImplementsFeed, Feed!FeedSpec

(* While an address is in the dump of the running scan, it stays on the    *)
(* consumer's list, whatever key it is listed under.                       *)
THEOREM NoGap == Spec => NoGapOnRekey
<1> DEFINE Covered ==
      \A k \in Shown \ Shown' : k.addr \in AddrsOf(Shown') \/ k.addr \notin AddrsOf(current)
<1>1. ASSUME Inv, [Next]_vars
      PROVE  [Covered]_vars
  <2> SUFFICES ASSUME NEW k \in Shown \ Shown', k.addr \in AddrsOf(current)
               PROVE  k.addr \in AddrsOf(Shown')
    OBVIOUS
  <2>1. k \in Key /\ balance[k] = 1 /\ balance'[k] # 1
    BY DEF Shown
  <2>2. PICK j \in current : j.addr = k.addr
    BY DEF AddrsOf
  <2>3. [Feed!FeedNext]_(Feed!feedVars)
    BY <1>1, FeedStep
  <2>4. balance' # balance /\ balance \in [Key -> Int]
    BY <1>1, <2>1 DEF Inv, TypeOK
  <2>5. CASE SendNew
    <3>1. PICK c \in pendNew : Received(c, 1)
      BY <2>5 DEF SendNew
    <3>2. ~cancelled /\ KeyOf(c) \in Key /\ balance[KeyOf(c)] = 0
      BY <1>1, <2>4, <2>5, <3>1, Deliverable DEF SendNew, Received
    <3>3. balance' = [balance EXCEPT ![KeyOf(c)] = 1]
      BY <3>1, <3>2 DEF Received
    <3> QED
      BY <2>1, <2>4, <3>2, <3>3
  <2>6. CASE SendClosed
    <3>1. PICK c \in pendClosed : Received(c, -1)
      BY <2>6 DEF SendClosed
    <3>2. ~cancelled /\ pc = "sendClosed" /\ pendNew = {}
      BY <1>1, <2>4, <2>6, <3>1 DEF SendClosed, Received, Inv, Pending
    <3>3. balance' = [balance EXCEPT ![KeyOf(c)] = balance[KeyOf(c)] + -1]
      BY <3>1, <3>2 DEF Received
    <3>4. KeyOf(c) \notin DOMAIN known /\ current \subseteq DOMAIN known
      BY <1>1, <3>2 DEF Inv, Pending
    <3>5. j \in Key /\ j \in Expected
      BY <1>1, <3>2, <3>4 DEF Expected, KeysOf, Inv, TypeOK
    <3>6. balance[j] = 1
      BY <1>1, <3>2, <3>5 DEF Inv, Accounted
    <3>7. balance'[j] = 1
      BY <2>4, <3>3, <3>4, <3>5, <3>6
    <3> QED
      BY <2>2, <3>5, <3>7 DEF Shown, AddrsOf
  <2> QED
    BY <1>1, <2>4, <2>5, <2>6
       DEF Next, vars, scanVars, DumpTCP, ResolvePIDs, ResolveWithoutPIDs, AbandonScan, DetectClosed,
           EndScan, AbortSend, Stop, Cancel, KernelStep
<1> QED
  BY <1>1, Invariance, PTL DEF Spec, NoGapOnRekey

-----------------------------------------------------------------------------
(***************************************************************************)
(* What the backend says of the kernel: whose socket a connection is, and  *)
(* whether a connection reported closed is gone.  Both rest on inode       *)
(* numbers not being used twice; the second one also on both families'     *)
(* dumps succeeding: the open connections of a family whose dump fails are *)
(* reported closed.                                                        *)
(*                                                                         *)
(* The argument: an inode once held keeps its holders in "held" for ever,  *)
(* so what the cache says of it stays true, and an inode that has left the *)
(* table never comes back (Tracked relates the map, the rows of the dump   *)
(* and the events still to be sent to the live table by inode number).     *)
(***************************************************************************)
Sane ==
  /\ \A a \in Addr : socks[a].inode # 0 =>
       /\ socks[a].state \in {"open", "listen"}
       /\ socks[a].holders # {}
       /\ socks[a].holders \subseteq held[socks[a].inode]
  /\ \A a \in Addr : socks[a].holders # {} => socks[a].inode # 0
  /\ \A a, b \in Addr : socks[a].inode = socks[b].inode /\ socks[a].inode # 0 => a = b

HolderKnown ==
  /\ \A i \in Inode : inodePID[i] # 0 => inodePID[i] \in held[i]
  /\ \A k \in DOMAIN known :
       known[k].pid # 0 => known[k].inode # 0 /\ known[k].pid \in held[known[k].inode]

-----------------------------------------------------------------------------
(* An empty table is sane.                                                 *)
LEMMA SaneInit == Init => Sane
BY DEF Init, KernelInit, NoSock, Sane

(* No step of the kernel gives two sockets one inode, or a socket an       *)
(* unrecorded holder.                                                      *)
LEMMA SaneKernel ==
  ASSUME KernelTypeOK, Sane, Kernel
  PROVE  Sane'
<1>1. ASSUME NEW a \in Addr, NEW i \in Inode, NEW p \in Pid, NEW st \in {"open", "listen"},
             OpenSocket(a, i, p, st)
      PROVE  Sane'
  <2>1. \A b \in Addr : socks'[b] = IF b = a THEN [state |-> st, inode |-> i, holders |-> {p}] ELSE socks[b]
    BY <1>1 DEF OpenSocket, KernelTypeOK
  <2>2. \A b \in Addr : socks[b].inode # i
    BY <1>1 DEF OpenSocket, InodeFree
  <2>3. \A j \in Inode : held'[j] = IF j = i THEN {p} ELSE held[j]
    BY <1>1 DEF OpenSocket, KernelTypeOK
  <2>4. \A b \in Addr : socks[b].inode \in Inode \cup {0}
    BY DEF KernelTypeOK, Sock
  <2> QED
    BY <2>1, <2>2, <2>3, <2>4, InodeAssumption DEF Sane
<1>2. ASSUME NEW a \in Addr, NEW p \in Pid, ShareSocket(a, p)
      PROVE  Sane'
  <2>1. \A b \in Addr :
          /\ socks'[b].state = socks[b].state /\ socks'[b].inode = socks[b].inode
          /\ socks'[b].holders = IF b = a THEN socks[b].holders \cup {p} ELSE socks[b].holders
    BY <1>2 DEF ShareSocket, KernelTypeOK, Sock
  <2>2. \A j \in Inode : held'[j] = IF j = socks[a].inode THEN held[j] \cup {p} ELSE held[j]
    BY <1>2 DEF ShareSocket, KernelTypeOK
  <2>3. \A b \in Addr : socks[b].inode \in Inode \cup {0}
    BY DEF KernelTypeOK, Sock
  <2>4. socks[a].inode # 0 /\ socks[a].inode \in Inode
    BY <1>2, <2>3 DEF ShareSocket, Sane
  <2>5. ASSUME NEW b \in Addr, socks[b].inode # 0
        PROVE  socks'[b].holders # {} /\ socks'[b].holders \subseteq held'[socks[b].inode]
    BY <2>1, <2>2, <2>3, <2>4, <2>5 DEF Sane
  <2>6. \A b \in Addr : socks'[b].holders # {} => socks'[b].inode # 0
    BY <2>1, <2>4 DEF Sane
  <2>7. \A b \in Addr : socks'[b].inode # 0 =>
          /\ socks'[b].state \in {"open", "listen"}
          /\ socks'[b].holders # {}
          /\ socks'[b].holders \subseteq held'[socks'[b].inode]
    BY <2>1, <2>5 DEF Sane
  <2>8. \A b, c \in Addr : socks'[b].inode = socks'[c].inode /\ socks'[b].inode # 0 => b = c
    <3>1. \A b \in Addr : socks'[b].inode = socks[b].inode
      BY <2>1
    <3>2. \A b, c \in Addr : socks[b].inode = socks[c].inode /\ socks[b].inode # 0 => b = c
      BY DEF Sane
    <3> QED
      BY <3>1, <3>2
  <2> QED
    BY <2>6, <2>7, <2>8 DEF Sane
<1>3. ASSUME NEW a \in Addr, NEW p \in Pid, DropSocket(a, p)
      PROVE  Sane'
  <2>1. \A b \in Addr : b # a => socks'[b] = socks[b]
    BY <1>3 DEF DropSocket, KernelTypeOK
  <2>2. \/ /\ socks'[a].state = socks[a].state /\ socks'[a].inode = socks[a].inode
           /\ socks'[a].holders = socks[a].holders \ {p} /\ socks[a].holders # {p}
           /\ p \in socks[a].holders
        \/ socks'[a].inode = 0 /\ socks'[a].holders = {}
    BY <1>3 DEF DropSocket, KernelTypeOK, Sock, NoSock
  <2>3. held' = held
    BY <1>3 DEF DropSocket
  <2> QED
    BY <2>1, <2>2, <2>3 DEF Sane
<1>4. ASSUME NEW a \in Addr, ExpireTimeWait(a)
      PROVE  Sane'
  <2>1. \A b \in Addr : socks'[b] = IF b = a THEN NoSock ELSE socks[b]
    BY <1>4 DEF ExpireTimeWait, KernelTypeOK
  <2>2. held' = held
    BY <1>4 DEF ExpireTimeWait
  <2> QED
    BY <2>1, <2>2 DEF Sane, NoSock
<1> QED
  BY <1>1, <1>2, <1>3, <1>4 DEF Kernel

(* Without reuse an inode keeps the holders it ever had, and no socket     *)
(* appears under an inode that has been held before.                       *)
LEMMA HeldGrows ==
  ASSUME KernelTypeOK, Kernel, ~InodeReuse
  PROVE  \A i \in Inode : held[i] \subseteq held'[i]
<1>1. ASSUME NEW a \in Addr, NEW j \in Inode, NEW p \in Pid, NEW st \in {"open", "listen"},
             OpenSocket(a, j, p, st)
      PROVE  \A i \in Inode : held[i] \subseteq held'[i]
  BY <1>1 DEF OpenSocket, InodeFree, KernelTypeOK
<1>2. ASSUME NEW a \in Addr, NEW p \in Pid, ShareSocket(a, p)
      PROVE  \A i \in Inode : held[i] \subseteq held'[i]
  BY <1>2 DEF ShareSocket, KernelTypeOK
<1>3. ASSUME held' = held
      PROVE  \A i \in Inode : held[i] \subseteq held'[i]
  BY <1>3
<1> QED
  BY <1>1, <1>2, <1>3 DEF Kernel, DropSocket, ExpireTimeWait

(* The connections a scan adds are built from rows that are not listening. *)
LEMMA ScanSource ==
  ASSUME NEW live, Scan(live)
  PROVE  /\ \A k \in DOMAIN known' \ DOMAIN known :
              \E r \in rows : r.state # "listen" /\ known'[k] = ToConn(r, Merge(live))
         /\ \A r \in rows : r.state # "listen" => KeyOf(ToConn(r, Merge(live))) \in current'
<1> DEFINE m == Merge(live)
           conns == {ToConn(r, m) : r \in {x \in rows : x.state # "listen"}}
           fresh == {KeyOf(c) : c \in conns} \ DOMAIN known
<1>1. current' = {KeyOf(c) : c \in conns}
  BY DEF Scan
<1>2. PICK first \in [fresh -> conns] :
        known' = [k \in DOMAIN known \cup fresh |->
                    IF k \in DOMAIN known THEN known[k] ELSE first[k]]
  BY DEF Scan, AddNew
<1>3. \A k \in DOMAIN known' \ DOMAIN known : known'[k] \in conns
  <2> HIDE DEF conns, fresh
  <2> QED BY <1>2
<1> QED
  BY <1>1, <1>3

-----------------------------------------------------------------------------
(* At the start no connection is known and the cache is empty.             *)
LEMMA HolderInit == Init => HolderKnown
BY DEF Init, NoPids, HolderKnown

(* A walk, or the cache, names a process that held the inode.              *)
LEMMA MergeHolds ==
  ASSUME TypeOK, Sane, HolderKnown, NEW live \in LiveInodePID \cup {NoPids}, NEW i \in Inode,
         Merge(live)[i] # 0
  PROVE  Merge(live)[i] \in held[i]
<1>1. Merge(live)[i] = IF live[i] # 0 THEN live[i] ELSE inodePID[i]
  BY DEF Merge
<1>2. CASE live[i] = 0
  BY <1>1, <1>2 DEF HolderKnown
<1>3. CASE live[i] # 0
  <2>1. live[i] \in Visible(i)
    BY <1>3 DEF LiveInodePID, NoPids
  <2>2. PICK a \in Addr : socks[a].inode = i /\ live[i] \in socks[a].holders
    BY <2>1 DEF Visible
  <2> QED
    BY <1>1, <1>3, <2>2, InodeAssumption DEF Sane
<1> QED
  BY <1>2, <1>3

(* Every step keeps the PIDs of the cache and of known among the holders.  *)
LEMMA HolderStep ==
  ASSUME TypeOK, Sane, HolderKnown, ~InodeReuse, Next
  PROVE  HolderKnown'
<1>1. ASSUME NEW live \in LiveInodePID \cup {NoPids}, Scan(live), held' = held
      PROVE  HolderKnown'
  <2>1. /\ DOMAIN known' = DOMAIN known \cup current'
        /\ \A k \in DOMAIN known : known'[k] = known[k]
    BY <1>1, ScanResult
  <2>2. inodePID' = Merge(live)
    BY <1>1 DEF Scan
  <2>3. \A i \in Inode : inodePID'[i] # 0 => inodePID'[i] \in held'[i]
    BY <1>1, <2>2, MergeHolds
  <2>4. ASSUME NEW k \in DOMAIN known' \ DOMAIN known, known'[k].pid # 0
        PROVE  known'[k].inode # 0 /\ known'[k].pid \in held'[known'[k].inode]
    <3>1. PICK r \in rows : known'[k] = ToConn(r, Merge(live))
      BY <1>1, ScanSource
    <3>2. /\ known'[k].inode = r.inode
          /\ known'[k].pid = IF r.inode = 0 THEN 0 ELSE Merge(live)[r.inode]
      BY <3>1 DEF ToConn
    <3>3. r.inode \in Inode \cup {0}
      BY DEF TypeOK, Row
    <3> QED
      BY <1>1, <2>4, <3>2, <3>3, MergeHolds
  <2> QED
    BY <1>1, <2>1, <2>3, <2>4 DEF HolderKnown
<1>2. CASE ResolvePIDs
  BY <1>1, <1>2 DEF ResolvePIDs, kernelVars
<1>3. CASE ResolveWithoutPIDs
  BY <1>1, <1>3 DEF ResolveWithoutPIDs, kernelVars
<1>4. CASE DetectClosed
  BY <1>4 DEF DetectClosed, kernelVars, HolderKnown
<1>5. CASE KernelStep
  <2>1. \A i \in Inode : held[i] \subseteq held'[i]
    BY <1>5, HeldGrows DEF KernelStep, TypeOK
  <2>2. \A k \in DOMAIN known : known[k].inode \in Inode \cup {0}
    BY DEF TypeOK, Conn
  <2> QED
    BY <1>5, <2>1, <2>2 DEF KernelStep, scanVars, HolderKnown
<1>6. ASSUME UNCHANGED <<held, known, inodePID>>
      PROVE  HolderKnown'
  BY <1>6 DEF HolderKnown
<1> QED
  BY <1>2, <1>3, <1>4, <1>5, <1>6
     DEF Next, kernelVars, scanVars, DumpTCP, AbandonScan, SendNew, SendClosed, EndScan, AbortSend, Stop, Cancel

(* The steps of the backend leave the kernel alone, the others keep it     *)
(* sane.                                                                   *)
LEMMA SaneStep ==
  ASSUME TypeOK, Sane, [Next]_vars
  PROVE  Sane'
<1>1. CASE KernelStep
  BY <1>1, SaneKernel DEF KernelStep, TypeOK
<1>2. ASSUME UNCHANGED <<socks, held>>
      PROVE  Sane'
  BY <1>2 DEF Sane
<1> QED
  BY <1>1, <1>2
     DEF Next, vars, kernelVars, DumpTCP, ResolvePIDs, ResolveWithoutPIDs, AbandonScan, SendNew,
         DetectClosed, SendClosed, EndScan, AbortSend, Stop, Cancel

(* In every reachable state the inodes of the table are told apart and     *)
(* its holders are recorded (Sockets).                                     *)
LEMMA KernelSane == Spec => []Sane
BY SaneInit, SaneStep, TypeCorrect, PTL DEF Spec

(* The PID of a known connection belongs to a process that held its socket. *)
THEOREM AttributionCorrect == Spec => []AttributedToHolder
<1>1. CASE InodeReuse
  <2>1. AttributedToHolder
    BY <1>1 DEF AttributedToHolder
  <2> QED
    BY <2>1, PTL
<1>2. CASE ~InodeReuse
  <2>1. TypeOK /\ Sane /\ HolderKnown /\ [Next]_vars => HolderKnown'
    <3>1. ASSUME HolderKnown, UNCHANGED vars
          PROVE  HolderKnown'
      BY <3>1 DEF vars, scanVars, HolderKnown
    <3> QED
      BY <1>2, <3>1, HolderStep
  <2>2. HolderKnown => AttributedToHolder
    BY DEF HolderKnown, AttributedToHolder
  <2> QED
    BY <2>1, <2>2, HolderInit, TypeCorrect, KernelSane, PTL DEF Spec
<1> QED
  BY <1>1, <1>2

-----------------------------------------------------------------------------
Gone(i) == \A a \in Addr : socks[a].inode # i

Tracked ==
  /\ \A k \in DOMAIN known : known[k].inode # 0 =>
       /\ held[known[k].inode] # {}
       /\ \A a \in Addr : socks[a].inode = known[k].inode =>
            AddrText(a) = k.addr /\ socks[a].state # "listen"
  /\ \A r \in rows : r.inode # 0 =>
       /\ held[r.inode] # {}
       /\ \A a \in Addr : socks[a].inode = r.inode => a = r.addr /\ socks[a].state = r.state
  /\ \A c \in pendClosed :
       c.inode # 0 => held[c.inode] # {} /\ (c.addr \notin AddrsOf(current) => Gone(c.inode))

(* While a dump is used, each known connection with a live socket has its  *)
(* row, and later its address among the current keys.                      *)
Dumped ==
  /\ pc = "dumped" => \A k \in DOMAIN known, a \in Addr :
       known[k].inode # 0 /\ socks[a].inode = known[k].inode =>
         \E r \in rows : r.addr = a /\ r.state # "listen"
  /\ pc \in {"sendNew", "sendClosed"} => \A k \in DOMAIN known :
       known[k].inode # 0 /\ k.addr \notin AddrsOf(current) => Gone(known[k].inode)

(* Before the first dump there is nothing to track.                        *)
LEMMA TrackedInit == Init => Tracked /\ Dumped
BY DEF Init, Tracked, Dumped

(* A socket found under an inode that was held before was there before,    *)
(* at the same address and in the same state.                              *)
LEMMA NoRevival ==
  ASSUME KernelTypeOK, Kernel, ~InodeReuse,
         NEW i \in Inode, held[i] # {}, NEW a \in Addr, socks'[a].inode = i
  PROVE  socks[a].inode = i /\ socks'[a].state = socks[a].state
<1>0. i # 0
  BY InodeAssumption
<1>1. ASSUME NEW b \in Addr, NEW j \in Inode, NEW p \in Pid, NEW st \in {"open", "listen"},
             OpenSocket(b, j, p, st)
      PROVE  socks[a].inode = i /\ socks'[a].state = socks[a].state
  <2>1. j # i
    BY <1>1 DEF OpenSocket, InodeFree
  <2> QED
    BY <1>1, <2>1 DEF OpenSocket, KernelTypeOK
<1>2. ASSUME NEW b \in Addr, NEW p \in Pid, ShareSocket(b, p)
      PROVE  socks[a].inode = i /\ socks'[a].state = socks[a].state
  BY <1>2 DEF ShareSocket, KernelTypeOK, Sock
<1>3. ASSUME NEW b \in Addr, NEW p \in Pid, DropSocket(b, p)
      PROVE  socks[a].inode = i /\ socks'[a].state = socks[a].state
  BY <1>0, <1>3 DEF DropSocket, NoSock, KernelTypeOK, Sock
<1>4. ASSUME NEW b \in Addr, ExpireTimeWait(b)
      PROVE  socks[a].inode = i /\ socks'[a].state = socks[a].state
  BY <1>0, <1>4 DEF ExpireTimeWait, NoSock, KernelTypeOK
<1> QED
  BY <1>1, <1>2, <1>3, <1>4 DEF Kernel

(* The kernel moves between the steps of a scan and brings no tracked      *)
(* inode back.                                                             *)
LEMMA TrackedKernel ==
  ASSUME TypeOK, Tracked, Dumped, ~InodeReuse, KernelStep
  PROVE  Tracked' /\ Dumped'
<1>1. KernelTypeOK /\ Kernel /\ UNCHANGED <<scanVars, cancelled, balance>>
  BY DEF KernelStep, TypeOK
<1>2. \A i \in Inode : held[i] # {} => held'[i] # {}
  BY <1>1, HeldGrows
<1>3. \A i \in Inode, a \in Addr : held[i] # {} /\ socks'[a].inode = i =>
        socks[a].inode = i /\ socks'[a].state = socks[a].state
  BY <1>1, NoRevival
<1>4. \A i \in Inode : held[i] # {} /\ Gone(i) => Gone(i)'
  BY <1>3 DEF Gone
<1>5. /\ \A k \in DOMAIN known : known[k].inode # 0 => known[k].inode \in Inode
      /\ \A r \in rows : r.inode # 0 => r.inode \in Inode
      /\ \A c \in pendClosed : c.inode # 0 => c.inode \in Inode
  BY DEF TypeOK, Conn, Row
<1>6. UNCHANGED <<pc, rows, current, known, pendClosed>>
  BY <1>1 DEF scanVars
<1>7. ASSUME NEW k \in DOMAIN known, known[k].inode # 0
      PROVE  /\ held'[known[k].inode] # {}
             /\ \A a \in Addr : socks'[a].inode = known[k].inode =>
                  AddrText(a) = k.addr /\ socks'[a].state # "listen"
  BY <1>2, <1>3, <1>5, <1>7 DEF Tracked
<1>8. ASSUME NEW r \in rows, r.inode # 0
      PROVE  /\ held'[r.inode] # {}
             /\ \A a \in Addr : socks'[a].inode = r.inode => a = r.addr /\ socks'[a].state = r.state
  BY <1>2, <1>3, <1>5, <1>8 DEF Tracked
<1>9. ASSUME NEW c \in pendClosed, c.inode # 0
      PROVE  held'[c.inode] # {} /\ (c.addr \notin AddrsOf(current) => Gone(c.inode)')
  BY <1>2, <1>4, <1>5, <1>9 DEF Tracked
<1>10. Tracked'
  BY <1>6, <1>7, <1>8, <1>9 DEF Tracked, AddrsOf, Gone
<1>11. ASSUME pc = "dumped", NEW k \in DOMAIN known, NEW a \in Addr,
              known[k].inode # 0, socks'[a].inode = known[k].inode
       PROVE  \E r \in rows : r.addr = a /\ r.state # "listen"
  BY <1>3, <1>5, <1>11 DEF Tracked, Dumped
<1>12. ASSUME pc \in {"sendNew", "sendClosed"}, NEW k \in DOMAIN known,
              known[k].inode # 0, k.addr \notin AddrsOf(current)
       PROVE  Gone(known[k].inode)'
  <2>1. known[k].inode \in Inode /\ held[known[k].inode] # {}
    BY <1>5, <1>12 DEF Tracked
  <2>2. Gone(known[k].inode)
    BY <1>12 DEF Dumped
  <2>3. Gone(known[k].inode)' <=> \A a \in Addr : socks'[a].inode # known[k].inode
    BY <1>6 DEF Gone
  <2> QED
    BY <1>3, <2>1, <2>2, <2>3 DEF Gone
<1>13. Dumped'
  BY <1>6, <1>11, <1>12 DEF Dumped, AddrsOf, Gone
<1> QED
  BY <1>10, <1>13

(* A dump shows every socket of the table that a known connection may      *)
(* have.                                                                   *)
LEMMA TrackedDump ==
  ASSUME TypeOK, Sane, Tracked, ~DumpMayFail, DumpTCP
  PROVE  Tracked' /\ Dumped'
<1>1. /\ rows' = RowsOf({}) /\ pc' = "dumped"
      /\ UNCHANGED <<socks, held, current, known, pendClosed>>
  BY DEF DumpTCP, FailedFamilies, kernelVars
<1>2. rows' = {[addr |-> a, inode |-> socks[a].inode, state |-> socks[a].state] :
                 a \in {x \in Addr : socks[x].state # "none"}}
  BY <1>1 DEF RowsOf
<1>3. \A r \in rows' :
        /\ r.addr \in Addr /\ r.inode = socks[r.addr].inode /\ r.state = socks[r.addr].state
  BY <1>2
<1>4. ASSUME NEW r \in rows', r.inode # 0
      PROVE  /\ held[r.inode] # {}
             /\ \A a \in Addr : socks[a].inode = r.inode => a = r.addr /\ socks[a].state = r.state
  BY <1>3, <1>4 DEF Sane
<1>5. Tracked'
  BY <1>1, <1>4 DEF Tracked, AddrsOf, Gone
<1>6. ASSUME NEW k \in DOMAIN known, NEW a \in Addr,
             known[k].inode # 0, socks[a].inode = known[k].inode
      PROVE  \E r \in rows' : r.addr = a /\ r.state # "listen"
  <2>1. socks[a].state # "listen" /\ socks[a].state # "none"
    BY <1>6 DEF Tracked, Sane
  <2>2. [addr |-> a, inode |-> socks[a].inode, state |-> socks[a].state] \in rows'
    BY <1>2, <2>1
  <2> QED
    BY <2>1, <2>2
<1>7. Dumped'
  BY <1>1, <1>6 DEF Dumped
<1> QED
  BY <1>5, <1>7

(* A scan tracks each known connection to its row, or finds its inode      *)
(* gone.                                                                   *)
LEMMA TrackedScan ==
  ASSUME TypeOK, Sane, Tracked, Dumped, pc = "dumped",
         NEW live \in LiveInodePID \cup {NoPids}, Scan(live),
         pc' = "sendNew", rows' = {}, UNCHANGED <<kernelVars, pendClosed>>, pendClosed = {}
  PROVE  Tracked' /\ Dumped'
<1> DEFINE m == Merge(live)
<1>1. /\ DOMAIN known' = DOMAIN known \cup current'
      /\ \A k \in DOMAIN known : known'[k] = known[k]
      /\ \A k \in DOMAIN known' : KeyOf(known'[k]) = k
  BY ScanResult
<1>2. /\ \A k \in DOMAIN known' \ DOMAIN known :
           \E r \in rows : r.state # "listen" /\ known'[k] = ToConn(r, m)
      /\ \A r \in rows : r.state # "listen" => KeyOf(ToConn(r, m)) \in current'
  BY ScanSource
<1> HIDE DEF m
<1>3. \A r \in rows : r.state # "listen" => AddrText(r.addr) \in AddrsOf(current')
  <2>1. \A r : KeyOf(ToConn(r, m)).addr = AddrText(r.addr)
    BY DEF ToConn, KeyOf
  <2> QED
    BY <1>2, <2>1 DEF AddrsOf
<1>4. UNCHANGED <<socks, held>>
  BY DEF kernelVars
<1>5. ASSUME NEW k \in DOMAIN known' \ DOMAIN known, known'[k].inode # 0
      PROVE  /\ held[known'[k].inode] # {}
             /\ k.addr \in AddrsOf(current')
             /\ \A a \in Addr : socks[a].inode = known'[k].inode =>
                  AddrText(a) = k.addr /\ socks[a].state # "listen"
  <2>1. PICK r \in rows : r.state # "listen" /\ known'[k] = ToConn(r, m)
    BY <1>2
  <2>2. known'[k].inode = r.inode /\ k.addr = AddrText(r.addr)
    BY <1>1, <2>1 DEF ToConn, KeyOf
  <2> QED
    BY <1>3, <1>5, <2>1, <2>2 DEF Tracked
<1>6. ASSUME NEW k \in DOMAIN known', known'[k].inode # 0
      PROVE  /\ held[known'[k].inode] # {}
             /\ \A a \in Addr : socks[a].inode = known'[k].inode =>
                  AddrText(a) = k.addr /\ socks[a].state # "listen"
  BY <1>1, <1>5, <1>6 DEF Tracked
<1>7. Tracked'
  BY <1>4, <1>6 DEF Tracked
<1>8. ASSUME NEW k \in DOMAIN known', known'[k].inode # 0, k.addr \notin AddrsOf(current')
      PROVE  Gone(known'[k].inode)
  <2>1. k \in DOMAIN known /\ known'[k] = known[k]
    BY <1>1, <1>5, <1>8
  <2>2. ASSUME NEW a \in Addr, socks[a].inode = known[k].inode
        PROVE  FALSE
    <3>1. PICK r \in rows : r.addr = a /\ r.state # "listen"
      BY <1>8, <2>1, <2>2 DEF Dumped
    <3>2. AddrText(a) = k.addr
      BY <1>8, <2>1, <2>2 DEF Tracked
    <3> QED
      BY <1>3, <1>8, <3>1, <3>2
  <2> QED
    BY <2>1, <2>2 DEF Gone
<1>9. Dumped'
  BY <1>4, <1>8 DEF Dumped, AddrsOf, Gone
<1> QED
  BY <1>7, <1>9

(* Every step keeps track of the inodes of known and closed connections.   *)
LEMMA TrackedStep ==
  ASSUME Inv, Sane, Tracked, Dumped, ~InodeReuse, ~DumpMayFail, [Next]_vars
  PROVE  Tracked' /\ Dumped'
<1>1. CASE DumpTCP
  BY <1>1, TrackedDump DEF Inv
<1>2. CASE ResolvePIDs
  BY <1>2, TrackedScan DEF ResolvePIDs, Inv, Pending
<1>3. CASE ResolveWithoutPIDs
  BY <1>3, TrackedScan DEF ResolveWithoutPIDs, Inv, Pending
<1>4. CASE DetectClosed
  <2>1. /\ DOMAIN known' = DOMAIN known \cap current
        /\ \A k \in DOMAIN known' : known'[k] = known[k]
        /\ pendClosed' = {known[k] : k \in DOMAIN known \ current}
        /\ pc = "sendNew" /\ pc' = "sendClosed"
        /\ UNCHANGED <<socks, held, rows, current>>
    BY <1>4 DEF DetectClosed, kernelVars
  <2>2. ASSUME NEW c \in pendClosed', c.inode # 0
        PROVE  held[c.inode] # {} /\ (c.addr \notin AddrsOf(current) => Gone(c.inode))
    <3>1. PICK k \in DOMAIN known \ current : c = known[k]
      BY <2>1
    <3>2. c.addr = k.addr
      BY <3>1 DEF Inv, TypeOK, KeyOf
    <3> QED
      BY <2>1, <2>2, <3>1, <3>2 DEF Tracked, Dumped
  <2>3. Tracked'
    BY <2>1, <2>2 DEF Tracked, AddrsOf, Gone
  <2>4. Dumped'
    BY <2>1 DEF Dumped, AddrsOf, Gone
  <2> QED
    BY <2>3, <2>4
<1>5. CASE KernelStep
  BY <1>5, TrackedKernel DEF Inv
<1>6. ASSUME UNCHANGED <<socks, held, known>>, rows' \subseteq rows, pendClosed' \subseteq pendClosed,
             pc' # "dumped" \/ UNCHANGED <<pc, rows>>,
             pc' \in {"sendNew", "sendClosed"} => pc = pc',
             pendClosed' = {} \/ current' = current,
             current' = current \/ pc' = "idle"
      PROVE  Tracked' /\ Dumped'
  <2>1. Tracked'
    BY <1>6 DEF Tracked, AddrsOf, Gone
  <2>2. Dumped'
    BY <1>6 DEF Dumped, AddrsOf, Gone
  <2> QED
    BY <2>1, <2>2
<1>7. CASE AbandonScan \/ SendNew \/ SendClosed \/ AbortSend \/ Stop
  BY <1>6, <1>7 DEF AbandonScan, SendNew, SendClosed, AbortSend, Stop, kernelVars
<1>8. CASE EndScan
  BY <1>6, <1>8 DEF EndScan, kernelVars
<1>9. CASE Cancel \/ UNCHANGED vars
  BY <1>6, <1>9 DEF Cancel, vars, scanVars, kernelVars
<1> QED
  BY <1>1, <1>2, <1>3, <1>4, <1>5, <1>7, <1>8, <1>9 DEF Next

(* A connection reported closed has left the kernel's table or goes on     *)
(* under another key of the same dump, when dumps do not fail and inodes   *)
(* are not reused.                                                         *)
THEOREM ClosedCorrect ==
  ASSUME ~InodeReuse, ~DumpMayFail
  PROVE  Spec => []ClosedMeansGone
<1>1. Inv /\ Sane /\ Tracked /\ Dumped /\ [Next]_vars => (Tracked /\ Dumped)'
  BY TrackedStep
<1>2. Tracked => ClosedMeansGone
  BY DEF Tracked, Gone, ClosedMeansGone
<1> QED
  BY <1>1, <1>2, TrackedInit, Invariance, KernelSane, PTL DEF Spec
=============================================================================
