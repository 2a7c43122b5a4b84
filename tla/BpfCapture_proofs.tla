------------------------- MODULE BpfCapture_proofs -------------------------
(***************************************************************************)
(* Proofs about BpfCapture, for any number of addresses, inodes, processes *)
(* and processors, rings of any size, and every failure allowed.           *)
(*                                                                         *)
(* What is open in the kernel follows from the place where Start or run is *)
(* (Resources).  The index is sound step by step.  Types need to know that *)
(* a row is turned into a connection before syncProc looks at it           *)
(* (TypeInv).  The stream is accounted for as in PollCapture_proofs, with  *)
(* at most one event to be sent at any time (AtMostOne, Accounted).        *)
(***************************************************************************)
EXTENDS BpfCapture, TLAPS

(* Every socket that a process holds has an inode number.                  *)
HeldHaveInode == \A a \in Addr : socks[a].holders # {} => socks[a].inode \in Inode

(* The kernel stays well typed: every socket entry keeps its shape         *)
(* (Sockets).                                                              *)
LEMMA KernelTypes ==
  ASSUME KernelTypeOK, Kernel
  PROVE  KernelTypeOK'
<1>1. ASSUME NEW a \in Addr, NEW i \in Inode, NEW p \in Pid, NEW st \in {"open", "listen"},
             OpenSocket(a, i, p, st)
      PROVE  KernelTypeOK'
  BY <1>1 DEF OpenSocket, KernelTypeOK, Sock, SockState
<1>2. ASSUME NEW a \in Addr, NEW p \in Pid, ShareSocket(a, p)
      PROVE  KernelTypeOK'
  BY <1>2 DEF ShareSocket, KernelTypeOK, Sock, SockState
<1>3. ASSUME NEW a \in Addr, NEW p \in Pid, DropSocket(a, p)
      PROVE  KernelTypeOK'
  BY <1>3 DEF DropSocket, NoSock, KernelTypeOK, Sock, SockState
<1>4. ASSUME NEW a \in Addr, ExpireTimeWait(a)
      PROVE  KernelTypeOK'
  BY <1>4 DEF ExpireTimeWait, NoSock, KernelTypeOK, Sock, SockState
<1> QED
  BY <1>1, <1>2, <1>3, <1>4 DEF Kernel

(* No step leaves a held socket without an inode: the last holder's close  *)
(* takes the inode away with the holder.                                   *)
LEMMA HeldInodes ==
  ASSUME KernelTypeOK, HeldHaveInode, Kernel
  PROVE  HeldHaveInode'
<1>1. ASSUME NEW a \in Addr, NEW i \in Inode, NEW p \in Pid, NEW st \in {"open", "listen"},
             OpenSocket(a, i, p, st)
      PROVE  HeldHaveInode'
  <2>1. \A b \in Addr : socks'[b] = IF b = a THEN [state |-> st, inode |-> i, holders |-> {p}] ELSE socks[b]
    BY <1>1 DEF OpenSocket, KernelTypeOK
  <2> QED
    BY <2>1 DEF HeldHaveInode
<1>2. ASSUME NEW a \in Addr, NEW p \in Pid, ShareSocket(a, p)
      PROVE  HeldHaveInode'
  <2>1. \A b \in Addr : socks'[b].inode = socks[b].inode /\ (b # a => socks'[b].holders = socks[b].holders)
    BY <1>2 DEF ShareSocket, KernelTypeOK, Sock
  <2> QED
    BY <1>2, <2>1 DEF ShareSocket, HeldHaveInode
<1>3. ASSUME NEW a \in Addr, NEW p \in Pid, DropSocket(a, p)
      PROVE  HeldHaveInode'
  <2>1. \A b \in Addr : b # a => socks'[b] = socks[b]
    BY <1>3 DEF DropSocket, KernelTypeOK
  <2>2. socks'[a].inode = socks[a].inode \/ socks'[a].holders = {}
    BY <1>3 DEF DropSocket, KernelTypeOK, Sock, NoSock
  <2> QED
    BY <1>3, <2>1, <2>2 DEF DropSocket, HeldHaveInode
<1>4. ASSUME NEW a \in Addr, ExpireTimeWait(a)
      PROVE  HeldHaveInode'
  <2>1. \A b \in Addr : socks'[b] = IF b = a THEN NoSock ELSE socks[b]
    BY <1>4 DEF ExpireTimeWait, KernelTypeOK
  <2> QED
    BY <2>1 DEF NoSock, HeldHaveInode
<1> QED
  BY <1>1, <1>2, <1>3, <1>4 DEF Kernel

Resources ==
  /\ pc = "load" => attached = {} /\ ~objsOpen /\ ~readerOpen
  /\ pc \in {"attachConnect", "attachClose", "attachAccept", "newReader"} => ~readerOpen
  /\ pc \notin Starting \cup {"detach"} => attached = {}
  /\ pc \in {"failed", "closeReader", "done"} => ~objsOpen
  /\ pc \in {"failed", "done"} => ~readerOpen

-----------------------------------------------------------------------------
(***************************************************************************)
(* Resources.                                                              *)
(***************************************************************************)

(* Start opens one thing at a time, and gives up with all of them closed.  *)
LEMMA ResourcesStart == ASSUME Resources, Start PROVE Resources'
<1>1. CASE LoadObjects
  BY <1>1 DEF LoadObjects, Resources, Starting
<1>2. CASE AttachConnect
  BY <1>2 DEF AttachConnect, AttachRequired, GiveUp, Resources, Starting, resourceVars
<1>3. CASE AttachClose
  BY <1>3 DEF AttachClose, AttachRequired, GiveUp, Resources, Starting, resourceVars
<1>4. CASE AttachAccept
  BY <1>4 DEF AttachAccept, Resources, Starting, resourceVars
<1>5. CASE NewReader
  BY <1>5 DEF NewReader, GiveUp, Resources, Starting
<1> QED
  BY <1>1, <1>2, <1>3, <1>4, <1>5 DEF Start

(* The loop of run opens nothing and closes nothing.                       *)
LEMMA ResourcesLoop ==
  ASSUME Resources, CloseLink \/ LinksClosed \/ TopGoesOn \/ Drain \/ NoTick \/ SyncProc
  PROVE  Resources'
<1>1. CASE CloseLink
  BY <1>1 DEF CloseLink, Resources, Starting, resourceVars
<1>2. CASE LinksClosed \/ TopGoesOn \/ NoTick \/ DrainStops \/ DrainTimesOut
  BY <1>2 DEF LinksClosed, TopGoesOn, NoTick, DrainStops, DrainTimesOut, Loop, Resources, Starting, resourceVars
<1>3. CASE ReadSample
  BY <1>3 DEF ReadSample, Resources, Starting, resourceVars
<1>4. CASE Emit \/ EmitAborts
  BY <1>4 DEF Emit, EmitAborts, Receive, Resources, Starting, resourceVars, tracingVars
<1>5. CASE ListTCP \/ ResolvePIDs
  BY <1>5 DEF ListTCP, ResolvePIDs, Resources, Starting, resourceVars, tracingVars
<1>6. CASE SyncRow
  BY <1>6 DEF SyncRow, Resources, Starting, resourceVars, tracingVars
<1>7. CASE SyncClosed
  BY <1>7 DEF SyncClosed, Resources, Starting, resourceVars, tracingVars
<1>8. CASE SyncSend \/ SyncAborts \/ SyncDone
  BY <1>8 DEF SyncSend, SyncAborts, SyncDone, Receive, Resources, Starting, resourceVars, tracingVars
<1> QED
  BY <1>1, <1>2, <1>3, <1>4, <1>5, <1>6, <1>7, <1>8 DEF Drain, SyncProc

(* The deferred calls close the objects, then the reader.                  *)
LEMMA ResourcesReturn == ASSUME Resources, Return PROVE Resources'
BY DEF Return, TopReturns, CloseEvents, CloseObjs, CloseReader, Loop, Resources, Starting, resourceVars

(* The kernel, the consumer and the cancellation open and close nothing.   *)
LEMMA ResourcesOther ==
  ASSUME Resources, Cancel \/ KernelStep \/ UNCHANGED vars
  PROVE  Resources'
<1>1. CASE Cancel \/ UNCHANGED vars
  BY <1>1 DEF Cancel, vars, tracingVars, resourceVars, Resources, Starting
<1>2. CASE KernelStep
  <2>1. BackendUnchanged
    BY <1>2 DEF KernelStep, Connect, Accept, Listen, CloseDescriptor, KernelOther
  <2> QED
    BY <2>1 DEF BackendUnchanged, resourceVars, Resources, Starting
<1> QED
  BY <1>1, <1>2

(* When Start has failed or run has returned, nothing is left attached,    *)
(* loaded or open (NothingLeaked).                                         *)
THEOREM Released == Spec => []NothingLeaked
<1>1. Init => Resources
  BY DEF Init, Resources, Starting
<1>2. Resources /\ [Next]_vars => Resources'
  BY ResourcesStart, ResourcesLoop, ResourcesReturn, ResourcesOther DEF Next
<1>3. Resources => NothingLeaked
  BY DEF Resources, NothingLeaked, Starting
<1> QED
  BY <1>1, <1>2, <1>3, PTL DEF Spec

-----------------------------------------------------------------------------
(***************************************************************************)
(* The index.                                                              *)
(***************************************************************************)

(* A connection that is not known yet is stored, with its inode.           *)
LEMMA RememberSound ==
  ASSUME InodeConnSound, NEW c, KeyOf(c) \notin DOMAIN known, Remember(c)
  PROVE  InodeConnSound'
<1>1. known' = [k \in DOMAIN known \cup {KeyOf(c)} |-> IF k = KeyOf(c) THEN c ELSE known[k]]
  BY DEF Remember
<1>2. \A k \in DOMAIN known : k \in DOMAIN known' /\ known'[k] = known[k]
  BY <1>1
<1>3. KeyOf(c) \in DOMAIN known' /\ known'[KeyOf(c)] = c
  BY <1>1
<1>4. CASE c.inode = 0
  BY <1>2, <1>4 DEF Remember, InodeConnSound
<1>5. CASE c.inode # 0
  <2>1. inodeConn' = [i \in DOMAIN inodeConn \cup {c.inode} |-> IF i = c.inode THEN KeyOf(c) ELSE inodeConn[i]]
    BY <1>5 DEF Remember
  <2> QED
    BY <1>2, <1>3, <2>1 DEF InodeConnSound
<1> QED
  BY <1>4, <1>5

(* A connection leaves the map, and its inode the index.                   *)
LEMMA ForgetSound ==
  ASSUME InodeConnSound, NEW k \in DOMAIN known, Forget(k)
  PROVE  InodeConnSound'
<1>1. known' = [j \in DOMAIN known \ {k} |-> known[j]]
  BY DEF Forget
<1>2. inodeConn' = [i \in DOMAIN inodeConn \ {known[k].inode} |-> inodeConn[i]]
  BY DEF Forget
<1>3. \A i \in DOMAIN inodeConn' : inodeConn[i] # k
  BY <1>2 DEF InodeConnSound
<1> QED
  BY <1>1, <1>2, <1>3 DEF InodeConnSound

(* A sample is parsed: whatever its kind, the index stays sound.           *)
LEMMA SampleSound ==
  ASSUME InodeConnSound, ReadSample
  PROVE  InodeConnSound'
<1>1. PICK u \in Cpu : IF Head(rings[u]).type = "close" THEN ParseClose(Head(rings[u])) ELSE ParseOpen(Head(rings[u]))
  BY DEF ReadSample
<1> DEFINE s == Head(rings[u])
<1>2. CASE ParseClose(s)
  <2>1. CASE s.inode \in DOMAIN inodeConn /\ inodeConn[s.inode] \in DOMAIN known
    <3> DEFINE k == inodeConn[s.inode]
    <3>1. /\ known' = [j \in DOMAIN known \ {k} |-> known[j]]
          /\ inodeConn' = [i \in DOMAIN inodeConn \ {s.inode} |-> inodeConn[i]]
      BY <1>2, <2>1 DEF ParseClose
    <3>2. k \in DOMAIN known /\ known[k].inode = s.inode
      BY <2>1 DEF InodeConnSound
    <3>3. Forget(k)
      BY <3>1, <3>2 DEF Forget
    <3> HIDE DEF k
    <3> QED
      BY <3>2, <3>3, ForgetSound
  <2>2. CASE ~(s.inode \in DOMAIN inodeConn /\ inodeConn[s.inode] \in DOMAIN known)
    BY <1>2, <2>2 DEF ParseClose, mapVars, InodeConnSound
  <2> QED
    BY <2>1, <2>2
<1>3. CASE ParseOpen(s)
  <2> DEFINE c == [addr |-> s.addr, pid |-> s.pid, inode |-> s.inode, state |-> "open"]
  <2>1. CASE KeyOf(c) \in DOMAIN known
    BY <1>3, <2>1 DEF ParseOpen, mapVars, InodeConnSound
  <2>2. CASE KeyOf(c) \notin DOMAIN known
    <3>1. Remember(c)
      BY <1>3, <2>2 DEF ParseOpen
    <3> HIDE DEF c
    <3> QED
      BY <2>2, <3>1, RememberSound
  <2> QED
    BY <2>1, <2>2
<1> QED
  BY <1>1, <1>2, <1>3

(* Every other step leaves the two maps as they are, or goes through       *)
(* Remember or Forget.                                                     *)
LEMMA IndexStep ==
  ASSUME InodeConnSound, [Next]_vars
  PROVE  InodeConnSound'
<1>1. CASE ReadSample
  BY <1>1, SampleSound
<1>2. CASE SyncRow
  <2>1. PICK c \in rowsLeft : IF KeyOf(c) \in DOMAIN known THEN UNCHANGED <<pc, mapVars, pend>> ELSE Remember(c)
    BY <1>2 DEF SyncRow
  <2>2. CASE KeyOf(c) \in DOMAIN known
    BY <2>1, <2>2 DEF mapVars, InodeConnSound
  <2>3. CASE KeyOf(c) \notin DOMAIN known
    BY <2>1, <2>3, RememberSound
  <2> QED
    BY <2>2, <2>3
<1>3. CASE SyncClosed
  BY <1>3, ForgetSound DEF SyncClosed
<1>4. CASE UNCHANGED mapVars
  BY <1>4 DEF mapVars, InodeConnSound
<1>5. Start => UNCHANGED mapVars
  BY DEF Start, LoadObjects, AttachConnect, AttachClose, AttachAccept, AttachRequired, NewReader, StartOnly
<1>6. CloseLink \/ LinksClosed \/ TopGoesOn \/ NoTick \/ Return => UNCHANGED mapVars
  BY DEF CloseLink, LinksClosed, TopGoesOn, NoTick, Return, TopReturns, CloseEvents, CloseObjs, CloseReader, Loop
<1>7. DrainStops \/ DrainTimesOut \/ Emit \/ EmitAborts => UNCHANGED mapVars
  BY DEF DrainStops, DrainTimesOut, Emit, EmitAborts, Receive, Loop
<1>8. ListTCP \/ ResolvePIDs \/ SyncSend \/ SyncAborts \/ SyncDone => UNCHANGED mapVars
  BY DEF ListTCP, ResolvePIDs, SyncSend, SyncAborts, SyncDone, Receive
<1>9. Cancel \/ KernelStep \/ UNCHANGED vars => UNCHANGED mapVars
  BY DEF Cancel, KernelStep, Connect, Accept, Listen, CloseDescriptor, KernelOther, BackendUnchanged, vars
<1> QED
  BY <1>1, <1>2, <1>3, <1>4, <1>5, <1>6, <1>7, <1>8, <1>9 DEF Next, Drain, SyncProc

(* Samples and scans keep the index of inodes and the map of connections   *)
(* together (InodeConnSound).                                              *)
THEOREM IndexSound == Spec => []InodeConnSound
<1>1. Init => InodeConnSound
  BY DEF Init, InodeConnSound
<1> QED
  BY <1>1, IndexStep, PTL DEF Spec

-----------------------------------------------------------------------------
(***************************************************************************)
(* Types.                                                                  *)
(***************************************************************************)

(* What rowsLeft holds depends on how far syncProc is.                     *)
RowsShape ==
  /\ pc = "dumped" => rowsLeft \subseteq Row
  /\ pc \in {"sync", "syncSend"} => rowsLeft \subseteq Conn

KernelVarsTyped == KernelTypeOK /\ pidByInode \in [Inode -> PidOrNone] /\ rings \in [Cpu -> Seq(Sample)]

(* A program's sample goes to a ring, or is lost.                          *)
LEMMA OutputTypes ==
  ASSUME rings \in [Cpu -> Seq(Sample)], NEW s \in Sample, Output(s)
  PROVE  rings' \in [Cpu -> Seq(Sample)]
<1>1. CASE UNCHANGED rings
  BY <1>1
<1>2. ASSUME NEW u \in Cpu, rings' = [rings EXCEPT ![u] = Append(rings[u], s)]
      PROVE  rings' \in [Cpu -> Seq(Sample)]
  <2>1. Append(rings[u], s) \in Seq(Sample)
    OBVIOUS
  <2> QED
    BY <1>2, <2>1
<1> QED
  BY <1>1, <1>2 DEF Output

(* tcp_connect and inet_csk_accept.                                        *)
LEMMA TraceOpenTypes ==
  ASSUME KernelVarsTyped, NEW prog, NEW a \in Addr, NEW inode \in Inode \cup {0}, NEW p \in Pid,
         TraceOpen(prog, a, inode, p)
  PROVE  pidByInode' \in [Inode -> PidOrNone] /\ rings' \in [Cpu -> Seq(Sample)]
<1> DEFINE s == [type |-> "new", addr |-> a, pid |-> p, inode |-> inode]
<1>1. s \in Sample
  BY DEF Sample, PidOrNone
<1>2. CASE prog \in attached
  <2>1. Output(s)
    BY <1>2 DEF TraceOpen
  <2>2. rings' \in [Cpu -> Seq(Sample)]
    <3> HIDE DEF s
    <3> QED BY <1>1, <2>1, OutputTypes DEF KernelVarsTyped
  <2>3. pidByInode' \in [Inode -> PidOrNone]
    BY <1>2 DEF TraceOpen, KernelVarsTyped, PidOrNone
  <2> QED BY <2>2, <2>3
<1>3. CASE prog \notin attached
  BY <1>3 DEF TraceOpen, KernelVarsTyped
<1> QED BY <1>2, <1>3

(* tcp_close.                                                              *)
LEMMA TraceCloseTypes ==
  ASSUME KernelVarsTyped, NEW a \in Addr, NEW inode \in Inode \cup {0}, NEW p \in Pid,
         inode # 0, TraceClose(a, inode, p)
  PROVE  pidByInode' \in [Inode -> PidOrNone] /\ rings' \in [Cpu -> Seq(Sample)]
<1> DEFINE s == [type |-> "close", addr |-> a, inode |-> inode,
                 pid |-> IF pidByInode[inode] # 0 THEN pidByInode[inode] ELSE p]
<1>1. s \in Sample
  BY DEF Sample, PidOrNone, KernelVarsTyped
<1>2. CASE "close" \in attached
  <2>1. Output(s)
    BY <1>2 DEF TraceClose
  <2>2. rings' \in [Cpu -> Seq(Sample)]
    <3> HIDE DEF s
    <3> QED BY <1>1, <2>1, OutputTypes DEF KernelVarsTyped
  <2>3. pidByInode' \in [Inode -> PidOrNone]
    BY <1>2 DEF TraceClose, KernelVarsTyped, PidOrNone
  <2> QED BY <2>2, <2>3
<1>3. CASE "close" \notin attached
  BY <1>3 DEF TraceClose, KernelVarsTyped
<1> QED BY <1>2, <1>3

(* The kernel and its programs.                                            *)
LEMMA KernelStepTypes ==
  ASSUME KernelVarsTyped, HeldHaveInode, KernelStep
  PROVE  KernelVarsTyped' /\ HeldHaveInode'
<1>1. Kernel
  BY DEF KernelStep, KernelOther, Connect, Accept, Listen, CloseDescriptor, Kernel
<1>2. KernelTypeOK' /\ HeldHaveInode'
  BY <1>1, KernelTypes, HeldInodes DEF KernelVarsTyped
<1>3. ASSUME NEW a \in Addr, NEW i \in Inode, NEW p \in Pid, Connect(a, i, p) \/ Accept(a, i, p) \/ Listen(a, i, p)
      PROVE  pidByInode' \in [Inode -> PidOrNone] /\ rings' \in [Cpu -> Seq(Sample)]
  <2>1. UNCHANGED <<pidByInode, rings>> \/ \E prog \in Programs, inode \in {0, i} : TraceOpen(prog, a, inode, p)
    BY <1>3 DEF Connect, Accept, Listen, Programs
  <2> QED
    BY <2>1, TraceOpenTypes DEF KernelVarsTyped
<1>4. ASSUME NEW a \in Addr, NEW p \in Pid, CloseDescriptor(a, p)
      PROVE  pidByInode' \in [Inode -> PidOrNone] /\ rings' \in [Cpu -> Seq(Sample)]
  <2>1. socks[a].inode \in Inode /\ socks[a].inode # 0
    BY <1>4, InodeAssumption DEF CloseDescriptor, DropSocket, HeldHaveInode
  <2>2. UNCHANGED <<pidByInode, rings>> \/ TraceClose(a, socks[a].inode, p)
    BY <1>4 DEF CloseDescriptor
  <2> QED
    BY <2>1, <2>2, TraceCloseTypes DEF KernelVarsTyped
<1> QED
  BY <1>2, <1>3, <1>4 DEF KernelStep, KernelOther, KernelVarsTyped

MapsTyped ==
  /\ DOMAIN known \subseteq Key
  /\ \A k \in DOMAIN known : known[k] \in Conn /\ KeyOf(known[k]) = k
  /\ DOMAIN inodeConn \subseteq Inode /\ \A i \in DOMAIN inodeConn : inodeConn[i] \in Key

(* The key of a connection is a key.                                       *)
LEMMA KeyType ==
  ASSUME NEW c \in Conn
  PROVE  KeyOf(c) \in Key
BY DEF Conn, Key, KeyOf

(* A connection is stored under its own key.                               *)
LEMMA RememberTypes ==
  ASSUME MapsTyped, NEW c \in Conn, Remember(c)
  PROVE  MapsTyped'
<1>1. KeyOf(c) \in Key
  BY KeyType
<1>2. known' = [k \in DOMAIN known \cup {KeyOf(c)} |-> IF k = KeyOf(c) THEN c ELSE known[k]]
  BY DEF Remember
<1>3. DOMAIN known' \subseteq Key /\ \A k \in DOMAIN known' : known'[k] \in Conn /\ KeyOf(known'[k]) = k
  BY <1>1, <1>2 DEF MapsTyped
<1>4. CASE c.inode = 0
  BY <1>3, <1>4 DEF Remember, MapsTyped
<1>5. CASE c.inode # 0
  <2>1. inodeConn' = [i \in DOMAIN inodeConn \cup {c.inode} |-> IF i = c.inode THEN KeyOf(c) ELSE inodeConn[i]]
    BY <1>5 DEF Remember
  <2>2. c.inode \in Inode
    BY <1>5 DEF Conn
  <2> QED
    BY <1>1, <1>3, <2>1, <2>2 DEF MapsTyped
<1> QED
  BY <1>4, <1>5

(* Every sample gives a well typed event and leaves well typed maps.       *)
LEMMA SampleTypes ==
  ASSUME MapsTyped, NEW s \in Sample,
         IF s.type = "close" THEN ParseClose(s) ELSE ParseOpen(s)
  PROVE  MapsTyped' /\ pend' \subseteq Event
<1>1. s.addr \in Addr /\ s.pid \in PidOrNone /\ s.inode \in Inode \cup {0}
  BY DEF Sample
<1>2. \A p \in PidOrNone : [addr |-> s.addr, pid |-> p] \in Key
  BY <1>1 DEF Key
<1>3. CASE ParseClose(s)
  <2>1. CASE s.inode \in DOMAIN inodeConn /\ inodeConn[s.inode] \in DOMAIN known
    <3>1. known[inodeConn[s.inode]].pid \in PidOrNone
      BY <2>1 DEF MapsTyped, Conn
    <3>2. pend' \subseteq Event
      BY <1>2, <1>3, <2>1, <3>1 DEF ParseClose, Event
    <3>3. MapsTyped'
      BY <1>3, <2>1 DEF ParseClose, MapsTyped
    <3> QED
      BY <3>2, <3>3
  <2>2. CASE ~(s.inode \in DOMAIN inodeConn /\ inodeConn[s.inode] \in DOMAIN known)
    <3>1. pend' \subseteq Event
      BY <1>1, <1>2, <1>3, <2>2 DEF ParseClose, Event
    <3>2. MapsTyped'
      BY <1>3, <2>2 DEF ParseClose, MapsTyped, mapVars
    <3> QED
      BY <3>1, <3>2
  <2> QED
    BY <2>1, <2>2
<1>4. CASE ParseOpen(s)
  <2> DEFINE c == [addr |-> s.addr, pid |-> s.pid, inode |-> s.inode, state |-> "open"]
  <2>1. c \in Conn
    BY <1>1 DEF Conn, SockState
  <2>2. /\ pend' = {[type |-> "new", key |-> KeyOf(c)]}
        /\ IF KeyOf(c) \in DOMAIN known THEN UNCHANGED mapVars ELSE Remember(c)
    BY <1>4 DEF ParseOpen
  <2> HIDE DEF c
  <2>3. pend' \subseteq Event
    BY <2>1, <2>2, KeyType DEF Event
  <2>4. CASE UNCHANGED mapVars
    BY <2>3, <2>4 DEF mapVars, MapsTyped
  <2>5. CASE Remember(c)
    BY <2>1, <2>3, <2>5, RememberTypes
  <2> QED
    BY <2>2, <2>4, <2>5
<1> QED
  BY <1>3, <1>4

(* Receiving an event keeps the balance a function from keys to integers.  *)
LEMMA ReceiveTypes ==
  ASSUME pend \subseteq Event, balance \in [Key -> Int], Receive
  PROVE  balance' \in [Key -> Int]
<1>1. PICK e \in pend : balance' = IF cancelled \/ sampled THEN balance
                                   ELSE [balance EXCEPT ![e.key] = balance[e.key] + (IF e.type = "new" THEN 1 ELSE -1)]
  BY DEF Receive
<1>2. e.key \in Key
  BY DEF Event
<1> DEFINE d == IF e.type = "new" THEN 1 ELSE -1
<1>3. d \in Int
  OBVIOUS
<1> HIDE DEF d
<1>4. CASE cancelled \/ sampled
  BY <1>1, <1>4
<1>5. CASE ~(cancelled \/ sampled)
  <2>1. balance' = [balance EXCEPT ![e.key] = balance[e.key] + d]
    BY <1>1, <1>5 DEF d
  <2> QED
    BY <1>2, <1>3, <2>1
<1> QED
  BY <1>4, <1>5

(* A dump consists of rows, and rows become connections.                   *)
LEMMA RowTypes ==
  ASSUME KernelTypeOK, pidByInode \in [Inode -> PidOrNone]
  PROVE  /\ \A failed : RowsOf(failed) \subseteq Row
         /\ \A live \in LiveInodePID \cup {NoPids}, r \in Row : ToConn(r, MergePids(live)) \in Conn
<1>1. \A failed : RowsOf(failed) \subseteq Row
  BY DEF RowsOf, Row, KernelTypeOK, Sock
<1>2. ASSUME NEW live \in LiveInodePID \cup {NoPids}, NEW r \in Row
      PROVE  ToConn(r, MergePids(live)) \in Conn
  <2>1. MergePids(live) \in [Inode -> PidOrNone]
    BY DEF MergePids, LiveInodePID, NoPids, PidOrNone
  <2> HIDE DEF MergePids
  <2> QED
    BY <2>1, ViewAssumption DEF Row, ToConn, ProcText, Conn, PidOrNone
<1> QED
  BY <1>1, <1>2

PcType == Starting \cup {"failed", "detach", "top", "drain", "emit", "tick", "dumped", "sync",
                         "syncSend", "closeEvents", "closeObjs", "closeReader", "done"}

FlagsTyped ==
  /\ attached \subseteq Programs /\ objsOpen \in BOOLEAN /\ readerOpen \in BOOLEAN
  /\ muHeld \in BOOLEAN /\ cancelled \in BOOLEAN /\ sampled \in BOOLEAN

StreamTyped ==
  /\ current \subseteq Key /\ pend \subseteq Event /\ connected \subseteq Inode
  /\ rowsLeft \subseteq Row \cup Conn /\ RowsShape
  /\ balance \in [Key -> Int]

TypeInv == KernelVarsTyped /\ HeldHaveInode /\ pc \in PcType /\ FlagsTyped /\ MapsTyped /\ StreamTyped

(* The types hold at the start.                                            *)
LEMMA TypeInit == Init => TypeInv
<1> SUFFICES ASSUME Init PROVE TypeInv
  OBVIOUS
<1>1. KernelTypeOK
  BY DEF Init, KernelInit, KernelTypeOK, Sock, SockState, NoSock
<1>2. HeldHaveInode
  BY DEF Init, KernelInit, NoSock, HeldHaveInode
<1>3. pidByInode \in [Inode -> PidOrNone]
  BY DEF Init, NoPids, PidOrNone
<1>4. rings \in [Cpu -> Seq(Sample)]
  BY DEF Init
<1>5. DOMAIN known = {} /\ DOMAIN inodeConn = {}
  BY DEF Init
<1>6. MapsTyped
  BY <1>5 DEF MapsTyped
<1>7. FlagsTyped /\ pc \in PcType
  BY DEF Init, FlagsTyped, PcType, Starting
<1>8. StreamTyped
  BY DEF Init, StreamTyped, RowsShape
<1> QED
  BY <1>1, <1>2, <1>3, <1>4, <1>6, <1>7, <1>8 DEF TypeInv, KernelVarsTyped

(* The steps of Start and run that touch neither maps nor rows.            *)
LEMMA TypesControl ==
  ASSUME TypeInv, Start \/ CloseLink \/ LinksClosed \/ TopGoesOn \/ NoTick \/ Return \/ DrainStops \/ DrainTimesOut \/ Cancel
  PROVE  TypeInv'
<1>1. UNCHANGED <<socks, held, pidByInode, rings, known, inodeConn, rowsLeft, current, pend, connected, balance>>
  BY DEF Start, LoadObjects, AttachConnect, AttachClose, AttachAccept, AttachRequired, NewReader, StartOnly,
         CloseLink, LinksClosed, TopGoesOn, NoTick, Return, TopReturns, CloseEvents, CloseObjs, CloseReader,
         DrainStops, DrainTimesOut, Cancel, Loop, RunOnly, envVars, kernelVars, tracingVars, mapVars, syncVars, histVars
<1>2. KernelVarsTyped' /\ HeldHaveInode' /\ MapsTyped'
  BY <1>1 DEF TypeInv, KernelVarsTyped, KernelTypeOK, HeldHaveInode, MapsTyped
<1>3. CASE Start
  <2>1. pc' \in Starting \cup {"failed", "detach"} /\ UNCHANGED <<muHeld, cancelled, sampled>>
    BY <1>3 DEF Start, LoadObjects, AttachConnect, AttachClose, AttachAccept, AttachRequired, NewReader, StartOnly,
                GiveUp, Starting, envVars, histVars
  <2>2. attached' \subseteq Programs /\ objsOpen' \in BOOLEAN /\ readerOpen' \in BOOLEAN
    BY <1>3 DEF Start, LoadObjects, AttachConnect, AttachClose, AttachAccept, AttachRequired, NewReader,
                GiveUp, resourceVars, Programs, TypeInv, FlagsTyped
  <2> QED
    BY <1>1, <1>2, <2>1, <2>2 DEF TypeInv, FlagsTyped, StreamTyped, RowsShape, PcType, Starting
<1>4. CASE CloseLink
  BY <1>1, <1>2, <1>4 DEF CloseLink, RunOnly, envVars, resourceVars, histVars, TypeInv, FlagsTyped, StreamTyped, RowsShape
<1>5. CASE LinksClosed \/ TopGoesOn \/ NoTick \/ TopReturns \/ CloseEvents \/ DrainStops \/ DrainTimesOut
  <2>1. pc' \in {"top", "drain", "tick", "closeEvents", "closeObjs"} /\ UNCHANGED <<attached, objsOpen, readerOpen, muHeld, cancelled, sampled>>
    BY <1>5 DEF LinksClosed, TopGoesOn, NoTick, TopReturns, CloseEvents, DrainStops, DrainTimesOut, Loop, RunOnly,
                envVars, resourceVars, histVars
  <2> QED
    BY <1>1, <1>2, <2>1 DEF TypeInv, FlagsTyped, StreamTyped, RowsShape, PcType
<1>6. CASE CloseObjs \/ CloseReader
  BY <1>1, <1>2, <1>6 DEF CloseObjs, CloseReader, RunOnly, envVars, histVars, TypeInv, FlagsTyped, StreamTyped, RowsShape, PcType
<1>7. CASE Cancel
  BY <1>1, <1>2, <1>7 DEF Cancel, tracingVars, resourceVars, histVars, TypeInv, FlagsTyped, StreamTyped, RowsShape
<1> QED
  BY <1>3, <1>4, <1>5, <1>6, <1>7 DEF Return

(* Reading a sample and sending it.                                        *)
LEMMA TypesDrain ==
  ASSUME TypeInv, ReadSample \/ Emit \/ EmitAborts
  PROVE  TypeInv'
<1>1. CASE ReadSample
  <2>1. PICK u \in Cpu :
          /\ rings[u] # <<>>
          /\ rings' = [rings EXCEPT ![u] = Tail(rings[u])]
          /\ IF Head(rings[u]).type = "close" THEN ParseClose(Head(rings[u])) ELSE ParseOpen(Head(rings[u]))
    BY <1>1 DEF ReadSample
  <2>2. rings[u] \in Seq(Sample)
    BY DEF TypeInv, KernelVarsTyped
  <2>3. Head(rings[u]) \in Sample /\ Tail(rings[u]) \in Seq(Sample)
    BY <2>1, <2>2
  <2>4. rings' \in [Cpu -> Seq(Sample)]
    BY <2>1, <2>3 DEF TypeInv, KernelVarsTyped
  <2>5. MapsTyped' /\ pend' \subseteq Event
    BY <2>1, <2>3, SampleTypes DEF TypeInv
  <2>6. UNCHANGED <<socks, held, pidByInode>>
    BY <1>1 DEF ReadSample, envVars
  <2>7. KernelVarsTyped' /\ HeldHaveInode'
    BY <2>4, <2>6 DEF TypeInv, KernelVarsTyped, KernelTypeOK, HeldHaveInode
  <2>8. FlagsTyped' /\ pc' \in PcType
    BY <1>1 DEF ReadSample, envVars, resourceVars, TypeInv, FlagsTyped, PcType
  <2>9. StreamTyped'
    BY <1>1, <2>5 DEF ReadSample, syncVars, TypeInv, StreamTyped, RowsShape
  <2> QED
    BY <2>5, <2>7, <2>8, <2>9 DEF TypeInv
<1>2. CASE Emit
  <2>1. balance' \in [Key -> Int]
    BY <1>2, ReceiveTypes DEF Emit, TypeInv, StreamTyped
  <2>2. KernelVarsTyped' /\ HeldHaveInode' /\ MapsTyped'
    BY <1>2 DEF Emit, Receive, envVars, tracingVars, mapVars, TypeInv, KernelVarsTyped, KernelTypeOK, HeldHaveInode, MapsTyped
  <2> QED
    BY <1>2, <2>1, <2>2 DEF Emit, Receive, envVars, tracingVars, resourceVars, syncVars, TypeInv, FlagsTyped, StreamTyped, RowsShape, PcType
<1>3. CASE EmitAborts
  <2>1. KernelVarsTyped' /\ HeldHaveInode' /\ MapsTyped'
    BY <1>3 DEF EmitAborts, envVars, tracingVars, mapVars, TypeInv, KernelVarsTyped, KernelTypeOK, HeldHaveInode, MapsTyped
  <2> QED
    BY <1>3, <2>1 DEF EmitAborts, envVars, tracingVars, resourceVars, syncVars, histVars, TypeInv, FlagsTyped, StreamTyped, RowsShape, PcType
<1> QED
  BY <1>1, <1>2, <1>3

(* One step of syncProc.                                                   *)
LEMMA TypesSync ==
  ASSUME TypeInv, SyncProc
  PROVE  TypeInv'
<1>1. KernelVarsTyped' /\ HeldHaveInode'
  <2>1. UNCHANGED <<socks, held, pidByInode, rings>>
    BY DEF SyncProc, ListTCP, ResolvePIDs, SyncRow, SyncClosed, SyncSend, SyncAborts, SyncDone, Receive, envVars, tracingVars
  <2> QED
    BY <2>1 DEF TypeInv, KernelVarsTyped, KernelTypeOK, HeldHaveInode
<1>2. FlagsTyped' /\ pc' \in PcType
  BY DEF SyncProc, ListTCP, ResolvePIDs, SyncRow, SyncClosed, SyncSend, SyncAborts, SyncDone, Receive,
         envVars, tracingVars, resourceVars, histVars, TypeInv, FlagsTyped, PcType
<1>3. CASE ListTCP
  <2>1. rowsLeft' \subseteq Row
    BY <1>3, RowTypes DEF ListTCP, TypeInv, KernelVarsTyped
  <2> QED
    BY <1>1, <1>2, <1>3, <2>1 DEF ListTCP, mapVars, histVars, TypeInv, MapsTyped, StreamTyped, RowsShape
<1>4. CASE ResolvePIDs
  <2>1. PICK live \in LiveInodePID \cup {NoPids} :
          rowsLeft' = {ToConn(r, MergePids(live)) : r \in {x \in rowsLeft : x.state # "listen"}}
    BY <1>4 DEF ResolvePIDs
  <2>2. rowsLeft \subseteq Row
    BY <1>4 DEF ResolvePIDs, TypeInv, StreamTyped, RowsShape
  <2>3. rowsLeft' \subseteq Conn
    BY <2>1, <2>2, RowTypes DEF TypeInv, KernelVarsTyped
  <2> QED
    BY <1>1, <1>2, <1>4, <2>3 DEF ResolvePIDs, mapVars, histVars, TypeInv, MapsTyped, StreamTyped, RowsShape
<1>5. CASE SyncRow
  <2>1. PICK c \in rowsLeft :
          /\ rowsLeft' = rowsLeft \ {c}
          /\ current' = current \cup {KeyOf(c)}
          /\ \/ UNCHANGED <<pc, mapVars, pend>>
             \/ Remember(c) /\ pend' = {[type |-> "new", key |-> KeyOf(c)]} /\ pc' = "syncSend"
    BY <1>5 DEF SyncRow
  <2>2. c \in Conn /\ KeyOf(c) \in Key /\ rowsLeft \subseteq Conn
    BY <1>5, KeyType DEF SyncRow, TypeInv, StreamTyped, RowsShape
  <2>3. MapsTyped'
    <3>1. CASE UNCHANGED mapVars
      BY <3>1 DEF mapVars, TypeInv, MapsTyped
    <3>2. CASE Remember(c)
      BY <2>2, <3>2, RememberTypes DEF TypeInv
    <3> QED BY <2>1, <3>1, <3>2
  <2>4. pend' \subseteq Event
    BY <2>1, <2>2 DEF Event, TypeInv, StreamTyped
  <2>5. connected' = connected /\ balance' = balance
    BY <1>5 DEF SyncRow, histVars
  <2> QED
    BY <1>1, <1>2, <2>1, <2>2, <2>3, <2>4, <2>5 DEF TypeInv, StreamTyped, RowsShape
<1>6. CASE SyncClosed
  <2>1. PICK k \in DOMAIN known \ current : Forget(k) /\ pend' = {[type |-> "close", key |-> k]}
    BY <1>6 DEF SyncClosed
  <2>2. MapsTyped'
    BY <2>1 DEF Forget, TypeInv, MapsTyped
  <2>3. pend' \subseteq Event
    BY <2>1 DEF Event, TypeInv, MapsTyped
  <2> QED
    BY <1>1, <1>2, <1>6, <2>2, <2>3 DEF SyncClosed, syncVars, histVars, TypeInv, StreamTyped, RowsShape
<1>7. CASE SyncSend
  <2>1. balance' \in [Key -> Int]
    BY <1>7, ReceiveTypes DEF SyncSend, TypeInv, StreamTyped
  <2> QED
    BY <1>1, <1>2, <1>7, <2>1 DEF SyncSend, Receive, syncVars, mapVars, TypeInv, MapsTyped, StreamTyped, RowsShape
<1>8. CASE SyncAborts \/ SyncDone
  BY <1>1, <1>2, <1>8 DEF SyncAborts, SyncDone, mapVars, histVars, TypeInv, MapsTyped, StreamTyped, RowsShape
<1> QED
  BY <1>3, <1>4, <1>5, <1>6, <1>7, <1>8 DEF SyncProc

(* The kernel's steps, and stuttering.                                     *)
LEMMA TypesKernel ==
  ASSUME TypeInv, KernelStep \/ UNCHANGED vars
  PROVE  TypeInv'
<1>1. CASE KernelStep
  <2>1. KernelVarsTyped' /\ HeldHaveInode'
    BY <1>1, KernelStepTypes DEF TypeInv
  <2>2. BackendUnchanged /\ connected' \subseteq Inode
    BY <1>1 DEF KernelStep, Connect, Accept, Listen, CloseDescriptor, KernelOther, TypeInv, StreamTyped
  <2> QED
    BY <2>1, <2>2 DEF BackendUnchanged, resourceVars, mapVars, syncVars, TypeInv, FlagsTyped, MapsTyped, StreamTyped, RowsShape
<1>2. CASE UNCHANGED vars
  BY <1>2 DEF vars, envVars, tracingVars, resourceVars, mapVars, syncVars, histVars, TypeInv, KernelVarsTyped, KernelTypeOK,
              HeldHaveInode, FlagsTyped, MapsTyped, StreamTyped, RowsShape
<1> QED
  BY <1>1, <1>2

(* The types hold in every reachable state.                                *)
LEMMA Types == Spec => []TypeInv
<1>1. TypeInv /\ [Next]_vars => TypeInv'
  BY TypesControl, TypesDrain, TypesSync, TypesKernel DEF Next, Drain
<1> QED
  BY <1>1, TypeInit, PTL DEF Spec

(* Samples, rows, maps and events keep their shapes, whichever of them is  *)
(* made from which.                                                        *)
THEOREM TypeCorrect == Spec => []TypeOK
<1>1. TypeInv => TypeOK
  BY DEF TypeInv, KernelVarsTyped, FlagsTyped, MapsTyped, StreamTyped, PcType, TypeOK
<1> QED
  BY <1>1, Types, PTL

-----------------------------------------------------------------------------
(***************************************************************************)
(* The stream.                                                             *)
(***************************************************************************)

PendingKeys(kind) == {e.key : e \in {x \in pend : x.type = kind}}

Expected == (DOMAIN known \ PendingKeys("new")) \cup PendingKeys("close")

AtMostOne ==
  /\ pc \notin {"emit", "syncSend"} => pend = {}
  /\ pc = "emit" => sampled
  /\ pc = "syncSend" => \E e \in Event : pend = {e} /\ (e.type = "new" <=> e.key \in DOMAIN known)

Accounted ==
  ~(cancelled \/ sampled) => balance = [k \in Key |-> IF k \in Expected THEN 1 ELSE 0]

FeedInv == TypeInv /\ AtMostOne /\ Accounted

(* The steps that touch neither the maps nor the stream.                   *)
QuietStep == Start \/ CloseLink \/ LinksClosed \/ TopGoesOn \/ NoTick \/ Return \/ DrainStops \/ DrainTimesOut
               \/ Cancel \/ KernelStep \/ ListTCP \/ ResolvePIDs \/ SyncDone \/ UNCHANGED vars

(* They leave what is known, to be sent and received as it is.             *)
LEMMA Quiet ==
  ASSUME QuietStep
  PROVE  /\ UNCHANGED <<known, pend, balance, sampled>>
         /\ cancelled => cancelled'
         /\ pc' = pc \/ (pc \notin {"emit", "syncSend"} /\ pc' \notin {"emit", "syncSend"})
<1>1. CASE Start \/ CloseLink
  BY <1>1 DEF Start, LoadObjects, AttachConnect, AttachClose, AttachAccept, AttachRequired, NewReader, StartOnly,
              GiveUp, CloseLink, RunOnly, envVars, mapVars, histVars
<1>2. CASE LinksClosed \/ TopGoesOn \/ NoTick \/ Return \/ DrainStops \/ DrainTimesOut
  BY <1>2 DEF LinksClosed, TopGoesOn, NoTick, Return, TopReturns, CloseEvents, CloseObjs, CloseReader,
              DrainStops, DrainTimesOut, Loop, RunOnly, envVars, mapVars, histVars
<1>3. CASE Cancel \/ UNCHANGED vars
  BY <1>3 DEF Cancel, vars, envVars, mapVars, histVars
<1>4. CASE KernelStep
  BY <1>4 DEF KernelStep, Connect, Accept, Listen, CloseDescriptor, KernelOther, BackendUnchanged, mapVars
<1>5. CASE ListTCP \/ ResolvePIDs \/ SyncDone
  BY <1>5 DEF ListTCP, ResolvePIDs, SyncDone, envVars, mapVars, histVars
<1> QED
  BY <1>1, <1>2, <1>3, <1>4, <1>5 DEF QuietStep

(* What a received event finds on the consumer's list, as long as no       *)
(* sample has come: nothing under its key for a "new", one entry for a     *)
(* "close"; and what it leaves there.                                      *)
LEMMA Delivery ==
  ASSUME FeedInv, SyncSend, ~(cancelled \/ sampled)
  PROVE  \E e \in Event :
           /\ pend = {e} /\ e.key \in Key
           /\ balance[e.key] = (IF e.type = "new" THEN 0 ELSE 1)
           /\ balance' = [balance EXCEPT ![e.key] = IF e.type = "new" THEN 1 ELSE 0]
           /\ (e.type = "new" <=> e.key \in DOMAIN known)
<1>1. PICK e \in Event : pend = {e} /\ (e.type = "new" <=> e.key \in DOMAIN known)
  BY DEF SyncSend, FeedInv, AtMostOne
<1>2. e.key \in Key /\ e.type \in {"new", "close"}
  BY DEF Event
<1>3. balance = [k \in Key |-> IF k \in Expected THEN 1 ELSE 0]
  BY DEF FeedInv, Accounted
<1>4. balance' = [balance EXCEPT ![e.key] = balance[e.key] + (IF e.type = "new" THEN 1 ELSE -1)]
  BY <1>1 DEF SyncSend, Receive
<1>5. CASE e.type = "new"
  <2>1. e.key \notin Expected
    BY <1>1, <1>5 DEF Expected, PendingKeys
  <2>2. balance[e.key] = 0
    BY <1>2, <1>3, <2>1
  <2>3. balance' = [balance EXCEPT ![e.key] = 1]
    BY <1>4, <1>5, <2>2
  <2> QED
    BY <1>1, <1>2, <1>5, <2>2, <2>3
<1>6. CASE e.type = "close"
  <2>1. e.key \in Expected
    BY <1>1, <1>6 DEF Expected, PendingKeys
  <2>2. balance[e.key] = 1
    BY <1>2, <1>3, <2>1
  <2>3. balance' = [balance EXCEPT ![e.key] = 0]
    BY <1>4, <1>6, <2>2
  <2> QED
    BY <1>1, <1>2, <1>6, <2>2, <2>3
<1> QED
  BY <1>2, <1>5, <1>6

(* At every point there is at most one event to be sent, and it says what  *)
(* known says of its key.                                                  *)
LEMMA AtMostOneStep ==
  ASSUME FeedInv, [Next]_vars
  PROVE  AtMostOne'
<1>1. CASE QuietStep
  BY <1>1, Quiet DEF FeedInv, AtMostOne
<1>2. CASE ReadSample
  BY <1>2 DEF ReadSample, AtMostOne
<1>3. CASE Emit \/ EmitAborts \/ SyncSend \/ SyncAborts
  BY <1>3 DEF Emit, EmitAborts, SyncSend, SyncAborts, Receive, AtMostOne
<1>4. CASE SyncRow
  <2>1. PICK c \in rowsLeft :
          IF KeyOf(c) \in DOMAIN known
            THEN UNCHANGED <<pc, mapVars, pend>>
            ELSE Remember(c) /\ pend' = {[type |-> "new", key |-> KeyOf(c)]} /\ pc' = "syncSend"
    BY <1>4 DEF SyncRow
  <2>2. CASE KeyOf(c) \in DOMAIN known
    BY <1>4, <2>1, <2>2 DEF SyncRow, FeedInv, AtMostOne
  <2>3. CASE KeyOf(c) \notin DOMAIN known
    <3>1. KeyOf(c) \in Key
      BY <1>4, KeyType DEF SyncRow, FeedInv, TypeInv, StreamTyped, RowsShape
    <3>2. KeyOf(c) \in DOMAIN known'
      BY <2>1, <2>3 DEF Remember
    <3>3. [type |-> "new", key |-> KeyOf(c)] \in Event
      BY <3>1 DEF Event
    <3> QED
      BY <2>1, <2>3, <3>2, <3>3 DEF AtMostOne
  <2> QED
    BY <2>2, <2>3
<1>5. CASE SyncClosed
  <2>1. PICK k \in DOMAIN known \ current : Forget(k) /\ pend' = {[type |-> "close", key |-> k]}
    BY <1>5 DEF SyncClosed
  <2>2. k \in Key /\ k \notin DOMAIN known'
    BY <2>1 DEF Forget, FeedInv, TypeInv, MapsTyped
  <2>3. [type |-> "close", key |-> k] \in Event
    BY <2>2 DEF Event
  <2> QED
    BY <1>5, <2>1, <2>2, <2>3 DEF SyncClosed, AtMostOne
<1> QED
  BY <1>1, <1>2, <1>3, <1>4, <1>5 DEF Next, QuietStep, Drain, SyncProc

(* With one event to be sent, what is shown differs from known by its key. *)
LEMMA ExpectedNew ==
  ASSUME NEW k, pend' = {[type |-> "new", key |-> k]}
  PROVE  Expected' = DOMAIN known' \ {k}
<1> DEFINE e == [type |-> "new", key |-> k]
<1>1. e.type = "new" /\ e.key = k
  OBVIOUS
<1>2. pend' = {e}
  OBVIOUS
<1> HIDE DEF e
<1> QED
  BY <1>1, <1>2 DEF Expected, PendingKeys

(* The same for a "close".                                                 *)
LEMMA ExpectedClose ==
  ASSUME NEW k, pend' = {[type |-> "close", key |-> k]}
  PROVE  Expected' = DOMAIN known' \cup {k}
<1> DEFINE e == [type |-> "close", key |-> k]
<1>1. e.type = "close" /\ e.key = k
  OBVIOUS
<1>2. pend' = {e}
  OBVIOUS
<1> HIDE DEF e
<1> QED
  BY <1>1, <1>2 DEF Expected, PendingKeys

(* Every step keeps the account: shown, pending and known agree.           *)
LEMMA AccountedStep ==
  ASSUME FeedInv, [Next]_vars
  PROVE  Accounted'
<1> SUFFICES ASSUME ~(cancelled' \/ sampled')
             PROVE  balance' = [k \in Key |-> IF k \in Expected' THEN 1 ELSE 0]
  BY DEF Accounted
<1>1. CASE QuietStep
  BY <1>1, Quiet DEF FeedInv, Accounted, Expected, PendingKeys
<1>2. CASE ReadSample
  BY <1>2 DEF ReadSample
<1>3. CASE Emit \/ EmitAborts
  BY <1>3 DEF Emit, EmitAborts, Receive, envVars, histVars, FeedInv, AtMostOne
<1>4. CASE SyncAborts
  BY <1>4 DEF SyncAborts, envVars
<1>5. ASSUME SyncRow \/ SyncClosed \/ SyncSend
      PROVE  ~(cancelled \/ sampled) /\ balance = [k \in Key |-> IF k \in Expected THEN 1 ELSE 0]
  BY <1>5 DEF SyncRow, SyncClosed, SyncSend, Receive, envVars, histVars, FeedInv, Accounted
<1>6. CASE SyncRow
  <2>1. PICK c \in rowsLeft :
          IF KeyOf(c) \in DOMAIN known
            THEN UNCHANGED <<pc, mapVars, pend>>
            ELSE Remember(c) /\ pend' = {[type |-> "new", key |-> KeyOf(c)]} /\ pc' = "syncSend"
    BY <1>6 DEF SyncRow
  <2>2. pend = {} /\ balance' = balance
    BY <1>6 DEF SyncRow, histVars, FeedInv, AtMostOne
  <2>3. CASE KeyOf(c) \in DOMAIN known
    BY <1>5, <1>6, <2>1, <2>2, <2>3 DEF mapVars, Expected, PendingKeys
  <2>4. CASE KeyOf(c) \notin DOMAIN known
    <3>1. DOMAIN known' = DOMAIN known \cup {KeyOf(c)}
      BY <2>1, <2>4 DEF Remember
    <3>2. Expected' = DOMAIN known' \ {KeyOf(c)}
      BY <2>1, <2>4, ExpectedNew
    <3>3. Expected' = Expected
      BY <2>2, <2>4, <3>1, <3>2 DEF Expected, PendingKeys
    <3> QED
      BY <1>5, <1>6, <2>2, <3>3
  <2> QED
    BY <2>3, <2>4
<1>7. CASE SyncClosed
  <2>1. PICK k \in DOMAIN known \ current : Forget(k) /\ pend' = {[type |-> "close", key |-> k]}
    BY <1>7 DEF SyncClosed
  <2>2. pend = {} /\ balance' = balance
    BY <1>7 DEF SyncClosed, histVars, FeedInv, AtMostOne
  <2>3. DOMAIN known' = DOMAIN known \ {k}
    BY <2>1 DEF Forget
  <2>4. Expected' = DOMAIN known' \cup {k}
    BY <2>1, ExpectedClose
  <2>5. Expected' = Expected
    BY <2>1, <2>2, <2>3, <2>4 DEF Expected, PendingKeys
  <2> QED
    BY <1>5, <1>7, <2>2, <2>5
<1>8. CASE SyncSend
  <2>1. PICK e \in Event :
           /\ pend = {e} /\ e.key \in Key
           /\ balance' = [balance EXCEPT ![e.key] = IF e.type = "new" THEN 1 ELSE 0]
           /\ (e.type = "new" <=> e.key \in DOMAIN known)
    BY <1>5, <1>8, Delivery
  <2>2. known' = known /\ pend' = {}
    BY <1>8 DEF SyncSend, Receive, mapVars
  <2>3. Expected' = DOMAIN known
    BY <2>2 DEF Expected, PendingKeys
  <2>4. CASE e.type = "new"
    <3>1. Expected = DOMAIN known \ {e.key}
      BY <2>1, <2>4 DEF Expected, PendingKeys
    <3> QED
      BY <1>5, <1>8, <2>1, <2>3, <2>4, <3>1
  <2>5. CASE e.type = "close"
    <3>1. Expected = DOMAIN known \cup {e.key}
      BY <2>1, <2>5 DEF Expected, PendingKeys
    <3> QED
      BY <1>5, <1>8, <2>1, <2>3, <2>5, <3>1
  <2> QED
    BY <2>4, <2>5 DEF Event
<1> QED
  BY <1>1, <1>2, <1>3, <1>4, <1>6, <1>7, <1>8 DEF Next, QuietStep, Drain, SyncProc

(* Every step is a step of the abstract stream or leaves it alone.         *)
LEMMA FeedStep ==
  ASSUME FeedInv, [Next]_vars
  PROVE  [Feed!FeedNext]_(Feed!feedVars)
<1> USE DEF Feed!feedVars
<1>1. CASE UNCHANGED <<balance, cancelled, sampled>>
  BY <1>1
<1>2. CASE Cancel \/ ReadSample
  BY <1>2 DEF Cancel, ReadSample, histVars, envVars, Feed!FeedNext, Feed!Stop
<1>3. CASE Emit
  BY <1>3 DEF Emit, Receive, envVars, FeedInv, AtMostOne
<1>4. CASE SyncSend
  <2>1. CASE cancelled \/ sampled
    BY <1>4, <2>1 DEF SyncSend, Receive, envVars
  <2>2. CASE ~(cancelled \/ sampled)
    <3>1. PICK e \in Event :
           /\ e.key \in Key
           /\ balance[e.key] = (IF e.type = "new" THEN 0 ELSE 1)
           /\ balance' = [balance EXCEPT ![e.key] = IF e.type = "new" THEN 1 ELSE 0]
      BY <1>4, <2>2, Delivery
    <3>2. (cancelled \/ sampled)' = (cancelled \/ sampled)
      BY <1>4 DEF SyncSend, Receive, envVars
    <3>3. Feed!Announce(e.key) \/ Feed!Retire(e.key)
      BY <2>2, <3>1, <3>2 DEF Feed!Announce, Feed!Retire
    <3> QED
      BY <3>1, <3>3 DEF Feed!FeedNext
  <2> QED
    BY <2>1, <2>2
<1>5. CASE UNCHANGED vars
  BY <1>5 DEF vars, envVars, histVars
<1>6. CASE Start \/ CloseLink
  BY <1>6 DEF Start, LoadObjects, AttachConnect, AttachClose, AttachAccept, AttachRequired, NewReader, StartOnly,
              CloseLink, RunOnly, envVars, histVars
<1>7. CASE LinksClosed \/ TopGoesOn \/ NoTick \/ Return \/ DrainStops \/ DrainTimesOut
  BY <1>7 DEF LinksClosed, TopGoesOn, NoTick, Return, TopReturns, CloseEvents, CloseObjs, CloseReader,
              DrainStops, DrainTimesOut, Loop, RunOnly, envVars, histVars
<1>8. CASE KernelStep
  BY <1>8 DEF KernelStep, Connect, Accept, Listen, CloseDescriptor, KernelOther, BackendUnchanged
<1>9. CASE EmitAborts \/ ListTCP \/ ResolvePIDs \/ SyncRow \/ SyncClosed \/ SyncAborts \/ SyncDone
  BY <1>9 DEF EmitAborts, ListTCP, ResolvePIDs, SyncRow, SyncClosed, SyncAborts, SyncDone, envVars, histVars
<1> QED
  BY <1>1, <1>2, <1>3, <1>4, <1>5, <1>6, <1>7, <1>8, <1>9 DEF Next, Drain, SyncProc

(* As long as no sample has come, syncProc's events alternate key by key,  *)
(* beginning with "new": the promise of ConnFeed.                          *)
THEOREM FeedRefinement == Spec => ImplementsFeed
<1>1. Init => Feed!FeedInit
  BY DEF Init, Feed!FeedInit
<1>2. Init => FeedInv
  <2>1. Init => AtMostOne /\ Accounted
    BY DEF Init, Starting, AtMostOne, Accounted, Expected, PendingKeys
  <2> QED
    BY <2>1, TypeInit DEF FeedInv
<1>3. FeedInv /\ [Next]_vars => FeedInv'
  <2>1. TypeInv /\ [Next]_vars => TypeInv'
    BY TypesControl, TypesDrain, TypesSync, TypesKernel DEF Next, Drain
  <2> QED
    BY <2>1, AtMostOneStep, AccountedStep DEF FeedInv
<1> QED
  BY <1>1, <1>2, <1>3, FeedStep, PTL DEF Spec, ImplementsFeed, Feed!FeedSpec
=============================================================================
