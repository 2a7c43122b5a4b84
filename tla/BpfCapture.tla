----------------------------- MODULE BpfCapture -----------------------------
(***************************************************************************)
(* The eBPF backend: the programs of internal/capture/bpf/connect.c, and   *)
(* ebpfCapturer (internal/capture/capture_ebpf.go), from the first step of *)
(* Start to the last deferred call of run.                                 *)
(*                                                                         *)
(* Two writers feed known and inodeConn: the samples that the programs     *)
(* write to per-CPU rings, and syncProc's scan of /proc.  run closes the   *)
(* links before its loop, so the programs run from the moment Start        *)
(* attaches them until then; the samples of that time are still read.      *)
(*                                                                         *)
(* syncProc changes known row by row and sends in between; the kernel, the *)
(* consumer and the cancellation move between any two steps.  The mutex is *)
(* of interest for one reason: a send that is cancelled returns with it    *)
(* locked.                                                                 *)
(*                                                                         *)
(* Abstractions: those of TcpView; a program and the change of the kernel's *)
(* table it traces are one step; the capacity of pid_by_inode (65536) is   *)
(* not reached; a LostSamples record changes nothing, so reading one is no *)
(* action; a drain may end at any moment, its deadline having passed.      *)
(***************************************************************************)
EXTENDS TcpView, Sequences

CONSTANTS
  Cpu,       \* the processors, each with a ring of its own
  RingCap,   \* samples a ring holds
  WalkMayFail   \* may the walk over /proc/<pid>/fd fail?

ASSUME RingAssumption == RingCap \in Nat /\ WalkMayFail \in BOOLEAN

Programs == {"connect", "close", "accept"}

Sample == [type : {"new", "close"}, addr : Addr, pid : PidOrNone, inode : Inode \cup {0}]
Event  == [type : {"new", "close"}, key : Key]

VARIABLES
  attached,     \* the programs that are attached (links)
  objsOpen,     \* the BPF objects are loaded (objs)
  readerOpen,   \* the perf reader is open (rd)
  pidByInode,   \* the kernel's map pid_by_inode; 0 where it has no entry
  rings,        \* the samples not yet read
  pc,           \* where Start, then run, is
  known, inodeConn,
  rowsLeft,     \* syncProc: the connections of the dump not yet looked at
  current,      \* syncProc: currentKeys
  pend,         \* the events to be sent: none or one
  muHeld,       \* e.mu was left locked
  cancelled,
  sampled,      \* history: a sample has been read
  connected,    \* history: the sockets connect() has made since Start returned
  balance       \* history: "new" minus "closed" received before either of the two

tracingVars == <<attached, pidByInode, rings>>
resourceVars == <<objsOpen, readerOpen>>
mapVars == <<known, inodeConn>>
syncVars == <<rowsLeft, current>>
envVars == <<socks, held, cancelled>>
histVars == <<sampled, connected, balance>>
vars == <<envVars, tracingVars, resourceVars, pc, mapVars, syncVars, pend, muHeld, histVars>>

Init ==
  /\ KernelInit
  /\ attached = {} /\ objsOpen = FALSE /\ readerOpen = FALSE
  /\ pidByInode = NoPids
  /\ rings = [u \in Cpu |-> <<>>]
  /\ pc = "load"
  /\ known = [k \in {} |-> 0] /\ inodeConn = [i \in {} |-> 0]
  /\ rowsLeft = {} /\ current = {} /\ pend = {}
  /\ muHeld = FALSE
  /\ cancelled = FALSE /\ sampled = FALSE /\ connected = {}
  /\ balance = [k \in Key |-> 0]

-----------------------------------------------------------------------------
(***************************************************************************)
(* The kernel, with the programs (connect.c).                              *)
(***************************************************************************)

(* bpf_perf_event_output: dropped when nobody reads or the ring is full.   *)
Output(s) ==
  IF readerOpen
    THEN \E u \in Cpu :
           rings' = IF Len(rings[u]) < RingCap THEN [rings EXCEPT ![u] = Append(@, s)] ELSE rings
    ELSE UNCHANGED rings

(* tcp_connect and inet_csk_accept: save_pid, then the sample.             *)
TraceOpen(prog, a, inode, p) ==
  IF prog \in attached
    THEN /\ pidByInode' = IF inode = 0 THEN pidByInode ELSE [pidByInode EXCEPT ![inode] = p]
         /\ Output([type |-> "new", addr |-> a, pid |-> p, inode |-> inode])
    ELSE UNCHANGED <<pidByInode, rings>>

(* tcp_close: the PID saved at the beginning, if there is one.             *)
TraceClose(a, inode, p) ==
  IF "close" \in attached
    THEN /\ Output([type |-> "close", addr |-> a, inode |-> inode,
                    pid |-> IF pidByInode[inode] # 0 THEN pidByInode[inode] ELSE p])
         /\ pidByInode' = [pidByInode EXCEPT ![inode] = 0]
    ELSE UNCHANGED <<pidByInode, rings>>

BackendUnchanged ==
  UNCHANGED <<cancelled, attached, resourceVars, pc, mapVars, syncVars, pend, muHeld, sampled, balance>>

Starting == {"load", "attachConnect", "attachClose", "attachAccept", "newReader"}

(* A connected socket has its file, an accepted one may not have it yet:   *)
(* read_sock_info then finds no inode.                                     *)
Connect(a, i, p) ==
  /\ OpenSocket(a, i, p, "open")
  /\ TraceOpen("connect", a, i, p)
  /\ connected' = IF pc \in Starting \cup {"failed"} THEN connected ELSE connected \cup {i}
  /\ BackendUnchanged

Accept(a, i, p) ==
  /\ OpenSocket(a, i, p, "open")
  /\ \E inode \in {0, i} : TraceOpen("accept", a, inode, p)
  /\ connected' = connected \ {i} /\ BackendUnchanged

Listen(a, i, p) ==
  /\ OpenSocket(a, i, p, "listen")
  /\ connected' = connected \ {i}
  /\ UNCHANGED <<pidByInode, rings>> /\ BackendUnchanged

(* The last descriptor of a socket is closed, or one of several.           *)
CloseDescriptor(a, p) ==
  /\ DropSocket(a, p)
  /\ IF socks[a].holders = {p} THEN TraceClose(a, socks[a].inode, p) ELSE UNCHANGED <<pidByInode, rings>>
  /\ UNCHANGED connected /\ BackendUnchanged

KernelOther ==
  /\ \/ \E a \in Addr, p \in Pid : ShareSocket(a, p)
     \/ \E a \in Addr : ExpireTimeWait(a)
  /\ UNCHANGED <<pidByInode, rings, connected>> /\ BackendUnchanged

KernelStep ==
  \/ \E a \in Addr, i \in Inode, p \in Pid : Connect(a, i, p) \/ Accept(a, i, p) \/ Listen(a, i, p)
  \/ \E a \in Addr, p \in Pid : CloseDescriptor(a, p)
  \/ KernelOther

Cancel ==
  /\ ~cancelled
  /\ cancelled' = TRUE
  /\ UNCHANGED <<kernelVars, tracingVars, resourceVars, pc, mapVars, syncVars, pend, muHeld, histVars>>

-----------------------------------------------------------------------------
(***************************************************************************)
(* Start: each step may fail, and undoes the ones before it.               *)
(***************************************************************************)
StartOnly == UNCHANGED <<envVars, pidByInode, rings, mapVars, syncVars, pend, muHeld, histVars>>

LoadObjects ==
  /\ pc = "load"
  /\ \/ pc' = "attachConnect" /\ objsOpen' = TRUE
     \/ pc' = "failed" /\ UNCHANGED objsOpen
  /\ UNCHANGED <<attached, readerOpen>> /\ StartOnly

(* Mutant: the error path closes the objects and forgets the links.        *)
GiveUpLinks == pc' = "failed" /\ objsOpen' = FALSE /\ UNCHANGED <<attached, readerOpen>>

(* Start gives up: the links made so far and the objects are closed.       *)
GiveUp == pc' = "failed" /\ attached' = {} /\ objsOpen' = FALSE /\ UNCHANGED readerOpen

AttachRequired(at, prog, next) ==
  /\ pc = at
  /\ \/ /\ pc' = next /\ attached' = attached \cup {prog}
        /\ UNCHANGED resourceVars
     \/ GiveUp
  /\ StartOnly

AttachConnect == AttachRequired("attachConnect", "connect", "attachClose")
AttachClose == AttachRequired("attachClose", "close", "attachAccept")

(* "Accept is best-effort".                                                *)
AttachAccept ==
  /\ pc = "attachAccept"
  /\ pc' = "newReader"
  /\ attached' \in {attached, attached \cup {"accept"}}
  /\ UNCHANGED resourceVars /\ StartOnly

NewReader ==
  /\ pc = "newReader"
  /\ \/ /\ pc' = "detach" /\ readerOpen' = TRUE
        /\ UNCHANGED <<attached, objsOpen>>
     \/ GiveUp
  /\ StartOnly

-----------------------------------------------------------------------------
(***************************************************************************)
(* run.                                                                    *)
(***************************************************************************)
RunOnly == UNCHANGED <<envVars, pidByInode, rings>>
Loop(to) == pc' = to /\ RunOnly
                     /\ UNCHANGED <<attached, resourceVars, mapVars, syncVars, pend, muHeld, histVars>>

(* for _, l := range links { l.Close() }                                   *)
CloseLink ==
  /\ pc = "detach"
  /\ \E prog \in attached : attached' = attached \ {prog}
  /\ UNCHANGED <<pc, resourceVars, mapVars, syncVars, pend, muHeld, histVars>> /\ RunOnly

LinksClosed == pc = "detach" /\ attached = {} /\ Loop("top")

(* Mutant: the loop does not look at the context.                         *)
TopIgnoresCtx == pc = "top" /\ Loop("drain")

TopGoesOn == pc = "top" /\ ~cancelled /\ Loop("drain")
TopReturns == pc = "top" /\ cancelled /\ Loop("closeEvents")

(***************************************************************************)
(* drainRingBuf and parseBPFEvent.                                         *)
(***************************************************************************)
DrainStops == pc = "drain" /\ cancelled /\ Loop("tick")
DrainTimesOut == pc = "drain" /\ ~cancelled /\ Loop("tick")

(* Mutant: an inode goes on pointing to the connection that was closed.    *)
ForgetConnOnly(k) ==
  /\ known' = [j \in DOMAIN known \ {k} |-> known[j]]
  /\ UNCHANGED inodeConn

(* A connection leaves known, and its inode inodeConn.                     *)
Forget(k) ==
  /\ known' = [j \in DOMAIN known \ {k} |-> known[j]]
  /\ inodeConn' = [i \in DOMAIN inodeConn \ {known[k].inode} |-> inodeConn[i]]

(* Mutant: the key is formed before the PID is looked up.                  *)
RememberEarlyKey(c) ==
  LET key == [addr |-> c.addr, pid |-> 0]
  IN /\ known' = [k \in DOMAIN known \cup {key} |-> IF k = key THEN c ELSE known[k]]
     /\ UNCHANGED inodeConn

Remember(c) ==
  /\ known' = [k \in DOMAIN known \cup {KeyOf(c)} |-> IF k = KeyOf(c) THEN c ELSE known[k]]
  /\ inodeConn' = IF c.inode = 0 THEN inodeConn
                  ELSE [i \in DOMAIN inodeConn \cup {c.inode} |->
                          IF i = c.inode THEN KeyOf(c) ELSE inodeConn[i]]

(* EVENT_CLOSE: the original connection, if the inode leads to one, gives  *)
(* the PID and is forgotten; the event is sent in any case.                *)
ParseClose(s) ==
  IF s.inode \in DOMAIN inodeConn /\ inodeConn[s.inode] \in DOMAIN known
    THEN /\ pend' = {[type |-> "close", key |-> [addr |-> s.addr, pid |-> known[inodeConn[s.inode]].pid]]}
         /\ known' = [j \in DOMAIN known \ {inodeConn[s.inode]} |-> known[j]]
         /\ inodeConn' = [i \in DOMAIN inodeConn \ {s.inode} |-> inodeConn[i]]
    ELSE /\ pend' = {[type |-> "close", key |-> [addr |-> s.addr, pid |-> s.pid]]}
         /\ UNCHANGED mapVars

(* EVENT_CONNECT and EVENT_ACCEPT: stored unless the key is known, sent in *)
(* any case.                                                               *)
ParseOpen(s) ==
  LET c == [addr |-> s.addr, pid |-> s.pid, inode |-> s.inode, state |-> "open"]
  IN /\ pend' = {[type |-> "new", key |-> KeyOf(c)]}
     /\ IF KeyOf(c) \in DOMAIN known THEN UNCHANGED mapVars ELSE Remember(c)

ReadSample ==
  /\ pc = "drain" /\ ~cancelled /\ ~muHeld
  /\ \E u \in Cpu :
       /\ rings[u] # <<>>
       /\ rings' = [rings EXCEPT ![u] = Tail(@)]
       /\ IF Head(rings[u]).type = "close" THEN ParseClose(Head(rings[u])) ELSE ParseOpen(Head(rings[u]))
  /\ sampled' = TRUE
  /\ pc' = "emit"
  /\ UNCHANGED <<envVars, attached, pidByInode, resourceVars, syncVars, muHeld, connected, balance>>

(***************************************************************************)
(* Sends: the consumer takes the event, or the select takes ctx.Done.      *)
(***************************************************************************)
Receive ==
  /\ \E e \in pend :
       balance' = IF cancelled \/ sampled THEN balance
                  ELSE [balance EXCEPT ![e.key] = @ + (IF e.type = "new" THEN 1 ELSE -1)]
  /\ pend' = {}
  /\ UNCHANGED <<envVars, tracingVars, resourceVars, mapVars, syncVars, muHeld, sampled, connected>>

Emit == pc = "emit" /\ pc' = "drain" /\ Receive

EmitAborts ==
  /\ pc = "emit" /\ cancelled
  /\ pc' = "tick" /\ pend' = {}
  /\ UNCHANGED <<envVars, tracingVars, resourceVars, mapVars, syncVars, muHeld, histVars>>

(***************************************************************************)
(* syncProc.                                                               *)
(***************************************************************************)
NoTick == pc = "tick" /\ Loop("top")

(* The ticker: ListTCPConnections.  The rows are kept as connections of no *)
(* process until their PIDs are known.                                     *)
ListTCP ==
  /\ pc = "tick"
  /\ pc' = "dumped"
  /\ \E failed \in FailedFamilies : rowsLeft' = RowsOf(failed)
  /\ UNCHANGED <<envVars, tracingVars, resourceVars, mapVars, current, pend, muHeld, histVars>>

(* "Merge: BPF map takes priority".                                        *)
MergePids(live) == [i \in Inode |-> IF pidByInode[i] # 0 THEN pidByInode[i] ELSE live[i]]

ToConn(r, inodeToPID) ==
  [addr |-> ProcText(r.addr), inode |-> r.inode, state |-> r.state,
   pid |-> IF r.inode = 0 THEN 0 ELSE inodeToPID[r.inode]]

(* Mutant: a walk that fails ends the sync with no connection left.        *)
ResolveEmpty ==
  /\ pc = "dumped" /\ ~muHeld
  /\ \/ \E live \in LiveInodePID :
          rowsLeft' = {ToConn(r, MergePids(live)) : r \in {x \in rowsLeft : x.state # "listen"}}
     \/ WalkMayFail /\ rowsLeft' = {}
  /\ pc' = "sync"
  /\ UNCHANGED <<envVars, tracingVars, resourceVars, mapVars, current, pend, muHeld, histVars>>

(* The map is asked and the descriptors are walked; the error of a walk is *)
(* dropped.                                                                *)
ResolvePIDs ==
  /\ pc = "dumped" /\ ~muHeld
  /\ \E live \in LiveInodePID \cup (IF WalkMayFail THEN {NoPids} ELSE {}) :
       rowsLeft' = {ToConn(r, MergePids(live)) : r \in {x \in rowsLeft : x.state # "listen"}}
  /\ pc' = "sync"
  /\ UNCHANGED <<envVars, tracingVars, resourceVars, mapVars, current, pend, muHeld, histVars>>

(* The next row.                                                           *)
SyncRow ==
  /\ pc = "sync"
  /\ \E c \in rowsLeft :
       /\ rowsLeft' = rowsLeft \ {c}
       /\ current' = current \cup {KeyOf(c)}
       /\ IF KeyOf(c) \in DOMAIN known
            THEN UNCHANGED <<pc, mapVars, pend>>
            ELSE /\ Remember(c)
                 /\ pend' = {[type |-> "new", key |-> KeyOf(c)]}
                 /\ pc' = "syncSend"
  /\ UNCHANGED <<envVars, tracingVars, resourceVars, muHeld, histVars>>

(* Mutant: a closed connection is not deleted from known.                  *)
SyncClosedKeeps ==
  /\ pc = "sync" /\ rowsLeft = {}
  /\ \E k \in DOMAIN known \ current : pend' = {[type |-> "close", key |-> k]} /\ current' = current \cup {k}
  /\ pc' = "syncSend"
  /\ UNCHANGED <<envVars, tracingVars, resourceVars, mapVars, rowsLeft, muHeld, histVars>>

(* Mutant: connections without an inode are not looked at.                 *)
SyncClosedIndexed ==
  /\ pc = "sync" /\ rowsLeft = {}
  /\ \/ /\ \E k \in DOMAIN known \ current :
             /\ known[k].inode # 0
             /\ Forget(k)
             /\ pend' = {[type |-> "close", key |-> k]}
        /\ pc' = "syncSend" /\ UNCHANGED current
     \/ /\ \A k \in DOMAIN known \ current : known[k].inode = 0
        /\ pc' = "top" /\ current' = {}
        /\ UNCHANGED <<mapVars, pend>>
  /\ UNCHANGED <<envVars, tracingVars, resourceVars, rowsLeft, muHeld, histVars>>

(* The next known connection that the dump did not show.                   *)
SyncClosed ==
  /\ pc = "sync" /\ rowsLeft = {}
  /\ \E k \in DOMAIN known \ current :
       /\ Forget(k)
       /\ pend' = {[type |-> "close", key |-> k]}
  /\ pc' = "syncSend"
  /\ UNCHANGED <<envVars, tracingVars, resourceVars, syncVars, muHeld, histVars>>

SyncSend == pc = "syncSend" /\ pc' = "sync" /\ Receive

(* case <-ctx.Done(): e.mu.Lock(); return                                  *)
SyncAborts ==
  /\ pc = "syncSend" /\ cancelled
  /\ pc' = "top" /\ pend' = {} /\ muHeld' = TRUE
  /\ rowsLeft' = {} /\ current' = {}
  /\ UNCHANGED <<envVars, tracingVars, resourceVars, mapVars, histVars>>

SyncDone ==
  /\ pc = "sync" /\ rowsLeft = {} /\ DOMAIN known \subseteq current
  /\ pc' = "top" /\ current' = {}
  /\ UNCHANGED <<envVars, tracingVars, resourceVars, mapVars, rowsLeft, pend, muHeld, histVars>>

(***************************************************************************)
(* The deferred calls: close(events), objs.Close, rd.Close.                *)
(***************************************************************************)
CloseEvents == pc = "closeEvents" /\ Loop("closeObjs")

CloseObjs ==
  /\ pc = "closeObjs" /\ pc' = "closeReader" /\ objsOpen' = FALSE
  /\ UNCHANGED <<attached, readerOpen, mapVars, syncVars, pend, muHeld, histVars>> /\ RunOnly

CloseReader ==
  /\ pc = "closeReader" /\ pc' = "done" /\ readerOpen' = FALSE
  /\ UNCHANGED <<attached, objsOpen, mapVars, syncVars, pend, muHeld, histVars>> /\ RunOnly

Start == LoadObjects \/ AttachConnect \/ AttachClose \/ AttachAccept \/ NewReader
Drain == DrainStops \/ DrainTimesOut \/ ReadSample \/ Emit \/ EmitAborts
SyncProc == ListTCP \/ ResolvePIDs \/ SyncRow \/ SyncClosed \/ SyncSend \/ SyncAborts \/ SyncDone
Return == TopReturns \/ CloseEvents \/ CloseObjs \/ CloseReader

Next ==
  \/ Start \/ CloseLink \/ LinksClosed \/ TopGoesOn \/ Drain \/ NoTick \/ SyncProc \/ Return
  \/ Cancel \/ KernelStep

Spec == Init /\ [][Next]_vars

(***************************************************************************)
(* Fairness.  Start and run are one goroutine after the other, which is    *)
(* scheduled; the consumer comes back for the next event; and a ticker     *)
(* that is polled again and again is found to have fired.  Nothing is      *)
(* assumed of the kernel, and nothing forces a cancellation.               *)
(***************************************************************************)
Run == CloseLink \/ LinksClosed \/ TopGoesOn \/ Drain \/ NoTick \/ SyncProc \/ Return

Fairness == WF_vars(Start \/ Run) /\ SF_vars(ListTCP)

FairSpec == Spec /\ Fairness

-----------------------------------------------------------------------------
TypeOK ==
  /\ KernelTypeOK
  /\ attached \subseteq Programs /\ objsOpen \in BOOLEAN /\ readerOpen \in BOOLEAN
  /\ pidByInode \in [Inode -> PidOrNone]
  /\ rings \in [Cpu -> Seq(Sample)]
  /\ pc \in Starting \cup {"failed", "detach", "top", "drain", "emit", "tick", "dumped", "sync",
                           "syncSend", "closeEvents", "closeObjs", "closeReader", "done"}
  /\ DOMAIN known \subseteq Key
  /\ \A k \in DOMAIN known : known[k] \in Conn /\ KeyOf(known[k]) = k
  /\ DOMAIN inodeConn \subseteq Inode /\ \A i \in DOMAIN inodeConn : inodeConn[i] \in Key
  /\ rowsLeft \subseteq Row \cup Conn
  /\ current \subseteq Key
  /\ pend \subseteq Event
  /\ muHeld \in BOOLEAN /\ cancelled \in BOOLEAN /\ sampled \in BOOLEAN
  /\ connected \subseteq Inode
  /\ balance \in [Key -> Int]

(* Two writers keep two maps: whatever samples and scans are interleaved,  *)
(* and whichever of them removes a connection, an inode leads to a         *)
(* connection that is known and has this inode ("inode -> connection key   *)
(* for close matching", capture_ebpf.go).                                  *)
InodeConnSound ==
  \A i \in DOMAIN inodeConn :
    inodeConn[i] \in DOMAIN known /\ known[inodeConn[i]].inode = i

(* Start may fail at each of its steps and run may be cancelled at each of *)
(* its own: nothing stays attached, loaded or open in the kernel.          *)
NothingLeaked ==
  pc \in {"failed", "done"} => attached = {} /\ ~objsOpen /\ ~readerOpen

(* As long as no sample has come, syncProc alone keeps the promise of a    *)
(* backend: the kinds of a key's events alternate.  Samples break it (see  *)
(* ParseOpen and ParseClose).                                              *)
Feed == INSTANCE ConnFeed WITH stopped <- cancelled \/ sampled
ImplementsFeed == Feed!FeedSpec

-----------------------------------------------------------------------------
(***************************************************************************)
(* Liveness, under FairSpec.                                               *)
(***************************************************************************)

(* A cancellation ends the backend and releases what it holds, also when a *)
(* cancelled send has left the mutex locked (capture_ebpf.go:271, 289).    *)
CancelReleases == cancelled ~> pc \in {"failed", "done"}

(* Whatever samples were lost, came late or were for sockets of a moment,  *)
(* a connection that stays open is known for good in the end.              *)
OpenIsKnown ==
  \A a \in Addr :
    []~cancelled /\ <>(pc = "top") /\ <>[](socks[a].state = "open")
      => <>[](ProcText(a) \in AddrsOf(DOMAIN known))

(* And one that stays away is forgotten, also one that a sample made known *)
(* without an inode.                                                       *)
GoneIsForgotten ==
  \A a \in Addr :
    []~cancelled /\ <>(pc = "top") /\ <>[](\A x \in Addr : ProcText(x) = ProcText(a) => socks[x].state = "none")
      => <>[](AddrsOf(DOMAIN known) \cap {a, ProcText(a)} = {})

-----------------------------------------------------------------------------
(***************************************************************************)
(* What comments in the repository say and the code does not do.           *)
(***************************************************************************)

(* "kernel-level tracing, bypasses /proc tampering, resolves PID even for  *)
(* TIME_WAIT" (capture.go:76): a socket that is connected while the        *)
(* backend runs is known with a PID, also when /proc hides the process.    *)
ConnectHasPid ==
  \A k \in DOMAIN known : known[k].inode \in connected => known[k].pid # 0
=============================================================================
