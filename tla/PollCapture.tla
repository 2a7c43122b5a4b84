---------------------------- MODULE PollCapture -----------------------------
(***************************************************************************)
(* The polling capture backends: scanAndEmit and poll of netlinkCapturer   *)
(* (internal/capture/capture_netlink.go) and of procCapturer               *)
(* (internal/capture/capture_proc.go).  The two are one algorithm; the     *)
(* CONSTANT Backend selects the points where they differ.                  *)
(*                                                                         *)
(* A scan reads the TCP table, THEN walks the processes' descriptors, and  *)
(* the kernel moves in between; it sends its events one by one over an     *)
(* unbuffered channel, and the kernel, the consumer and the cancellation   *)
(* of the context move between any two sends.  The mutex of the capturer   *)
(* is only ever taken by the polling goroutine, so it orders nothing.      *)
(*                                                                         *)
(* Abstractions: those of TcpView; a failed netlink socket or bind skips a  *)
(* tick and changes nothing, so it is not an action.                       *)
(***************************************************************************)
EXTENDS TcpView

CONSTANTS
  Backend,      \* "netlink" or "proc"
  WalkMayFail   \* may the walk over /proc/<pid>/fd fail?

ASSUME BackendAssumption ==
  /\ Backend \in {"netlink", "proc"}
  /\ WalkMayFail \in BOOLEAN

VARIABLES
  pc,           \* where the polling goroutine is
  rows,         \* the rows of the dump being processed
  current,      \* currentKeys of the scan
  known,        \* known: the connections by key
  inodePID,     \* the inode -> PID cache; 0 where the map has no entry
  pendNew,      \* newConns not yet sent
  pendClosed,   \* closedEvents not yet sent
  cancelled,    \* ctx is done
  balance       \* history: "new" minus "closed" events received before the cancellation

scanVars == <<pc, rows, current, known, inodePID, pendNew, pendClosed>>
vars == <<socks, held, scanVars, cancelled, balance>>

(* The address a row's connection carries.                                 *)
AddrText(a) == IF Backend = "proc" THEN ProcText(a) ELSE a

(* Mutant: descriptors without an inode are not filtered out of the walk.  *)
ToConnInodeZero(r, inodeToPID) ==
  [addr  |-> AddrText(r.addr),
   pid   |-> IF r.inode # 0 THEN inodeToPID[r.inode]
             ELSE IF \A i \in Inode : inodeToPID[i] = 0 THEN 0
             ELSE inodeToPID[CHOOSE i \in Inode : inodeToPID[i] # 0],
   inode |-> r.inode,
   state |-> r.state]

(* pid := inodeToPID[raw.Inode] -- the zero value when there is no entry.  *)
ToConn(r, inodeToPID) ==
  [addr  |-> AddrText(r.addr),
   pid   |-> IF r.inode = 0 THEN 0 ELSE inodeToPID[r.inode],
   inode |-> r.inode,
   state |-> r.state]

(* The live map wins over the cache, and goes into the cache.  The write   *)
(* of a new connection's PID back into the cache stores what is there.     *)
Merge(live) == [i \in Inode |-> IF live[i] # 0 THEN live[i] ELSE inodePID[i]]

(***************************************************************************)
(* The actions of the polling goroutine.                                   *)
(***************************************************************************)
Init ==
  /\ KernelInit
  /\ pc = "start"
  /\ rows = {} /\ current = {} /\ pendNew = {} /\ pendClosed = {}
  /\ known = [k \in {} |-> 0]
  /\ inodePID = NoPids
  /\ cancelled = FALSE
  /\ balance = [k \in Key |-> 0]

(* The first scan runs at once, the others on a tick of the ticker.        *)
DumpTCP ==
  /\ pc \in {"start", "idle"}
  /\ \E failed \in FailedFamilies : rows' = RowsOf(failed)
  /\ pc' = "dumped"
  /\ UNCHANGED <<kernelVars, current, known, inodePID, pendNew, pendClosed, cancelled, balance>>

(* Mutant: the key is formed before the PID is looked up.                  *)
AddNewEarlyKey(conns) ==
  LET early(c) == [addr |-> c.addr, pid |-> 0]
      fresh == {early(c) : c \in conns} \ DOMAIN known
  IN \E first \in {f \in [fresh -> conns] : \A k \in fresh : early(f[k]) = k} :
       /\ known' = [k \in DOMAIN known \cup fresh |->
                      IF k \in DOMAIN known THEN known[k] ELSE first[k]]
       /\ pendNew' = {first[k] : k \in fresh}

(* Mutant: rows already known are announced again.                         *)
AddNewAll(conns) ==
  /\ known' = [k \in DOMAIN known \cup {KeyOf(c) : c \in conns} |->
                 IF k \in DOMAIN known THEN known[k] ELSE CHOOSE c \in conns : KeyOf(c) = k]
  /\ pendNew' = conns

(* One connection per key not known yet: the first row that has it.        *)
AddNew(conns) ==
  LET fresh == {KeyOf(c) : c \in conns} \ DOMAIN known
  IN \E first \in {f \in [fresh -> conns] : \A k \in fresh : KeyOf(f[k]) = k} :
       /\ known' = [k \in DOMAIN known \cup fresh |->
                      IF k \in DOMAIN known THEN known[k] ELSE first[k]]
       /\ pendNew' = {first[k] : k \in fresh}

(* Mutant: currentKeys is set only where a new key is added.               *)
ScanMarksNewOnly(live) ==
  LET inodeToPID == Merge(live)
      conns == {ToConn(r, inodeToPID) : r \in {x \in rows : x.state # "listen"}}
  IN /\ inodePID' = inodeToPID
     /\ current' = {KeyOf(c) : c \in conns} \ DOMAIN known
     /\ AddNew(conns)

Scan(live) ==
  LET inodeToPID == Merge(live)
      conns == {ToConn(r, inodeToPID) : r \in {x \in rows : x.state # "listen"}}
  IN /\ inodePID' = inodeToPID
     /\ current' = {KeyOf(c) : c \in conns}
     /\ AddNew(conns)

ResolvePIDs ==
  /\ pc = "dumped"
  /\ \E live \in LiveInodePID : Scan(live)
  /\ pc' = "sendNew"
  /\ rows' = {}
  /\ UNCHANGED <<kernelVars, pendClosed, cancelled, balance>>

(* netlink: a failed walk counts as "no process has a descriptor".         *)
ResolveWithoutPIDs ==
  /\ pc = "dumped"
  /\ Backend = "netlink" /\ WalkMayFail
  /\ Scan(NoPids)
  /\ pc' = "sendNew"
  /\ rows' = {}
  /\ UNCHANGED <<kernelVars, pendClosed, cancelled, balance>>

(* Mutant: a failed walk empties the map.                                  *)
AbandonScanForgets ==
  /\ pc = "dumped"
  /\ Backend = "proc" /\ WalkMayFail
  /\ pc' = "idle"
  /\ rows' = {}
  /\ known' = [k \in {} |-> 0]
  /\ UNCHANGED <<kernelVars, current, inodePID, pendNew, pendClosed, cancelled, balance>>

(* proc: a failed walk ends the scan.                                      *)
AbandonScan ==
  /\ pc = "dumped"
  /\ Backend = "proc" /\ WalkMayFail
  /\ pc' = "idle"
  /\ rows' = {}
  /\ UNCHANGED <<kernelVars, current, known, inodePID, pendNew, pendClosed, cancelled, balance>>

Received(c, delta) ==
  balance' = IF cancelled THEN balance ELSE [balance EXCEPT ![KeyOf(c)] = @ + delta]

SendNew ==
  /\ pc = "sendNew"
  /\ \E c \in pendNew :
       /\ pendNew' = pendNew \ {c}
       /\ Received(c, 1)
  /\ UNCHANGED <<kernelVars, pc, rows, current, known, inodePID, pendClosed, cancelled>>

(* Mutant: closed connections stay in the map.                             *)
DetectClosedNoDelete ==
  /\ pc = "sendNew"
  /\ pendNew = {}
  /\ pendClosed' = {known[k] : k \in DOMAIN known \ current}
  /\ pc' = "sendClosed"
  /\ UNCHANGED <<kernelVars, rows, current, known, inodePID, pendNew, cancelled, balance>>

(* Mutant: closed connections are looked for before the new ones are sent. *)
DetectClosedFirst ==
  /\ pc = "sendNew"
  /\ known' = [k \in DOMAIN known \cap current |-> known[k]]
  /\ pendClosed' = {known[k] : k \in DOMAIN known \ current}
  /\ pc' = "sendClosed"
  /\ UNCHANGED <<kernelVars, rows, current, inodePID, pendNew, cancelled, balance>>

(* Mutant: a connection first seen in TIME_WAIT is not reported closed.    *)
DetectClosedOpenOnly ==
  /\ pc = "sendNew"
  /\ pendNew = {}
  /\ known' = [k \in DOMAIN known \cap current |-> known[k]]
  /\ pendClosed' = {known[k] : k \in {j \in DOMAIN known \ current : known[j].state = "open"}}
  /\ pc' = "sendClosed"
  /\ UNCHANGED <<kernelVars, rows, current, inodePID, pendNew, cancelled, balance>>

(* Known connections that the dump did not show.                           *)
DetectClosed ==
  /\ pc = "sendNew"
  /\ pendNew = {}
  /\ known' = [k \in DOMAIN known \cap current |-> known[k]]
  /\ pendClosed' = {known[k] : k \in DOMAIN known \ current}
  /\ pc' = "sendClosed"
  /\ UNCHANGED <<kernelVars, rows, current, inodePID, pendNew, cancelled, balance>>

SendClosed ==
  /\ pc = "sendClosed"
  /\ \E c \in pendClosed :
       /\ pendClosed' = pendClosed \ {c}
       /\ Received(c, -1)
  /\ UNCHANGED <<kernelVars, pc, rows, current, known, inodePID, pendNew, cancelled>>

EndScan ==
  /\ pc = "sendClosed"
  /\ pendClosed = {}
  /\ pc' = "idle"
  /\ current' = {}
  /\ UNCHANGED <<kernelVars, rows, known, inodePID, pendNew, pendClosed, cancelled, balance>>

(* A send chose ctx.Done: scanAndEmit returns, what it had still to send   *)
(* is lost, known keeps what it holds, and poll selects again.             *)
AbortSend ==
  /\ cancelled
  /\ \/ pc = "sendNew" /\ pendNew # {}
     \/ pc = "sendClosed" /\ pendClosed # {}
  /\ pc' = "idle"
  /\ pendNew' = {} /\ pendClosed' = {} /\ current' = {}
  /\ UNCHANGED <<kernelVars, rows, known, inodePID, cancelled, balance>>

(* Mutant: "break" leaves the select and not the loop.                     *)
StopBreaks ==
  /\ pc = "idle"
  /\ cancelled
  /\ pc' = "start"
  /\ UNCHANGED <<kernelVars, rows, current, known, inodePID, pendNew, pendClosed, cancelled, balance>>

(* poll's select chose ctx.Done: the deferred close(events) runs.          *)
Stop ==
  /\ pc = "idle"
  /\ cancelled
  /\ pc' = "closed"
  /\ UNCHANGED <<kernelVars, rows, current, known, inodePID, pendNew, pendClosed, cancelled, balance>>

Cancel ==
  /\ ~cancelled
  /\ cancelled' = TRUE
  /\ UNCHANGED <<kernelVars, scanVars, balance>>

KernelStep == Kernel /\ UNCHANGED <<scanVars, cancelled, balance>>

Next ==
  \/ DumpTCP \/ ResolvePIDs \/ ResolveWithoutPIDs \/ AbandonScan
  \/ SendNew \/ DetectClosed \/ SendClosed \/ EndScan
  \/ AbortSend \/ Stop
  \/ Cancel \/ KernelStep

Spec == Init /\ [][Next]_vars

(***************************************************************************)
(* Fairness.  The goroutine is scheduled, the ticker ticks and the consumer *)
(* of the unbuffered channel comes back for the next event, so every step  *)
(* of the scan is weakly fair; a walk may fail, but not for ever.  A select *)
(* with several ready cases picks one at random: Stop competes with the    *)
(* ticker, again and again, so it is strongly fair.  Nothing is assumed of *)
(* the kernel, and nothing forces a cancellation.                          *)
(***************************************************************************)
Fairness ==
  /\ WF_vars(DumpTCP)
  /\ SF_vars(ResolvePIDs) /\ WF_vars(AbandonScan \/ ResolveWithoutPIDs \/ ResolvePIDs)
  /\ WF_vars(SendNew \/ AbortSend) /\ WF_vars(DetectClosed)
  /\ WF_vars(SendClosed \/ AbortSend) /\ WF_vars(EndScan)
  /\ SF_vars(Stop)

FairSpec == Spec /\ Fairness

-----------------------------------------------------------------------------
(***************************************************************************)
(* Safety.                                                                 *)
(***************************************************************************)
TypeOK ==
  /\ KernelTypeOK
  /\ pc \in {"start", "idle", "dumped", "sendNew", "sendClosed", "closed"}
  /\ rows \subseteq Row
  /\ current \subseteq Key
  /\ DOMAIN known \subseteq Key
  /\ \A k \in DOMAIN known : known[k] \in Conn /\ KeyOf(known[k]) = k
  /\ inodePID \in [Inode -> PidOrNone]
  /\ pendNew \subseteq Conn
  /\ pendClosed \subseteq Conn
  /\ cancelled \in BOOLEAN
  /\ balance \in [Key -> Int]

Shown == {k \in Key : balance[k] = 1}

(* Between two scans the consumer's open connections are exactly the ones  *)
(* the backend remembers: no event of a scan was lost, sent twice or sent  *)
(* for the wrong key, whatever the kernel did during the scan.             *)
ViewMatchesKnown ==
  pc = "idle" /\ ~cancelled => Shown = DOMAIN known

(* A PID given for a connection belongs to a process that did hold the     *)
(* connection's socket, also when it comes from the cache and the process  *)
(* has let go since (capture_netlink.go, "Merge cached inode->PID").  It   *)
(* rests on the kernel not handing out an inode number twice.              *)
AttributedToHolder ==
  ~InodeReuse =>
    \A k \in DOMAIN known :
      known[k].pid # 0 => known[k].inode # 0 /\ known[k].pid \in held[known[k].inode]

(* A connection reported closed either goes on under another key or has    *)
(* left the kernel's table: its socket is not open any more ("Detect       *)
(* closed connections", capture_proc.go and capture_netlink.go).           *)
ClosedMeansGone ==
  \A c \in pendClosed :
    c.inode # 0 /\ c.addr \notin AddrsOf(current) =>
      \A a \in Addr : socks[a].inode # c.inode

(* When a scan finds a connection under another key (another PID, or       *)
(* TIME_WAIT), the new row arrives before the old one goes: a consumer     *)
(* never sees an address disappear that the dump of this scan still shows. *)
NoGapOnRekey ==
  [][\A k \in Shown \ Shown' : k.addr \in AddrsOf(Shown') \/ k.addr \notin AddrsOf(current)]_vars

(* The stream of events is the abstract one: for every key, "new" and      *)
(* "closed" alternate, beginning with "new", until the cancellation.       *)
Feed == INSTANCE ConnFeed WITH stopped <- cancelled
ImplementsFeed == Feed!FeedSpec

-----------------------------------------------------------------------------
(***************************************************************************)
(* Liveness, under FairSpec.                                               *)
(***************************************************************************)

(* "It MUST close the channel when ctx is cancelled" (capture.go).         *)
CancelCloses == cancelled ~> (pc = "closed")

(* A connection that stays open is on the consumer's list from some time   *)
(* on and never flickers off it, however its PID changes from scan to scan. *)
ShownEventually ==
  \A a \in Addr :
    []~cancelled /\ <>[](socks[a].state = "open") => <>[](AddrText(a) \in AddrsOf(Shown))

(* An address that stays out of the kernel's table leaves the list.        *)
GoneEventually ==
  \A a \in Addr :
    []~cancelled /\ <>[](\A x \in Addr : AddrText(x) = AddrText(a) => socks[x].state = "none")
      => <>[](AddrText(a) \notin AddrsOf(Shown))
=============================================================================
