------------------------------ MODULE Sockets -------------------------------
(***************************************************************************)
(* The kernel's TCP table and the processes' descriptor tables, as far as  *)
(* netbrother can see them through NETLINK_INET_DIAG, /proc/net/tcp and    *)
(* /proc/<pid>/fd.  This is the environment of the capture backends, not   *)
(* code of the repository: it moves on its own, between any two steps of a *)
(* backend.                                                                *)
(*                                                                         *)
(* What matters to the backends:                                           *)
(*   - a socket may be held by several processes (fork, descriptor         *)
(*     passing) and stays in the table until the last one lets go;         *)
(*   - a socket without a holder is shown in TIME_WAIT, with inode 0, until *)
(*     it expires, or disappears at once (reset, passive close);           *)
(*   - an inode number is free again once its socket is gone (InodeReuse). *)
(***************************************************************************)
EXTENDS Integers

CONSTANTS
  Addr,        \* the address pairs <<local ip:port, remote ip:port>>
  Inode,       \* the socket inode numbers; 0 stands for "no inode"
  Pid,         \* the process ids; 0 stands for "unknown"
  InodeReuse   \* may the kernel hand out an inode number a second time?

ASSUME InodeAssumption == Inode \subseteq Int /\ 0 \notin Inode
ASSUME PidAssumption   == Pid \subseteq Int /\ 0 \notin Pid
ASSUME ReuseAssumption == InodeReuse \in BOOLEAN

VARIABLES
  socks,       \* socks[a]: the table's entry for address pair a
  held         \* held[i]: the processes that held the latest socket with inode i

kernelVars == <<socks, held>>

SockState == {"none", "open", "listen", "timewait"}
Sock      == [state : SockState, inode : Inode \cup {0}, holders : SUBSET Pid]
NoSock    == [state |-> "none", inode |-> 0, holders |-> {}]

KernelTypeOK ==
  /\ socks \in [Addr -> Sock]
  /\ held \in [Inode -> SUBSET Pid]

KernelInit ==
  /\ socks = [a \in Addr |-> NoSock]
  /\ held = [i \in Inode |-> {}]

InodeFree(i) ==
  /\ \A a \in Addr : socks[a].inode # i
  /\ InodeReuse \/ held[i] = {}

(* connect(), accept() or listen(): a new socket, held by one process.     *)
OpenSocket(a, i, p, st) ==
  /\ socks[a].state = "none"
  /\ InodeFree(i)
  /\ st \in {"open", "listen"}
  /\ socks' = [socks EXCEPT ![a] = [state |-> st, inode |-> i, holders |-> {p}]]
  /\ held' = [held EXCEPT ![i] = {p}]

(* fork() or a descriptor passed on: one more process holds the socket.    *)
ShareSocket(a, p) ==
  /\ socks[a].holders # {}
  /\ p \notin socks[a].holders
  /\ socks' = [socks EXCEPT ![a].holders = @ \cup {p}]
  /\ held' = [held EXCEPT ![socks[a].inode] = @ \cup {p}]

(* close() or the exit of a process.  The last holder's close leaves a     *)
(* connection in TIME_WAIT, without an inode, or removes it.               *)
DropSocket(a, p) ==
  /\ p \in socks[a].holders
  /\ \/ /\ socks[a].holders # {p}
        /\ socks' = [socks EXCEPT ![a].holders = @ \ {p}]
     \/ /\ socks[a].holders = {p}
        /\ socks' = [socks EXCEPT ![a] = NoSock]
     \/ /\ socks[a].holders = {p}
        /\ socks[a].state = "open"
        /\ socks' = [socks EXCEPT ![a] = [NoSock EXCEPT !.state = "timewait"]]
  /\ UNCHANGED held

ExpireTimeWait(a) ==
  /\ socks[a].state = "timewait"
  /\ socks' = [socks EXCEPT ![a] = NoSock]
  /\ UNCHANGED held

Kernel ==
  \/ \E a \in Addr, i \in Inode, p \in Pid, st \in {"open", "listen"} : OpenSocket(a, i, p, st)
  \/ \E a \in Addr, p \in Pid : ShareSocket(a, p)
  \/ \E a \in Addr, p \in Pid : DropSocket(a, p)
  \/ \E a \in Addr : ExpireTimeWait(a)
=============================================================================
