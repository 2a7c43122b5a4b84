------------------------------ MODULE TcpView -------------------------------
(***************************************************************************)
(* What a capture backend can read of the kernel's table, and the          *)
(* connections and keys it makes of it: process.ListTCPConnections and     *)
(* AllPIDsWithFds (internal/process/proc.go), the netlink dump of the same *)
(* table, types.Connection and ConnectionKey (internal/types/types.go).    *)
(*                                                                         *)
(* The order of rows within a dump is arbitrary, so a dump is a set; names, *)
(* directions and times are data no property looks at.                     *)
(***************************************************************************)
EXTENDS Sockets

CONSTANTS
  V6,           \* the address pairs of family AF_INET6
  PortPair,     \* what is left of a pair without its two IP addresses
  PortsOf,      \* PortsOf[a]: the ports of address pair a
  HiddenPid,    \* processes whose /proc/<pid>/fd cannot be read
  DumpMayFail   \* may the dump of one address family fail?

ASSUME ViewAssumption ==
  /\ V6 \subseteq Addr
  /\ PortsOf \in [Addr -> PortPair]
  /\ HiddenPid \subseteq Pid
  /\ DumpMayFail \in BOOLEAN

PidOrNone == Pid \cup {0}
Row  == [addr : Addr, inode : Inode \cup {0}, state : SockState]
Conn == [addr : Addr \cup PortPair, pid : PidOrNone, inode : Inode \cup {0}, state : SockState]
Key  == [addr : Addr \cup PortPair, pid : PidOrNone]

KeyOf(c) == [addr |-> c.addr, pid |-> c.pid]

(* The address that is read from /proc.  HexToIP makes of an IPv6 address  *)
(* four colon-separated groups of up to eight digits, which is no address  *)
(* to net.ParseIP, so both IPs become nil and the ports are what is left.  *)
ProcText(a) == IF a \in V6 THEN PortsOf[a] ELSE a

FailedFamilies == IF DumpMayFail THEN SUBSET {"v4", "v6"} ELSE {{}}

Family(a) == IF a \in V6 THEN "v6" ELSE "v4"

(* A family whose dump fails is skipped; the other one is still used.      *)
RowsOf(failed) ==
  {[addr |-> a, inode |-> socks[a].inode, state |-> socks[a].state] :
     a \in {x \in Addr : socks[x].state # "none" /\ Family(x) \notin failed}}

Visible(i) ==
  UNION {socks[a].holders \ HiddenPid : a \in {x \in Addr : socks[x].inode = i}}

(* liveInodePID: of several processes holding a socket the last one in the *)
(* iteration order of a Go map wins, that is, any of them.                 *)
LiveInodePID ==
  {live \in [Inode -> PidOrNone] :
     \A i \in Inode : IF Visible(i) = {} THEN live[i] = 0 ELSE live[i] \in Visible(i)}

NoPids == [i \in Inode |-> 0]

AddrsOf(keys) == {k.addr : k \in keys}
=============================================================================
