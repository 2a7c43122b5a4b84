--------------------------- MODULE MCPollCapture ---------------------------
(***************************************************************************)
(* Small instances of PollCapture.  Inodes and PIDs are numbers, because 0 *)
(* is the code's "none"; addresses are model values; the configurations    *)
(* choose how many there are.                                              *)
(***************************************************************************)
EXTENDS PollCapture

CONSTANTS a1, a2, ports

MCAddr2   == {a1, a2}
MCAddr1   == {a1}
MCInode2  == {1, 2}
MCInode1  == {1}
MCPid2    == {7, 8}
None      == {}
AllV6     == {a1, a2}
MCHidden  == {8}
MCPorts   == {ports}
SamePorts == [a \in Addr |-> ports]
=============================================================================
