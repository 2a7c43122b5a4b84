--------------------------- MODULE MCBpfCapture ----------------------------
(***************************************************************************)
(* Small instances of BpfCapture: one address pair and one inode number    *)
(* that is used again, with two processors or with a hidden process.       *)
(***************************************************************************)
EXTENDS BpfCapture

CONSTANTS a1, cpu1, cpu2, ports

MCAddr    == {a1}
MCInode   == {1}
MCPid     == {7}
OneCpu    == {cpu1}
TwoCpus   == {cpu1, cpu2}
None      == {}
MCHidden  == {7}
MCPorts   == {ports}
SamePorts == [a \in Addr |-> ports]
=============================================================================
