------------------------------ MODULE MCSystem ------------------------------
(***************************************************************************)
(* A small instance of System: one address pair, one socket ever, and two  *)
(* processes that may share it.                                            *)
(***************************************************************************)
EXTENDS System

CONSTANTS a1, ports, remote

MCAddr    == {a1}
MCInode   == {1}
MCPid     == {7, 8}
None      == {}
MCPorts   == {ports}
SamePorts == [a \in Addr |-> ports]
OneRemote == [a \in Addr \cup PortPair |-> remote]
=============================================================================
