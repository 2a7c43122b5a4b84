------------------------------ MODULE MCDetect ------------------------------
(***************************************************************************)
(* A small instance of Detect: one process with two local ports to a       *)
(* flagged port, one connection to a flagged address, and one connection   *)
(* to it of no known process.                                              *)
(***************************************************************************)
EXTENDS Detect

CONSTANTS here1, here2, there, bad

MCConn ==
  {[local |-> here1, remote |-> there, port |-> 4444, pid |-> 7],
   [local |-> here2, remote |-> there, port |-> 4444, pid |-> 7],
   [local |-> here1, remote |-> bad, port |-> 80, pid |-> 7],
   [local |-> here1, remote |-> bad, port |-> 80, pid |-> 0]}

MCBadPort == {4444}
MCBadIP == {bad}
=============================================================================
