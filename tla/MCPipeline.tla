----------------------------- MODULE MCPipeline -----------------------------
(***************************************************************************)
(* Small instances of Pipeline: two keys, a handful of events.             *)
(***************************************************************************)
EXTENDS Pipeline, TLC

CONSTANTS k1, k2

MCKey == {k1, k2}
MCBuilt == {"pcap", "netlink"}
KeySymmetry == Permutations(MCKey)
=============================================================================
