------------------------------ MODULE MCTuiRows -----------------------------
(***************************************************************************)
(* Small instances of TuiRows: four connection keys, a table of three      *)
(* rows, a list of three alerts, events with up to two.                    *)
(***************************************************************************)
EXTENDS TuiRows, TLC

CONSTANTS k1, k2, k3, k4

MCKey == {k1, k2, k3, k4}
KeySymmetry == Permutations(MCKey)
=============================================================================
