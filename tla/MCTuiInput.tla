----------------------------- MODULE MCTuiInput -----------------------------
(***************************************************************************)
(* A small instance of TuiInput: as many bytes as two escape sequences     *)
(* that disturb each other have.                                           *)
(***************************************************************************)
EXTENDS TuiInput
=============================================================================
