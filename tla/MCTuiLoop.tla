----------------------------- MODULE MCTuiLoop ------------------------------
(***************************************************************************)
(* Small instances of TuiLoop: the sets of keys pressed and of terminal    *)
(* heights.                                                                *)
(***************************************************************************)
EXTENDS TuiLoop

AllKeys == {"q", "a", "/", "j", "enter", "backspace", "esc", "arrow"}
QuitKeys == {"q", "/"}
Tall == {24}
TallOrTiny == {3, 24}
=============================================================================
