----------------------------- MODULE MCTerminal -----------------------------
(* Instances of Terminal.tla for TLC. *)
EXTENDS Terminal

(* The line buffers, the keys and the reader never look at the screen      *)
(* position, so their properties are checked with one position for each of *)
(* their states.                                                           *)
LineView == <<put, display_terminal_id, buffers, held, call, history>>
=============================================================================
