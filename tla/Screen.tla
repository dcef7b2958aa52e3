------------------------------ MODULE Screen ------------------------------
(***************************************************************************)
(* The text console of lib.c: where the next character goes.  What the     *)
(* cells hold is left out.                                                 *)
(*                                                                         *)
(* Interrupt handlers (echo, backspace, clear, terminal switch) run with   *)
(* IF clear and call putc as one step.  terminal_write runs with IF set,   *)
(* so its putc is a sequence of steps, one per access to screen_x or       *)
(* screen_y, and a handler may come between any two of them.               *)
(***************************************************************************)
EXTENDS Integers

CONSTANTS
  NUM_COLS, NUM_ROWS,
  Glyphs,       \* what keys and programs print, other than a new line
  Newline,
  MaxOver       \* bound: how far past the edges the position is followed

ASSUME ScreenAssumption ==
  /\ NUM_COLS \in Nat \ {0} /\ NUM_ROWS \in Nat \ {0} /\ MaxOver \in Nat
  /\ Newline \notin Glyphs

VARIABLES
  screen_x, screen_y,
  put           \* the next step of a program's putc; "none" outside it

screen == <<screen_x, screen_y>>

LastCol == NUM_COLS - 1
LastRow == NUM_ROWS - 1

PutSteps == {"none", "newline", "down", "left", "glyph", "right", "wrap", "wrapped",
             "below", "scroll x", "scroll y"}

(* putc as the handlers call it: nothing comes between its steps. *)
NextRow == IF screen_y = LastRow THEN LastRow ELSE screen_y + 1
Putc(c) ==
  IF c = Newline \/ screen_x = LastCol
  THEN screen_x' = 0 /\ screen_y' = NextRow
  ELSE screen_x' = screen_x + 1 /\ UNCHANGED screen_y

(* back_space, a space over the last character, back_space. *)
EraseLast ==
  LET x == screen_x - 1
  IN IF x = LastCol
     THEN screen_x' = -1 /\ screen_y' = NextRow
     ELSE screen_x' = x /\ UNCHANGED screen_y

ClearScreen == screen_x' = 0 /\ screen_y' = 0

-----------------------------------------------------------------------------
(***************************************************************************)
(* putc as terminal_write calls it.  Step(from, to) goes from one access   *)
(* to the next; x and y are what the access leaves in the variables.       *)
(***************************************************************************)
Step(from, to, x, y) ==
  /\ put = from
  /\ put' = to
  /\ screen_x' = x
  /\ screen_y' = y

PutStart(c) ==
  Step("none", IF c = Newline THEN "newline" ELSE "glyph", screen_x, screen_y)

PutNewline ==
  \/ Step("newline", IF screen_y = LastRow THEN "scroll x" ELSE "down", screen_x, screen_y)
  \/ Step("down", "left", screen_x, screen_y + 1)
  \/ Step("left", "none", 0, screen_y)

PutGlyph ==
  \/ Step("glyph", IF screen_x = LastCol THEN "wrap" ELSE "right", screen_x, screen_y)
  \/ Step("right", "none", screen_x + 1, screen_y)
  \/ Step("wrap", "wrapped", 0, screen_y)
  \/ Step("wrapped", IF screen_y = LastRow THEN "scroll x" ELSE "below", screen_x, screen_y)
  \/ Step("below", "none", screen_x, screen_y + 1)

PutScroll ==
  \/ Step("scroll x", "scroll y", 0, screen_y)
  \/ Step("scroll y", "none", screen_x, LastRow)

PutStep == PutNewline \/ PutGlyph \/ PutScroll

(* The position is inside the screen. *)
OnScreen(x, y) == x \in 0 .. LastCol /\ y \in 0 .. LastRow

(* The bound on runaway positions: once past it, nothing more is printed. *)
Followed == screen_x \in -MaxOver .. LastCol + MaxOver /\ screen_y \in 0 .. LastRow + MaxOver
=============================================================================
