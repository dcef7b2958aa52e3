------------------------------ MODULE Terminal ------------------------------
(***************************************************************************)
(* keyboard.c: the keyboard interrupt handler, the line buffer of each     *)
(* terminal, terminal_read, terminal_write and the display side of         *)
(* switch_display_terminal; the screen position is that of Screen.tla.     *)
(*                                                                         *)
(* One program is in the kernel at a time (Tasks.tla).  It reads and       *)
(* writes with IF set, on whichever terminal is displayed at each access:  *)
(* terminal_read spins on the displayed terminal's flag and only then      *)
(* masks interrupts and copies.                                            *)
(***************************************************************************)
EXTENDS Screen, Sequences, FiniteSets

CONSTANTS
  TERMINAL_COUNT,
  KEYBOARD_MAX_BUFFER,
  ReadSizes,      \* the nbytes programs pass to read
  Modifiers       \* the keys among Ctrl, Alt and the F keys that are used

Nul == "nul"
Terminals == 0 .. TERMINAL_COUNT - 1
Cells == 0 .. KEYBOARD_MAX_BUFFER - 1
FKeys == {"F1", "F2", "F3"}
FKey(t) == CASE t = 0 -> "F1" [] t = 1 -> "F2" [] t = 2 -> "F3"
LetterL == "l"      \* the L key, which Ctrl makes "clear the screen"

ASSUME TerminalAssumption ==
  /\ TERMINAL_COUNT \in 1 .. 3
  /\ KEYBOARD_MAX_BUFFER \in Nat /\ KEYBOARD_MAX_BUFFER >= 3
  /\ ReadSizes \subseteq Nat
  /\ Nul \notin Glyphs \cup {Newline} /\ LetterL \in Glyphs
  /\ Modifiers \subseteq {"ctrl", "alt"} \cup FKeys

VARIABLES
  display_terminal_id,
  keyboard_buffer, keyboard_buffer_size, allow_terminal_read,
  cursor_pos,     \* the position saved when a terminal was last left
  held,           \* the keys that are down, of those the handler asks about
  call,           \* where the program's read or write is
  typed,          \* history: what was typed since the last read and not erased
  stale           \* history: why a cell past the line may not be empty

buffers == <<keyboard_buffer, keyboard_buffer_size, allow_terminal_read>>
history == <<typed, stale>>
vars == <<screen, put, display_terminal_id, buffers, cursor_pos, held, call, history>>

Init ==
  /\ screen_x = 0 /\ screen_y = 0 /\ put = "none"
  /\ display_terminal_id = 0
  /\ keyboard_buffer = [t \in Terminals |-> [i \in Cells |-> Nul]]
  /\ keyboard_buffer_size = [t \in Terminals |-> 0]
  /\ allow_terminal_read = [t \in Terminals |-> FALSE]
  /\ cursor_pos = [t \in Terminals |-> <<0, 0>>]
  /\ held = {}
  /\ call = "none"
  /\ typed = [t \in Terminals |-> <<>>]
  /\ stale = [t \in Terminals |-> {}]

-----------------------------------------------------------------------------
(* The displayed terminal. *)
d == display_terminal_id

(***************************************************************************)
(* terminal_buf_add: nothing is taken, a new line included, once the       *)
(* buffer holds KEYBOARD_MAX_BUFFER - 2 characters.                        *)
(***************************************************************************)
BufferFull_Late == keyboard_buffer_size[d] >= KEYBOARD_MAX_BUFFER
BufferFull == keyboard_buffer_size[d] >= KEYBOARD_MAX_BUFFER - 2

terminal_buf_add(c) ==
  IF BufferFull THEN UNCHANGED <<screen, buffers, history>>
  ELSE /\ Putc(c)
       /\ keyboard_buffer' = [keyboard_buffer EXCEPT ![d][keyboard_buffer_size[d]] = c]
       /\ keyboard_buffer_size' = [keyboard_buffer_size EXCEPT ![d] = @ + 1]
       /\ allow_terminal_read' = [allow_terminal_read EXCEPT ![d] = @ \/ c = Newline]
       /\ typed' = [typed EXCEPT ![d] = Append(@, c)]
       /\ stale' = [stale EXCEPT ![d] = @ \ {"erased"}]

(***************************************************************************)
(* terminal_backspace empties the cell after the character it erases.  The *)
(* erased character itself stays until the next one is typed over it.      *)
(***************************************************************************)
terminal_backspace ==
  IF keyboard_buffer_size[d] = 0 THEN UNCHANGED <<screen, buffers, history>>
  ELSE /\ EraseLast
       /\ keyboard_buffer' = [keyboard_buffer EXCEPT ![d][keyboard_buffer_size[d]] = Nul]
       /\ keyboard_buffer_size' = [keyboard_buffer_size EXCEPT ![d] = @ - 1]
       /\ UNCHANGED allow_terminal_read
       /\ typed' = [typed EXCEPT ![d] = SubSeq(@, 1, Len(@) - 1)]
       /\ stale' = [stale EXCEPT ![d] = @ \cup {"erased"}]

(* What switch_display_terminal does to the console (Tasks.tla has the rest). *)
SwitchDisplay(t) ==
  IF t = d THEN UNCHANGED <<display_terminal_id, cursor_pos, screen>>
  ELSE /\ cursor_pos' = [cursor_pos EXCEPT ![d] = screen]
       /\ display_terminal_id' = t
       /\ screen_x' = cursor_pos[t][1]
       /\ screen_y' = cursor_pos[t][2]

Selected(keys) == {t \in Terminals : FKey(t) \in keys}

(***************************************************************************)
(* The end of keyboard_handler: what the keys that are down now, and the   *)
(* code just received, ask for.  It runs for releases and for repeats as   *)
(* well, so a terminal is selected as long as Alt and its key are down.    *)
(* printed is the set of characters the code can stand for: empty for a    *)
(* release or a key that prints nothing (Shift and CapsLock only choose    *)
(* the glyph, so they are left to the choice of a glyph).                  *)
(***************************************************************************)
Dispatch(keys, code, printed) ==
  /\ held' = keys
  /\ IF {"ctrl", LetterL} \subseteq keys
     THEN ClearScreen /\ UNCHANGED <<display_terminal_id, cursor_pos, buffers, history>>
     ELSE IF code = "backspace"
     THEN terminal_backspace /\ UNCHANGED <<display_terminal_id, cursor_pos>>
     ELSE IF "alt" \in keys /\ Selected(keys) # {}
     THEN /\ SwitchDisplay(CHOOSE t \in Selected(keys) : \A u \in Selected(keys) : t <= u)
          /\ UNCHANGED <<buffers, history>>
     ELSE IF printed # {}
     THEN /\ \E c \in printed : terminal_buf_add(c)
          /\ UNCHANGED <<display_terminal_id, cursor_pos>>
     ELSE UNCHANGED <<screen, display_terminal_id, cursor_pos, buffers, history>>

Tracked == Modifiers \cup (IF "ctrl" \in Modifiers THEN {LetterL} ELSE {})

(* A key goes down, or repeats. *)
Press(k) ==
  /\ Followed
  /\ Dispatch(IF k \in Tracked THEN held \cup {k} ELSE held, k,
              {k} \cap (Glyphs \cup {Newline}))
  /\ UNCHANGED <<put, call>>

Release(k) ==
  /\ k \in held
  /\ Followed
  /\ Dispatch(held \ {k}, "release", {})
  /\ UNCHANGED <<put, call>>

Keys == Glyphs \cup {Newline, "backspace"} \cup Modifiers

-----------------------------------------------------------------------------
(* terminal_read.  What a copy of n bytes takes: up to the first empty     *)
(* cell, which is where the loop stops.                                    *)
ReadCall ==
  /\ call = "none"
  /\ call' = "spin"
  /\ UNCHANGED <<screen, put, display_terminal_id, buffers, cursor_pos, held, history>>

(* The spin loop sees the flag; interrupts are still on. *)
ReadSeen ==
  /\ call = "spin"
  /\ allow_terminal_read[d]
  /\ call' = "copy"
  /\ UNCHANGED <<screen, put, display_terminal_id, buffers, cursor_pos, held, history>>

FirstEmpty(t) ==
  CHOOSE i \in Cells : keyboard_buffer[t][i] = Nul /\ \A j \in 0 .. i - 1 : keyboard_buffer[t][j] # Nul

Copied(n) == IF n < FirstEmpty(d) THEN n ELSE FirstEmpty(d)

EmptyCells_Missing(n) == UNCHANGED keyboard_buffer
EmptyCells(n) ==
  keyboard_buffer' = [keyboard_buffer EXCEPT ![d] =
                        [i \in Cells |-> IF i < Copied(n) THEN Nul ELSE @[i]]]

StopRead_All == allow_terminal_read' = [t \in Terminals |-> FALSE]
StopRead == allow_terminal_read' = [allow_terminal_read EXCEPT ![d] = FALSE]

ReadCopy(n) ==
  /\ call = "copy"
  /\ call' = "none"
  /\ EmptyCells(n)
  /\ keyboard_buffer_size' = [keyboard_buffer_size EXCEPT ![d] = 0]
  /\ StopRead
  /\ typed' = [typed EXCEPT ![d] = <<>>]
  /\ stale' = [stale EXCEPT ![d] = IF n < FirstEmpty(d) THEN @ \cup {"unread"} ELSE @ \ {"erased"}]
  /\ UNCHANGED <<screen, put, display_terminal_id, cursor_pos, held>>

(* terminal_write: putc of each character, with interrupts on. *)
WriteChar(c) ==
  /\ call = "none" /\ Followed
  /\ call' = "write"
  /\ PutStart(c)
  /\ UNCHANGED <<display_terminal_id, buffers, cursor_pos, held, history>>

WriteStep ==
  /\ call = "write"
  /\ PutStep
  /\ call' = IF put' = "none" THEN "none" ELSE "write"
  /\ UNCHANGED <<display_terminal_id, buffers, cursor_pos, held, history>>

Next ==
  \/ \E k \in Keys : Press(k) \/ Release(k)
  \/ ReadCall \/ ReadSeen \/ \E n \in ReadSizes : ReadCopy(n)
  \/ \E c \in Glyphs \cup {Newline} : WriteChar(c)
  \/ WriteStep

Spec == Init /\ [][Next]_vars

(* The user presses Enter again and again and the program keeps running. *)
FairSpec ==
  /\ Spec
  /\ SF_vars(Press(Newline))
  /\ WF_vars(ReadSeen) /\ WF_vars(\E n \in ReadSizes : ReadCopy(n))
-----------------------------------------------------------------------------
(***************************************************************************)
(* Properties.                                                             *)
(***************************************************************************)

(* Every variable has its type. *)
TypeOK ==
  /\ screen_x \in Int /\ screen_y \in Int
  /\ put \in PutSteps
  /\ display_terminal_id \in Terminals
  /\ keyboard_buffer \in [Terminals -> [Cells -> Glyphs \cup {Newline, Nul}]]
  /\ keyboard_buffer_size \in [Terminals -> Cells]
  /\ allow_terminal_read \in [Terminals -> BOOLEAN]
  /\ cursor_pos \in [Terminals -> Int \X Int]
  /\ held \subseteq Tracked
  /\ call \in {"none", "spin", "copy", "write"}
  /\ typed \in [Terminals -> Seq(Glyphs \cup {Newline})]
  /\ stale \in [Terminals -> SUBSET {"erased", "unread"}]

(* terminal_read's loop meets an empty cell before it leaves the buffer,   *)
(* whatever nbytes is and whatever was typed, erased and read before.      *)
LoopStopsInBuffer ==
  \A t \in Terminals : \E i \in Cells : keyboard_buffer[t][i] = Nul

(* What the next full read of a terminal takes is exactly what was typed   *)
(* on it since the last read and not erased, unless the last key was a     *)
(* backspace or an earlier read was shorter than its line.                 *)
LineInBuffer ==
  \A t \in Terminals : stale[t] = {} =>
    [i \in 1 .. FirstEmpty(t) |-> keyboard_buffer[t][i - 1]] = typed[t]

(* An Enter that was taken is never forgotten: the terminal's flag is set  *)
(* for as long as the line has a new line in it, so no reader sleeps on it *)
(* while a line waits.                                                     *)
NoLostEnter ==
  \A t \in Terminals :
    (\E i \in 1 .. Len(typed[t]) : typed[t][i] = Newline) => allow_terminal_read[t]

-----------------------------------------------------------------------------
(***************************************************************************)
(* What the code's comments say and the code does not do.                  *)
(***************************************************************************)

(* terminal_read "spins until terminal is allowed to read the keyboard     *)
(* buffer after the user presses enter" (keyboard.c): the buffer it copies *)
(* belongs to a terminal on which Enter was pressed.                       *)
ReadsEnteredLine == [][\A n \in ReadSizes : ReadCopy(n) => allow_terminal_read[d]]_vars

(* By the same comment a read ends when the user presses Enter, and Enter  *)
(* again for as long as nothing happens (the last disjunct is the bound).  *)
EnterEndsRead == call = "spin" ~> (call # "spin" \/ ~Followed)

(* cursor_pos_x is the "current cursor position 0-79" (keyboard.h).        *)
CursorOnScreen == \A t \in Terminals : OnScreen(cursor_pos[t][1], cursor_pos[t][2])
=============================================================================
