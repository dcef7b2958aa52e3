-------------------------------- MODULE Fish --------------------------------
(***************************************************************************)
(* The program fish (fish.c, blink.S): it reads two drawings side by side, *)
(* makes every character that differs from a space blink between the two,  *)
(* and at every interrupt of the clock shows those whose time has come.    *)
(* The structures of blink_array are a list, the newest first; they are    *)
(* never exhausted and none is at location 0, which would mark it free.    *)
(* Its vidmap is in Tasks.tla, its write to the clock in Interrupts.tla.   *)
(***************************************************************************)
EXTENDS Grep

CONSTANTS frame0, frame1    \* the names of the two drawings

VARIABLES
  rtc_fd,
  frame_fd, ch, eof,  \* fd0 and fd1, c0 and c1, eof0 and eof1 of add_frames
  row, col,
  waits,              \* i: the reads of the clock, counted through main's loops
  blinks,             \* the list from mp1_list_head on
  screen              \* the characters of the page vidmap gave

fish == <<rtc_fd, frame_fd, ch, eof, row, col, waits, blinks, screen>>
others == <<image, args, dir, fd, fname, buffer, output, overread, cutshort>>

Both == {0, 1}
Frame == [k \in Both |-> IF k = 0 THEN frame0 ELSE frame1]
Unread == "0"
WAIT == 100
COLS == 80
SCREEN == 80 * 25
Corner == 40                    \* where the drawings begin
Spot == 6 * COLS + 60           \* what main adds of its own

NoFds == [k \in Both |-> 0]
FishMemory ==
  /\ rtc_fd = 0 /\ frame_fd = NoFds /\ ch = [k \in Both |-> Unread]
  /\ eof = [k \in Both |-> FALSE] /\ row = 0 /\ col = 0 /\ waits = 0
  /\ blinks = <<>> /\ screen = <<>>

FishGone ==
  /\ rtc_fd' = 0 /\ frame_fd' = NoFds /\ ch' = [k \in Both |-> Unread]
  /\ eof' = [k \in Both |-> FALSE] /\ row' = 0 /\ col' = 0 /\ waits' = 0
  /\ blinks' = <<>> /\ screen' = <<>>

-----------------------------------------------------------------------------
(* blink.S.  Something of the list is shown at its location. *)
Shown(location, char) ==
  screen' = [l \in DOMAIN screen \cup {location} |-> IF l = location THEN char ELSE screen[l]]

(* mp1_find_helper: the newest at the location, 0 when there is none. *)
Find(location) ==
  LET there == {k \in DOMAIN blinks : blinks[k].location = location}
  IN IF there = {} THEN 0 ELSE Cmd!Min(there)

mp1_ioctl_add(b) ==
  IF b.location >= SCREEN \/ Len(blinks) = SCREEN THEN UNCHANGED <<blinks, screen>>
  ELSE /\ blinks' = <<[b EXCEPT !.on = TRUE, !.countdown = b.on_length]>> \o blinks
       /\ Shown(b.location, b.on_char)

Blink(location, on_char, off_char, on_length, off_length) ==
  [location |-> location, on_char |-> on_char, off_char |-> off_char,
   on_length |-> on_length, off_length |-> off_length, countdown |-> 0, on |-> FALSE]

(* What it has drawn stays on the screen. *)
mp1_ioctl_remove(location) ==
  /\ blinks' = IF Find(location) = 0 THEN blinks ELSE RemoveAt(blinks, Find(location))
  /\ UNCHANGED screen

(***************************************************************************)
(* The second takes the lengths and the phase of the first.  testb of the  *)
(* status never sets what cmovl tests, so the off character is shown.      *)
(***************************************************************************)
Synced_LengthsOnly(x, y) == [y EXCEPT !.on_length = x.on_length, !.off_length = x.off_length]
Synced(x, y) ==
  [y EXCEPT !.on_length = x.on_length, !.off_length = x.off_length,
            !.countdown = x.countdown, !.on = x.on]

mp1_ioctl_sync(first, second) ==
  IF Find(first) = 0 \/ Find(second) = 0 THEN UNCHANGED <<blinks, screen>>
  ELSE LET y == Find(second)
       IN /\ blinks' = [blinks EXCEPT ![y] = Synced(blinks[Find(first)], @)]
          /\ Shown(second, blinks[y].off_char)

Due(b) == b.countdown - 1 <= 0

Ticked(b) ==
  IF ~Due(b) THEN [b EXCEPT !.countdown = @ - 1]
  ELSE [b EXCEPT !.countdown = IF b.on THEN b.off_length ELSE b.on_length, !.on = ~b.on]

(* Of two at one location the later in the list is drawn last. *)
mp1_rtc_tasklet ==
  /\ blinks' = [k \in DOMAIN blinks |-> Ticked(blinks[k])]
  /\ screen' = [l \in DOMAIN screen |->
       LET due == {k \in DOMAIN blinks : blinks[k].location = l /\ Due(blinks[k])}
           b == blinks[Cmd!Max(due)]
       IN IF due = {} THEN screen[l] ELSE IF b.on THEN b.off_char ELSE b.on_char]

-----------------------------------------------------------------------------
OpenClock ==
  /\ pc = "openclock" /\ Fs!Open(<<"rtc">>)
  /\ rtc_fd' = Fs!LowestFree
  /\ pc' = "open0"
  /\ UNCHANGED <<frame_fd, ch, eof, row, col, waits, blinks, screen>>

OpenFrame(k) ==
  /\ pc = <<"open0", "open1">>[k + 1] /\ Fs!Open(Frame[k])
  /\ frame_fd' = [frame_fd EXCEPT ![k] = Fs!LowestFree]
  /\ pc' = <<"open1", "read0">>[k + 1]
  /\ UNCHANGED <<rtc_fd, ch, eof, row, col, waits, blinks, screen>>

(* One byte of each drawing, unless its row or the drawing is over. *)
ReadFrame(k) ==
  /\ pc = <<"read0", "read1">>[k + 1]
  /\ IF ch[k] = NL THEN UNCHANGED <<files, ch, eof>>
     ELSE /\ Fs!ReadFile(frame_fd[k], 1)
          /\ LET got == answer'.got
                 ends == got = <<>>
             IN /\ ch' = [ch EXCEPT ![k] = IF ends THEN NL ELSE Byte(entry[frame_fd[k]], got[1])]
                /\ eof' = [eof EXCEPT ![k] = @ \/ ends]
  /\ pc' = <<"read1", "blink">>[k + 1]
  /\ UNCHANGED <<rtc_fd, frame_fd, row, col, waits, blinks, screen>>

Glyph(k) == IF ch[k] = NL THEN SPACE ELSE ch[k]

AddBlink ==
  /\ pc = "blink" /\ \E k \in Both : ch[k] # NL
  /\ IF \E k \in Both : ch[k] \notin {SPACE, NL}
     THEN mp1_ioctl_add(Blink(row * COLS + col + Corner, Glyph(0), Glyph(1), 15, 15))
     ELSE UNCHANGED <<blinks, screen>>
  /\ col' = col + 1
  /\ pc' = "read0"
  /\ UNCHANGED <<files, rtc_fd, frame_fd, ch, eof, row, waits>>

EndRow ==
  /\ pc = "blink" /\ \A k \in Both : ch[k] = NL
  /\ pc' = "close0"
  /\ UNCHANGED <<files, rtc_fd, frame_fd, ch, eof, row, col, waits, blinks, screen>>

(* A drawing that has ended is closed again behind every row of the other. *)
CloseFrame(k) ==
  /\ pc = <<"close0", "close1">>[k + 1]
  /\ IF eof[k] /\ frame_fd[k] \in flags THEN Fs!Close(frame_fd[k]) ELSE UNCHANGED files
  /\ ch' = [ch EXCEPT ![k] = IF eof[k] THEN NL ELSE Unread]
  /\ IF k = 0 THEN pc' = "close1" /\ UNCHANGED <<row, col>>
     ELSE /\ row' = row + 1 /\ col' = 0
          /\ pc' = IF eof[0] /\ eof[1] THEN "wait" ELSE "read0"
  /\ UNCHANGED <<rtc_fd, frame_fd, eof, waits, blinks, screen>>

(* A read of the clock and the tasklet; after WAIT of them main goes on. *)
Wait ==
  /\ pc = "wait" /\ Fs!ReadClock(rtc_fd, 4)
  /\ mp1_rtc_tasklet
  /\ waits' = waits + 1
  /\ pc' = IF waits' % WAIT = 0 THEN "ioctl" ELSE "wait"
  /\ UNCHANGED <<rtc_fd, frame_fd, ch, eof, row, col>>

Ioctl ==
  /\ pc = "ioctl" /\ waits < 4 * WAIT
  /\ CASE waits = WAIT -> mp1_ioctl_add(Blink(Spot, "I", "M", 7, 6))
       [] waits = 2 * WAIT -> mp1_ioctl_sync(Corner, Spot)
       [] waits = 3 * WAIT -> mp1_ioctl_remove(Spot)
  /\ pc' = "wait"
  /\ UNCHANGED <<files, rtc_fd, frame_fd, ch, eof, row, col, waits>>

CloseClock ==
  /\ pc = "ioctl" /\ waits = 4 * WAIT /\ Fs!Close(rtc_fd)
  /\ pc' = "fishdone"
  /\ UNCHANGED <<rtc_fd, frame_fd, ch, eof, row, col, waits, blinks, screen>>

FishNext ==
  /\ \/ OpenClock \/ AddBlink \/ EndRow \/ Wait \/ Ioctl \/ CloseClock
     \/ \E k \in Both : OpenFrame(k) \/ ReadFrame(k) \/ CloseFrame(k)
  /\ UNCHANGED others
-----------------------------------------------------------------------------
(***************************************************************************)
(* Properties.  A drawing, by definition: its characters but spaces and    *)
(* ends of lines, each at the row of the ends of lines before it and the   *)
(* column of the bytes since the last of them.                             *)
(***************************************************************************)
FrameFile(k) == Fs!read_dentry_by_name(Frame[k])
NewLines(t, n) == {q \in 0 .. n - 1 : t[q] = NL}
Row(t, n) == Cardinality(NewLines(t, n))
Column(t, n) == n - Cmd!Max({q + 1 : q \in NewLines(t, n)} \cup {0})
Cell(t, n) == Corner + COLS * Row(t, n) + Column(t, n)
Marks(k) ==
  LET i == FrameFile(k)
  IN {n \in 0 .. Directory[i].length - 1 : text[i][n] \notin {SPACE, NL}}
Drawing(k) ==
  LET t == text[FrameFile(k)]
  IN {[location |-> Cell(t, n), char |-> t[n]] : n \in Marks(k)}
Locations(drawing) == {m.location : m \in drawing}

(* A drawing no wider than a row and no longer than the page, that leaves  *)
(* what main adds alone: of another the program shows parts elsewhere.     *)
DrawingsFit ==
  \A k \in Both :
    LET t == text[FrameFile(k)]
    IN \A n \in Marks(k) : Column(t, n) < COLS /\ Cell(t, n) < SCREEN /\ Cell(t, n) # Spot

(* Whether a structure of these lengths is on, n interrupts after its add. *)
On(n, length, period) == n % period < length

FishTypeOK ==
  /\ DOMAIN screen \subseteq 0 .. SCREEN - 1
  /\ \A k \in DOMAIN blinks : blinks[k].location \in DOMAIN screen /\ blinks[k].countdown \in 1 .. 15
  /\ waits \in 0 .. 4 * WAIT

(***************************************************************************)
(* After n interrupts of the clock every cell of the screen shows the      *)
(* first drawing or the second, as n has it, whatever lengths their rows   *)
(* have and whichever ends first; a cell that is blank in both is left     *)
(* alone.  What main adds blinks in its own time, and in that of the       *)
(* drawings' corner once they were brought together.                       *)
(***************************************************************************)
DrawingsBlink ==
  pc \in {"wait", "ioctl", "fishdone"} /\ DrawingsFit =>
    LET on == On(waits, 15, 30)
        shown == Drawing(IF on THEN 0 ELSE 1)
        hidden == Drawing(IF on THEN 1 ELSE 0)
        synced == waits > 2 * WAIT \/ (waits = 2 * WAIT /\ pc = "wait")
        together == synced /\ Corner \in DOMAIN screen
    IN /\ DOMAIN screen \ {Spot} = Locations(shown) \cup Locations(hidden)
       /\ \A m \in shown : screen[m.location] = m.char
       /\ \A l \in Locations(hidden) \ Locations(shown) : screen[l] = SPACE
       /\ Spot \in DOMAIN screen /\ waits < 3 * WAIT =>
            screen[Spot] = IF IF together THEN on ELSE On(waits - WAIT, 7, 13) THEN "I" ELSE "M"
=============================================================================
