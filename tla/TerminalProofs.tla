--------------------------- MODULE TerminalProofs ---------------------------
(***************************************************************************)
(* Theorems about Terminal.tla, for every number of terminals the kernel   *)
(* has keys for, every buffer and screen size, and every set of characters *)
(* and of read lengths.                                                    *)
(*                                                                         *)
(* The inductive invariant ties a buffer to what was typed: its first      *)
(* cells hold the line (Buffered), a last cell is never written (LastFree) *)
(* and what an erased character leaves is one cell past the line.          *)
(***************************************************************************)
EXTENDS Terminal, SequenceTheorems, WellFoundedInduction, TLAPS

Characters == Glyphs \cup {Newline}

(* A line of buffer b, length n, that was typed as s; why: the reasons a   *)
(* cell past it may hold something.                                        *)
Buffered(b, n, s, why) ==
  /\ Len(s) = n
  /\ \A i \in 0 .. n - 1 : b[i] = s[i + 1]
  /\ "unread" \notin why => \A i \in Cells : i > n => b[i] = Nul
  /\ why = {} => b[n] = Nul

(* terminal_buf_add stops two cells short of the end, so one cell is never *)
(* written by it, and by terminal_backspace only emptied.                  *)
Room == \A t \in Terminals : keyboard_buffer_size[t] <= KEYBOARD_MAX_BUFFER - 2
LastFree == \A t \in Terminals : keyboard_buffer[t][KEYBOARD_MAX_BUFFER - 1] = Nul

LinesBuffered ==
  \A t \in Terminals :
    Buffered(keyboard_buffer[t], keyboard_buffer_size[t], typed[t], stale[t])

IInv == TypeOK /\ Room /\ LastFree /\ LinesBuffered /\ NoLostEnter

-----------------------------------------------------------------------------
LEMMA CellsFacts ==
  /\ Cells \subseteq Nat /\ Cells # {}
  /\ KEYBOARD_MAX_BUFFER - 1 \in Cells /\ KEYBOARD_MAX_BUFFER - 2 \in Cells
  /\ \A i \in Cells : \A j \in 0 .. i : j \in Cells
  /\ Nul \notin Characters
<1>1. KEYBOARD_MAX_BUFFER \in Nat /\ KEYBOARD_MAX_BUFFER >= 3 /\ Nul \notin Characters
  BY TerminalAssumption DEF TerminalAssumption, Characters
<1>2. KEYBOARD_MAX_BUFFER - 1 \in Cells /\ KEYBOARD_MAX_BUFFER - 2 \in Cells
  BY <1>1 DEF Cells
<1>3. \A i \in Cells : \A j \in 0 .. i : j \in Cells
  BY <1>1 DEF Cells
<1> QED
  BY <1>1, <1>2, <1>3 DEF Cells

(* A character typed behind the line. *)
LEMMA AddLine ==
  ASSUME NEW b \in [Cells -> Characters \cup {Nul}], NEW n \in Nat,
         n < KEYBOARD_MAX_BUFFER - 2, NEW s \in Seq(Characters), NEW why,
         Buffered(b, n, s, why), NEW c \in Characters
  PROVE  Buffered([b EXCEPT ![n] = c], n + 1, Append(s, c), why \ {"erased"})
<1> DEFINE b2 == [b EXCEPT ![n] = c]
           s2 == Append(s, c)
<1>1. n \in Cells /\ n + 1 \in Cells /\ n # n + 1
  BY TerminalAssumption DEF Cells, TerminalAssumption
<1>2. Len(s) = n /\ Len(s2) = n + 1 /\ (\A i \in 1 .. n : s2[i] = s[i]) /\ s2[n + 1] = c
  BY AppendProperties DEF Buffered
<1>3. \A i \in 0 .. n : b2[i] = s2[i + 1]
  <2> SUFFICES ASSUME NEW i \in 0 .. n PROVE b2[i] = s2[i + 1]
    OBVIOUS
  <2>1. i \in Cells
    BY <1>1, CellsFacts
  <2>2. CASE i = n
    BY <1>1, <1>2, <2>2
  <2>3. CASE i # n
    <3>1. i \in 0 .. n - 1 /\ i + 1 \in 1 .. n
      BY <2>3
    <3> QED
      BY <1>2, <2>1, <2>3, <3>1 DEF Buffered
  <2> QED
    BY <2>2, <2>3
<1>4. ASSUME "unread" \notin why, NEW i \in Cells, i > n PROVE b2[i] = Nul
  BY <1>4, <1>1, CellsFacts DEF Buffered
<1>5. why \ {"erased"} = {} => "unread" \notin why
  OBVIOUS
<1>6. ASSUME NEW i \in Cells, i > n + 1 PROVE i > n
  BY <1>6, CellsFacts
<1>7. n + 1 > n /\ (n + 1) - 1 = n
  OBVIOUS
<1> HIDE DEF b2, s2
<1> QED
  BY <1>1, <1>2, <1>3, <1>4, <1>5, <1>6, <1>7 DEF Buffered, b2, s2

(* The last character erased. *)
LEMMA EraseLine ==
  ASSUME NEW b \in [Cells -> Characters \cup {Nul}], NEW n \in Nat \ {0},
         n <= KEYBOARD_MAX_BUFFER - 2, NEW s \in Seq(Characters), NEW why, Buffered(b, n, s, why)
  PROVE  /\ Buffered([b EXCEPT ![n] = Nul], n - 1, SubSeq(s, 1, Len(s) - 1), why \cup {"erased"})
         /\ SubSeq(s, 1, Len(s) - 1) \in Seq(Characters)
         /\ \A i \in 1 .. Len(SubSeq(s, 1, Len(s) - 1)) : \E j \in 1 .. Len(s) :
              SubSeq(s, 1, Len(s) - 1)[i] = s[j]
<1> DEFINE b2 == [b EXCEPT ![n] = Nul]
           s2 == SubSeq(s, 1, Len(s) - 1)
<1>1. n \in Cells
  BY TerminalAssumption DEF Cells, TerminalAssumption
<1>2. Len(s) = n
  BY DEF Buffered
<1>3. s2 \in Seq(Characters) /\ Len(s2) = n - 1 /\ \A i \in 1 .. n - 1 : s2[i] = s[i]
  <2>1. \A i \in 1 .. Len(s) - 1 : s[i] \in Characters
    BY <1>2
  <2>2. /\ s2 \in Seq(Characters)
        /\ Len(s2) = IF 1 <= Len(s) - 1 THEN Len(s) - 1 - 1 + 1 ELSE 0
        /\ \A i \in 1 .. Len(s) - 1 - 1 + 1 : s2[i] = s[1 + i - 1]
    BY <1>2, <2>1, SubSeqProperties
  <2> QED
    BY <1>2, <2>2
<1>4. \A i \in 0 .. (n - 1) - 1 : b2[i] = s2[i + 1]
  <2> SUFFICES ASSUME NEW i \in 0 .. (n - 1) - 1 PROVE b2[i] = s2[i + 1]
    OBVIOUS
  <2>1. i \in Cells /\ i # n /\ i \in 0 .. n - 1 /\ i + 1 \in 1 .. n - 1
    BY <1>1, CellsFacts
  <2> QED
    BY <1>3, <2>1 DEF Buffered
<1>5. ASSUME "unread" \notin why, NEW i \in Cells, i > n - 1 PROVE b2[i] = Nul
  <2>1. i = n \/ i > n
    BY <1>5, CellsFacts
  <2> QED
    BY <1>1, <1>5, <2>1 DEF Buffered
<1>6. \A i \in 1 .. Len(s2) : \E j \in 1 .. Len(s) : s2[i] = s[j]
  BY <1>2, <1>3
<1> HIDE DEF b2, s2
<1> QED
  BY <1>3, <1>4, <1>5, <1>6 DEF Buffered, b2, s2

(* A read of m bytes from a line whose first empty cell is e. *)
LEMMA ReadLine ==
  ASSUME NEW b \in [Cells -> Characters \cup {Nul}], NEW n \in Cells, NEW s \in Seq(Characters),
         NEW why, Buffered(b, n, s, why), NEW e \in Cells,
         b[e] = Nul, \A j \in 0 .. e - 1 : b[j] # Nul, NEW m \in Nat
  PROVE  Buffered([i \in Cells |-> IF i < (IF m < e THEN m ELSE e) THEN Nul ELSE b[i]], 0, <<>>,
                  IF m < e THEN why \cup {"unread"} ELSE why \ {"erased"})
<1> DEFINE b2 == [i \in Cells |-> IF i < (IF m < e THEN m ELSE e) THEN Nul ELSE b[i]]
           why2 == IF m < e THEN why \cup {"unread"} ELSE why \ {"erased"}
<1>1. Len(<<>>) = 0
  BY EmptySeq
<1>2. 0 \in Cells /\ \A i \in 0 .. 0 - 1 : FALSE
  BY TerminalAssumption DEF Cells, TerminalAssumption
<1>3. e >= n
  <2> SUFFICES ASSUME e < n PROVE FALSE
    BY CellsFacts
  <2>1. e \in 0 .. n - 1 /\ e + 1 \in 1 .. n /\ Len(s) = n
    BY CellsFacts DEF Buffered
  <2>2. b[e] = s[e + 1] /\ s[e + 1] \in Characters
    BY <2>1 DEF Buffered
  <2> QED
    BY <2>2, CellsFacts
<1>4. ASSUME "unread" \notin why2, NEW i \in Cells PROVE b2[i] = Nul
  <2>1. ~(m < e) /\ "unread" \notin why
    BY <1>4
  <2>2. CASE i < e
    BY <2>1, <2>2
  <2>3. CASE ~(i < e)
    <3>1. i = e \/ i > n
      BY <1>3, <2>3, CellsFacts
    <3> QED
      BY <2>1, <2>3, <3>1 DEF Buffered
  <2> QED
    BY <2>2, <2>3
<1>5. why2 = {} => "unread" \notin why2
  OBVIOUS
<1> HIDE DEF b2, why2
<1> QED
  BY <1>1, <1>2, <1>4, <1>5 DEF Buffered, b2, why2

(* FirstEmpty is what its name says. *)
LEMMA FirstEmptyFound ==
  ASSUME NEW t \in Terminals, keyboard_buffer[t][KEYBOARD_MAX_BUFFER - 1] = Nul
  PROVE  /\ FirstEmpty(t) \in Cells /\ keyboard_buffer[t][FirstEmpty(t)] = Nul
         /\ \A j \in 0 .. FirstEmpty(t) - 1 : keyboard_buffer[t][j] # Nul
<1> DEFINE Empty == {i \in Cells : keyboard_buffer[t][i] = Nul}
<1>1. Empty # {} /\ Empty \in SUBSET Nat
  BY CellsFacts
<1>2. PICK i \in Empty : \A j \in Empty : <<j, i>> \notin OpToRel(<, Nat)
  BY <1>1, NatLessThanWellFounded, WFMin
<1>3. \A j, k \in Nat : j < k => <<j, k>> \in OpToRel(<, Nat)
  BY Zenon DEF OpToRel
<1>4. \A j \in Empty : ~(j < i)
  BY <1>1, <1>2, <1>3
<1>5. \A j \in 0 .. i - 1 : keyboard_buffer[t][j] # Nul
  BY <1>1, <1>4, CellsFacts
<1> QED
  BY <1>2, <1>5 DEF FirstEmpty

-----------------------------------------------------------------------------
(* The part of the type invariant that is about the line buffers, and what *)
(* holds of them.                                                          *)
BufferTypes ==
  /\ keyboard_buffer \in [Terminals -> [Cells -> Characters \cup {Nul}]]
  /\ keyboard_buffer_size \in [Terminals -> Cells]
  /\ allow_terminal_read \in [Terminals -> BOOLEAN]
  /\ typed \in [Terminals -> Seq(Characters)]
  /\ stale \in [Terminals -> SUBSET {"erased", "unread"}]

ScreenTypes == screen_x \in Int /\ screen_y \in Int

BufferInv == BufferTypes /\ Room /\ LastFree /\ LinesBuffered /\ NoLostEnter

LEMMA TypeSplit ==
  TypeOK <=> /\ ScreenTypes /\ BufferTypes
             /\ put \in PutSteps /\ display_terminal_id \in Terminals
             /\ cursor_pos \in [Terminals -> Int \X Int]
             /\ held \subseteq Tracked /\ call \in {"none", "spin", "copy", "write"}
<1>1. Characters \cup {Nul} = Glyphs \cup {Newline, Nul}
  BY DEF Characters
<1> QED
  BY <1>1 DEF TypeOK, ScreenTypes, BufferTypes, Characters

LEMMA PutcTyped ==
  ASSUME ScreenTypes, NEW c, Putc(c) PROVE ScreenTypes'
BY ScreenAssumption DEF ScreenTypes, Putc, NextRow, LastRow, LastCol, ScreenAssumption

LEMMA EraseTyped ==
  ASSUME ScreenTypes, EraseLast PROVE ScreenTypes'
BY ScreenAssumption DEF ScreenTypes, EraseLast, NextRow, LastRow, LastCol, ScreenAssumption

(* A key that is added to the line. *)
LEMMA AddInv ==
  ASSUME BufferInv, ScreenTypes, d \in Terminals, NEW c \in Characters, terminal_buf_add(c)
  PROVE  BufferInv' /\ ScreenTypes'
<1>1. CASE BufferFull
  BY <1>1 DEF terminal_buf_add, BufferInv, BufferTypes, Room, LastFree, LinesBuffered, NoLostEnter,
              ScreenTypes, buffers, history, screen
<1>2. CASE ~BufferFull
  <2> DEFINE n == keyboard_buffer_size[d]
  <2>1. /\ keyboard_buffer' = [keyboard_buffer EXCEPT ![d] = [keyboard_buffer[d] EXCEPT ![n] = c]]
        /\ keyboard_buffer_size' = [keyboard_buffer_size EXCEPT ![d] = n + 1]
        /\ allow_terminal_read' = [allow_terminal_read EXCEPT ![d] = @ \/ c = Newline]
        /\ typed' = [typed EXCEPT ![d] = Append(typed[d], c)]
        /\ stale' = [stale EXCEPT ![d] = stale[d] \ {"erased"}]
        /\ Putc(c)
    BY <1>2 DEF terminal_buf_add
  <2>2. n \in Nat /\ n < KEYBOARD_MAX_BUFFER - 2 /\ n \in Cells /\ n + 1 \in Cells
    BY <1>2, TerminalAssumption DEF BufferInv, BufferTypes, BufferFull, Cells, TerminalAssumption
  <2>3. Buffered(keyboard_buffer[d], n, typed[d], stale[d])
    BY DEF BufferInv, LinesBuffered
  <2>4. Buffered([keyboard_buffer[d] EXCEPT ![n] = c], n + 1, Append(typed[d], c), stale[d] \ {"erased"})
    BY <2>2, <2>3, AddLine DEF BufferInv, BufferTypes
  <2>5. /\ Append(typed[d], c) \in Seq(Characters)
        /\ \A i \in 1 .. Len(Append(typed[d], c)) :
             Append(typed[d], c)[i] = c \/ \E j \in 1 .. Len(typed[d]) : Append(typed[d], c)[i] = typed[d][j]
    <3>1. typed[d] \in Seq(Characters)
      BY DEF BufferInv, BufferTypes
    <3> DEFINE s == typed[d]
    <3>2. Len(s) \in Nat
      BY <3>1, LenProperties
    <3> HIDE DEF s
    <3>3. /\ Append(s, c) \in Seq(Characters) /\ Len(Append(s, c)) = Len(s) + 1
          /\ \A i \in 1 .. Len(s) : Append(s, c)[i] = s[i]
          /\ Append(s, c)[Len(s) + 1] = c
      BY <3>1, AppendProperties DEF s
    <3>4. \A i \in 1 .. Len(Append(s, c)) : i \in 1 .. Len(s) \/ i = Len(s) + 1
      BY <3>2, <3>3
    <3> QED
      BY <3>3, <3>4 DEF s
  <2> HIDE DEF n
  <2>6. BufferTypes'
    BY <2>1, <2>2, <2>5 DEF BufferInv, BufferTypes
  <2>7. Room'
    <3>1. n + 1 <= KEYBOARD_MAX_BUFFER - 2
      BY <2>2, TerminalAssumption DEF TerminalAssumption
    <3> QED
      BY <2>1, <3>1 DEF BufferInv, BufferTypes, Room
  <2>8. LastFree'
    <3>1. n # KEYBOARD_MAX_BUFFER - 1
      BY <2>2, TerminalAssumption DEF TerminalAssumption
    <3> QED
      BY <2>1, <2>2, <3>1, CellsFacts DEF BufferInv, BufferTypes, LastFree
  <2>9. LinesBuffered'
    BY <2>1, <2>4 DEF BufferInv, BufferTypes, LinesBuffered
  <2>10. NoLostEnter'
    <3> SUFFICES ASSUME NEW t \in Terminals, NEW i \in 1 .. Len(typed'[t]), typed'[t][i] = Newline
                 PROVE  allow_terminal_read'[t]
      BY DEF NoLostEnter
    <3>1. CASE t # d
      BY <2>1, <3>1 DEF BufferInv, BufferTypes, NoLostEnter
    <3>2. CASE t = d
      <4>1. typed'[t] = Append(typed[d], c) /\ allow_terminal_read'[t] = (allow_terminal_read[d] \/ c = Newline)
        BY <2>1, <3>2 DEF BufferInv, BufferTypes
      <4> QED
        BY <2>5, <4>1 DEF BufferInv, NoLostEnter
    <3> QED
      BY <3>1, <3>2
  <2> QED
    BY <2>1, <2>6, <2>7, <2>8, <2>9, <2>10, PutcTyped DEF BufferInv
<1> QED
  BY <1>1, <1>2

LEMMA BackspaceInv ==
  ASSUME BufferInv, ScreenTypes, d \in Terminals, terminal_backspace
  PROVE  BufferInv' /\ ScreenTypes'
<1>1. CASE keyboard_buffer_size[d] = 0
  BY <1>1 DEF terminal_backspace, BufferInv, BufferTypes, Room, LastFree, LinesBuffered, NoLostEnter,
              ScreenTypes, buffers, history, screen
<1>2. CASE keyboard_buffer_size[d] # 0
  <2> DEFINE n == keyboard_buffer_size[d]
             s == typed[d]
             s2 == SubSeq(s, 1, Len(s) - 1)
  <2>1. /\ keyboard_buffer' = [keyboard_buffer EXCEPT ![d] = [keyboard_buffer[d] EXCEPT ![n] = Nul]]
        /\ keyboard_buffer_size' = [keyboard_buffer_size EXCEPT ![d] = n - 1]
        /\ allow_terminal_read' = allow_terminal_read
        /\ typed' = [typed EXCEPT ![d] = s2]
        /\ stale' = [stale EXCEPT ![d] = stale[d] \cup {"erased"}]
        /\ EraseLast
    BY <1>2 DEF terminal_backspace
  <2>2. n \in Nat \ {0} /\ n <= KEYBOARD_MAX_BUFFER - 2 /\ n \in Cells /\ n - 1 \in Cells
    BY <1>2, TerminalAssumption DEF BufferInv, BufferTypes, Room, Cells, TerminalAssumption
  <2>3. Buffered(keyboard_buffer[d], n, s, stale[d])
    BY DEF BufferInv, LinesBuffered
  <2>4. /\ Buffered([keyboard_buffer[d] EXCEPT ![n] = Nul], n - 1, s2, stale[d] \cup {"erased"})
        /\ s2 \in Seq(Characters)
        /\ \A i \in 1 .. Len(s2) : \E j \in 1 .. Len(s) : s2[i] = s[j]
    <3>1. keyboard_buffer[d] \in [Cells -> Characters \cup {Nul}] /\ s \in Seq(Characters)
      BY DEF BufferInv, BufferTypes
    <3> HIDE DEF n, s
    <3> QED
      BY <2>2, <2>3, <3>1, EraseLine
  <2> HIDE DEF n, s2
  <2>5. BufferTypes'
    BY <2>1, <2>2, <2>4 DEF BufferInv, BufferTypes
  <2>6. Room'
    <3>1. n - 1 <= KEYBOARD_MAX_BUFFER - 2
      BY <2>2, TerminalAssumption DEF TerminalAssumption
    <3> QED
      BY <2>1, <3>1 DEF BufferInv, BufferTypes, Room
  <2>7. LastFree'
    BY <2>1, <2>2, CellsFacts DEF BufferInv, BufferTypes, LastFree
  <2>8. LinesBuffered'
    BY <2>1, <2>4 DEF BufferInv, BufferTypes, LinesBuffered
  <2>9. NoLostEnter'
    <3> SUFFICES ASSUME NEW t \in Terminals, NEW i \in 1 .. Len(typed'[t]), typed'[t][i] = Newline
                 PROVE  allow_terminal_read'[t]
      BY DEF NoLostEnter
    <3>1. CASE t # d
      BY <2>1, <3>1 DEF BufferInv, BufferTypes, NoLostEnter
    <3>2. CASE t = d
      <4>1. typed'[t] = s2
        BY <2>1, <3>2 DEF BufferInv, BufferTypes
      <4> QED
        BY <2>1, <2>4, <3>2, <4>1 DEF BufferInv, NoLostEnter
    <3> QED
      BY <3>1, <3>2
  <2> QED
    BY <2>1, <2>5, <2>6, <2>7, <2>8, <2>9, EraseTyped DEF BufferInv
<1> QED
  BY <1>1, <1>2

(* What a read takes out of the displayed terminal's buffer. *)
LEMMA CopyInv ==
  ASSUME BufferInv, d \in Terminals, NEW m \in ReadSizes, ReadCopy(m)
  PROVE  BufferInv'
<1> DEFINE e == FirstEmpty(d)
           b == keyboard_buffer[d]
           n == keyboard_buffer_size[d]
           b2 == [i \in Cells |-> IF i < (IF m < e THEN m ELSE e) THEN Nul ELSE b[i]]
           why2 == IF m < e THEN stale[d] \cup {"unread"} ELSE stale[d] \ {"erased"}
<1>1. /\ keyboard_buffer' = [keyboard_buffer EXCEPT ![d] = b2]
      /\ keyboard_buffer_size' = [keyboard_buffer_size EXCEPT ![d] = 0]
      /\ allow_terminal_read' = [allow_terminal_read EXCEPT ![d] = FALSE]
      /\ typed' = [typed EXCEPT ![d] = <<>>]
      /\ stale' = [stale EXCEPT ![d] = why2]
  BY DEF ReadCopy, EmptyCells, Copied, StopRead
<1>2. /\ e \in Cells /\ b[e] = Nul /\ (\A j \in 0 .. e - 1 : b[j] # Nul)
      /\ b \in [Cells -> Characters \cup {Nul}] /\ n \in Cells /\ typed[d] \in Seq(Characters)
      /\ Buffered(b, n, typed[d], stale[d])
  BY FirstEmptyFound DEF BufferInv, BufferTypes, LastFree, LinesBuffered
<1>3. m \in Nat
  BY TerminalAssumption DEF TerminalAssumption
<1>4. Buffered(b2, 0, <<>>, why2)
  <2> HIDE DEF e, b, n
  <2> QED
    BY <1>2, <1>3, ReadLine
<1>5. /\ b2 \in [Cells -> Characters \cup {Nul}] /\ b2[KEYBOARD_MAX_BUFFER - 1] = Nul
      /\ why2 \in SUBSET {"erased", "unread"}
  <2>1. b[KEYBOARD_MAX_BUFFER - 1] = Nul
    BY DEF BufferInv, LastFree
  <2>2. stale[d] \in SUBSET {"erased", "unread"}
    BY DEF BufferInv, BufferTypes
  <2> HIDE DEF e, b
  <2> QED
    BY <1>2, <2>1, <2>2, CellsFacts
<1>6. 0 \in Cells /\ 0 <= KEYBOARD_MAX_BUFFER - 2 /\ <<>> \in Seq(Characters) /\ Len(<<>>) = 0
  BY TerminalAssumption, EmptySeq DEF Cells, TerminalAssumption
<1> HIDE DEF b2, why2, e, b, n
<1>7. BufferTypes'
  BY <1>1, <1>5, <1>6 DEF BufferInv, BufferTypes
<1>8. Room' /\ LastFree' /\ LinesBuffered'
  BY <1>1, <1>4, <1>5, <1>6 DEF BufferInv, BufferTypes, Room, LastFree, LinesBuffered
<1>9. NoLostEnter'
  BY <1>1, <1>6 DEF BufferInv, BufferTypes, NoLostEnter
<1> QED
  BY <1>7, <1>8, <1>9 DEF BufferInv

-----------------------------------------------------------------------------
THEOREM InitInv == Init => IInv
<1> SUFFICES ASSUME Init PROVE IInv
  OBVIOUS
<1>1. 0 \in Cells /\ 0 <= KEYBOARD_MAX_BUFFER - 2 /\ <<>> \in Seq(Characters) /\ Len(<<>>) = 0
  BY TerminalAssumption, EmptySeq DEF Cells, TerminalAssumption
<1>2. 0 \in Terminals
  BY TerminalAssumption DEF Terminals, TerminalAssumption
<1>3. BufferTypes /\ Room /\ LastFree /\ NoLostEnter
  BY <1>1, CellsFacts DEF Init, BufferTypes, Room, LastFree, NoLostEnter
<1>4. \A i \in 0 .. 0 - 1 : FALSE
  OBVIOUS
<1>5. LinesBuffered
  BY <1>1, <1>4 DEF Init, LinesBuffered, Buffered
<1>6. TypeOK
  BY <1>2, <1>3, TypeSplit DEF Init, ScreenTypes, PutSteps
<1> QED
  BY <1>3, <1>5, <1>6 DEF IInv

LEMMA BuffersKept ==
  ASSUME BufferInv, UNCHANGED <<buffers, history>> PROVE BufferInv'
BY DEF BufferInv, BufferTypes, Room, LastFree, LinesBuffered, NoLostEnter, buffers, history

(* The terminal that Alt and the F keys select: the lowest of those down.  *)
LEMMA SelectedFound ==
  ASSUME NEW keys, Selected(keys) # {}
  PROVE  (CHOOSE t \in Selected(keys) : \A u \in Selected(keys) : t <= u) \in Terminals
<1>1. Selected(keys) \subseteq Terminals /\ Terminals \subseteq 0 .. 2
  BY TerminalAssumption DEF Selected, Terminals, TerminalAssumption
<1>2. ASSUME NEW S \in SUBSET (0 .. 2), S # {} PROVE \E t \in S : \A u \in S : t <= u
  <2>1. CASE 0 \in S
    BY <2>1
  <2>2. CASE 0 \notin S /\ 1 \in S
    BY <2>2
  <2>3. CASE 0 \notin S /\ 1 \notin S
    <3>1. \A u \in S : u = 2
      BY <2>3
    <3>2. 2 \in S
      BY <1>2, <3>1
    <3> QED
      BY <3>1, <3>2
  <2> QED
    BY <2>1, <2>2, <2>3
<1>3. \E t \in Selected(keys) : \A u \in Selected(keys) : t <= u
  BY <1>1, <1>2
<1> QED
  BY <1>1, <1>3

LEMMA SwitchTyped ==
  ASSUME TypeOK, NEW t \in Terminals, SwitchDisplay(t)
  PROVE  /\ ScreenTypes' /\ display_terminal_id' \in Terminals
         /\ cursor_pos' \in [Terminals -> Int \X Int]
<1>1. CASE t = d
  BY <1>1 DEF SwitchDisplay, TypeOK, ScreenTypes, screen
<1>2. CASE t # d
  <2>1. cursor_pos[t] \in Int \X Int /\ screen \in Int \X Int
    BY DEF TypeOK, screen
  <2> QED
    BY <1>2, <2>1 DEF SwitchDisplay, TypeOK, ScreenTypes
<1> QED
  BY <1>1, <1>2

(* Whatever a key event asks for. *)
LEMMA DispatchInv ==
  ASSUME TypeOK, BufferInv, NEW keys, keys \subseteq Tracked, NEW code, NEW printed,
         printed \subseteq Characters, Dispatch(keys, code, printed), UNCHANGED <<put, call>>
  PROVE  TypeOK' /\ BufferInv'
<1>1. held' = keys /\ put' = put /\ call' = call
  BY DEF Dispatch
<1>2. d \in Terminals /\ ScreenTypes
  BY TypeSplit DEF d
<1>3. CASE {"ctrl", LetterL} \subseteq keys
  <2>1. ClearScreen /\ UNCHANGED <<display_terminal_id, cursor_pos, buffers, history>>
    BY <1>3 DEF Dispatch
  <2>2. ScreenTypes' /\ BufferInv'
    BY <2>1, BuffersKept DEF ClearScreen, ScreenTypes
  <2> QED
    BY <1>1, <2>1, <2>2, TypeSplit DEF BufferInv, TypeOK, ScreenTypes, BufferTypes, Characters
<1>4. CASE ~({"ctrl", LetterL} \subseteq keys) /\ code = "backspace"
  <2>1. terminal_backspace /\ UNCHANGED <<display_terminal_id, cursor_pos>>
    BY <1>4 DEF Dispatch
  <2>2. ScreenTypes' /\ BufferInv'
    BY <1>2, <2>1, BackspaceInv
  <2> QED
    BY <1>1, <2>1, <2>2 DEF BufferInv, TypeOK, ScreenTypes, BufferTypes, Characters
<1>5. CASE /\ ~({"ctrl", LetterL} \subseteq keys) /\ code # "backspace"
           /\ "alt" \in keys /\ Selected(keys) # {}
  <2> DEFINE t == CHOOSE t \in Selected(keys) : \A u \in Selected(keys) : t <= u
  <2>1. SwitchDisplay(t) /\ UNCHANGED <<buffers, history>>
    BY <1>5 DEF Dispatch
  <2>2. t \in Terminals
    BY <1>5, SelectedFound
  <2> HIDE DEF t
  <2>3. /\ ScreenTypes' /\ display_terminal_id' \in Terminals
        /\ cursor_pos' \in [Terminals -> Int \X Int]
    BY <2>1, <2>2, SwitchTyped
  <2>4. BufferInv'
    BY <2>1, BuffersKept
  <2> QED
    BY <1>1, <2>3, <2>4 DEF BufferInv, TypeOK, ScreenTypes, BufferTypes, Characters
<1>6. CASE /\ ~({"ctrl", LetterL} \subseteq keys) /\ code # "backspace"
           /\ ~("alt" \in keys /\ Selected(keys) # {}) /\ printed # {}
  <2>1. (\E c \in printed : terminal_buf_add(c)) /\ UNCHANGED <<display_terminal_id, cursor_pos>>
    BY <1>6 DEF Dispatch
  <2>2. ScreenTypes' /\ BufferInv'
    BY <1>2, <2>1, AddInv
  <2> QED
    BY <1>1, <2>1, <2>2 DEF BufferInv, TypeOK, ScreenTypes, BufferTypes, Characters
<1>7. CASE /\ ~({"ctrl", LetterL} \subseteq keys) /\ code # "backspace"
           /\ ~("alt" \in keys /\ Selected(keys) # {}) /\ printed = {}
  <2>1. UNCHANGED <<screen, display_terminal_id, cursor_pos, buffers, history>>
    BY <1>7 DEF Dispatch
  <2>2. ScreenTypes' /\ BufferInv'
    BY <1>2, <2>1, BuffersKept DEF ScreenTypes, screen
  <2> QED
    BY <1>1, <2>1, <2>2 DEF BufferInv, TypeOK, ScreenTypes, BufferTypes, Characters
<1> QED
  BY <1>3, <1>4, <1>5, <1>6, <1>7

LEMMA KeyInv ==
  ASSUME TypeOK, BufferInv, NEW k \in Keys, Press(k) \/ Release(k) PROVE TypeOK' /\ BufferInv'
<1>1. held \subseteq Tracked
  BY DEF TypeOK
<1>2. CASE Press(k)
  <2> DEFINE keys == IF k \in Tracked THEN held \cup {k} ELSE held
             printed == {k} \cap (Glyphs \cup {Newline})
  <2>1. keys \subseteq Tracked /\ printed \subseteq Characters
    BY <1>1 DEF Characters
  <2>2. Dispatch(keys, k, printed) /\ UNCHANGED <<put, call>>
    BY <1>2 DEF Press
  <2> HIDE DEF keys, printed
  <2> QED
    BY <2>1, <2>2, DispatchInv
<1>3. CASE Release(k)
  <2>1. held \ {k} \subseteq Tracked /\ {} \subseteq Characters
    BY <1>1
  <2>2. Dispatch(held \ {k}, "release", {}) /\ UNCHANGED <<put, call>>
    BY <1>3 DEF Release
  <2> QED
    BY <2>1, <2>2, DispatchInv
<1> QED
  BY <1>2, <1>3

(* A step of putc leaves the position an integer. *)
LEMMA PutTyped ==
  ASSUME ScreenTypes, put \in PutSteps, PutStep \/ (\E c \in Characters : PutStart(c))
  PROVE  ScreenTypes' /\ put' \in PutSteps
<1> DEFINE To(x, y) == screen_x' = x /\ screen_y' = y
<1>0. ASSUME NEW x \in Int, NEW y \in Int, To(x, y) PROVE ScreenTypes'
  BY <1>0 DEF ScreenTypes
<1>1. LastRow \in Int /\ screen_x \in Int /\ screen_y \in Int
  BY ScreenAssumption DEF ScreenAssumption, LastRow, ScreenTypes
<1>2. put' \in PutSteps
  BY DEF PutStep, PutStart, PutNewline, PutGlyph, PutScroll, Step, PutSteps
<1>3. ScreenTypes'
  <2>1. CASE PutNewline
    <3>1. To(screen_x, screen_y) \/ To(screen_x, screen_y + 1) \/ To(0, screen_y)
      BY <2>1 DEF PutNewline, Step
    <3>2. 0 \in Int /\ screen_x + 1 \in Int /\ screen_y + 1 \in Int
      BY <1>1
    <3> HIDE DEF To
    <3> QED
      BY <1>0, <1>1, <3>1, <3>2
  <2>2. CASE PutGlyph
    <3>1. To(screen_x, screen_y) \/ To(screen_x + 1, screen_y) \/ To(0, screen_y) \/ To(screen_x, screen_y + 1)
      BY <2>2 DEF PutGlyph, Step
    <3>2. 0 \in Int /\ screen_x + 1 \in Int /\ screen_y + 1 \in Int
      BY <1>1
    <3> HIDE DEF To
    <3> QED
      BY <1>0, <1>1, <3>1, <3>2
  <2>3. CASE PutScroll
    <3>1. To(0, screen_y) \/ To(screen_x, LastRow)
      BY <2>3 DEF PutScroll, Step
    <3>2. 0 \in Int /\ screen_x + 1 \in Int /\ screen_y + 1 \in Int
      BY <1>1
    <3> HIDE DEF To
    <3> QED
      BY <1>0, <1>1, <3>1, <3>2
  <2>4. CASE \E c \in Characters : PutStart(c)
    BY <1>1, <2>4 DEF PutStart, Step, ScreenTypes
  <2> QED
    BY <2>1, <2>2, <2>3, <2>4 DEF PutStep
<1> QED
  BY <1>2, <1>3

LEMMA ProgramInv ==
  ASSUME TypeOK, BufferInv,
         \/ ReadCall \/ ReadSeen \/ (\E m \in ReadSizes : ReadCopy(m))
         \/ (\E c \in Glyphs \cup {Newline} : WriteChar(c)) \/ WriteStep
  PROVE  TypeOK' /\ BufferInv'
<1>1. CASE ReadCall \/ ReadSeen
  <2>1. BufferInv'
    BY <1>1, BuffersKept DEF ReadCall, ReadSeen
  <2> QED
    BY <1>1, <2>1 DEF BufferInv, TypeOK, BufferTypes, Characters, ReadCall, ReadSeen, screen
<1>2. CASE \E m \in ReadSizes : ReadCopy(m)
  <2>1. PICK m \in ReadSizes : ReadCopy(m)
    BY <1>2
  <2>2. BufferInv'
    BY <2>1, CopyInv DEF TypeOK, d
  <2> QED
    BY <2>1, <2>2 DEF BufferInv, TypeOK, BufferTypes, Characters, ReadCopy, screen
<1>3. CASE (\E c \in Glyphs \cup {Newline} : WriteChar(c)) \/ WriteStep
  <2>1. BufferInv'
    BY <1>3, BuffersKept DEF WriteChar, WriteStep
  <2>2. PutStep \/ (\E c \in Characters : PutStart(c))
    BY <1>3 DEF WriteChar, WriteStep, Characters
  <2>3. ScreenTypes' /\ put' \in PutSteps
    BY <2>2, PutTyped DEF TypeOK, ScreenTypes
  <2> QED
    BY <1>3, <2>1, <2>3 DEF BufferInv, TypeOK, ScreenTypes, BufferTypes, Characters, WriteChar, WriteStep
<1> QED
  BY <1>1, <1>2, <1>3

THEOREM NextInv == IInv /\ [Next]_vars => IInv'
<1> SUFFICES ASSUME TypeOK, BufferInv, [Next]_vars PROVE TypeOK' /\ BufferInv'
  BY TypeSplit DEF IInv, BufferInv
<1>1. CASE UNCHANGED vars
  <2>1. BufferInv'
    BY <1>1, BuffersKept DEF vars
  <2> QED
    BY <1>1, <2>1 DEF vars, BufferInv, TypeOK, BufferTypes, Characters, screen
<1>2. CASE \E k \in Keys : Press(k) \/ Release(k)
  BY <1>2, KeyInv
<1>3. CASE \/ ReadCall \/ ReadSeen \/ (\E m \in ReadSizes : ReadCopy(m))
           \/ (\E c \in Glyphs \cup {Newline} : WriteChar(c)) \/ WriteStep
  BY <1>3, ProgramInv
<1> QED
  BY <1>1, <1>2, <1>3 DEF Next

THEOREM SpecInv == Spec => []IInv
BY InitInv, NextInv, PTL DEF Spec

-----------------------------------------------------------------------------
(* Every variable of the terminals and the console has its type: no index  *)
(* into a line buffer leaves it (keyboard.c).                              *)
THEOREM TerminalTypeCorrect == Spec => []TypeOK
<1>1. IInv => TypeOK
  BY DEF IInv
<1> QED
  BY <1>1, SpecInv, PTL

(* The copy loop of terminal_read, which has no bound of its own on the    *)
(* buffer, ends on an empty cell inside it.                                *)
THEOREM ReadStaysInBuffer == Spec => []LoopStopsInBuffer
<1>1. IInv => LoopStopsInBuffer
  BY CellsFacts DEF IInv, LastFree, LoopStopsInBuffer
<1> QED
  BY <1>1, SpecInv, PTL

(* No Enter is forgotten: while a line with one waits, the flag that lets  *)
(* terminal_read go on is set.                                             *)
THEOREM EnterKept == Spec => []NoLostEnter
<1>1. IInv => NoLostEnter
  BY DEF IInv
<1> QED
  BY <1>1, SpecInv, PTL

(* A read takes the line as it was typed and corrected, and no more.       *)
THEOREM LineRead == Spec => []LineInBuffer
<1>1. IInv => LineInBuffer
  <2> SUFFICES ASSUME IInv, NEW t \in Terminals, stale[t] = {}
               PROVE  [i \in 1 .. FirstEmpty(t) |-> keyboard_buffer[t][i - 1]] = typed[t]
    BY DEF LineInBuffer
  <2> DEFINE b == keyboard_buffer[t]
             n == keyboard_buffer_size[t]
             s == typed[t]
             e == FirstEmpty(t)
  <2>1. b \in [Cells -> Characters \cup {Nul}] /\ n \in Cells /\ s \in Seq(Characters)
    BY TypeSplit DEF IInv, BufferTypes
  <2>2. Len(s) = n /\ (\A i \in 0 .. n - 1 : b[i] = s[i + 1]) /\ b[n] = Nul
    BY DEF IInv, LinesBuffered, Buffered
  <2>3. e \in Cells /\ b[e] = Nul /\ \A j \in 0 .. e - 1 : b[j] # Nul
    BY FirstEmptyFound DEF IInv, LastFree
  <2> HIDE DEF b, n, s, e
  <2>4. ~(e < n)
    <3> SUFFICES ASSUME e < n PROVE FALSE
      OBVIOUS
    <3>1. e \in 0 .. n - 1 /\ e + 1 \in 1 .. n
      BY <2>1, <2>3, CellsFacts
    <3>2. s[e + 1] \in Characters
      BY <2>1, <2>2, <3>1
    <3> QED
      BY <2>2, <2>3, <3>1, <3>2, CellsFacts
  <2>5. ~(n < e)
    BY <2>1, <2>2, <2>3, CellsFacts
  <2>6. e = n
    BY <2>1, <2>3, <2>4, <2>5, CellsFacts
  <2>7. s = [i \in 1 .. n |-> s[i]]
    BY <2>1, <2>2, LenProperties
  <2>8. \A i \in 1 .. n : b[i - 1] = s[i]
    <3> SUFFICES ASSUME NEW i \in 1 .. n PROVE b[i - 1] = s[i]
      OBVIOUS
    <3>1. n \in Nat /\ i - 1 \in 0 .. n - 1 /\ (i - 1) + 1 = i
      BY <2>1, CellsFacts
    <3> QED
      BY <2>2, <3>1
  <2>9. [i \in 1 .. e |-> b[i - 1]] = s
    BY <2>6, <2>7, <2>8
  <2> QED
    BY <2>9 DEF b, e, s
<1> QED
  BY <1>1, SpecInv, PTL
=============================================================================
