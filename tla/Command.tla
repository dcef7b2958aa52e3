------------------------------ MODULE Command ------------------------------
(***************************************************************************)
(* What execute makes of a command line and getargs of its argument        *)
(* (system_call.c).  A line is a sequence of characters without the NUL    *)
(* that ends it; the buffers of the kernel are functions from 0 on.        *)
(***************************************************************************)
EXTENDS Integers, Sequences, FiniteSetsExt

CONSTANTS
  TASKNAME_SIZE, ARGUMENT_SIZE,   \* both with room for a NUL (33 and 129)
  SPACE, NEWLINE, NUL

At(c, i) == IF i <= Len(c) THEN c[i] ELSE NUL

(* Where a loop that began at from stops: at the first place that is so.   *)
First(c, from, Stops(_)) == Min({i \in from .. Len(c) + 1 : Stops(i)})

AfterSpaces(c, from) ==
  LET NoSpace(i) == At(c, i) # SPACE IN First(c, from, NoSpace)

EndsWord(c, i) == At(c, i) \in {SPACE, NEWLINE, NUL}

NameEnd(c, from) ==
  LET Stops(i) == EndsWord(c, i) \/ i - from = TASKNAME_SIZE - 1 IN First(c, from, Stops)

(* Spaces inside an argument and behind it are kept. *)
ArgumentEnd(c, from) ==
  LET Stops(i) == At(c, i) \in {NEWLINE, NUL} \/ i - from = ARGUMENT_SIZE - 1
  IN First(c, from, Stops)

(* Nothing but the end of a word may follow the last character kept. *)
TooLong_Never(c, start, stop) == FALSE
TooLong(c, start, stop) == stop - start = TASKNAME_SIZE - 1 /\ ~EndsWord(c, stop)

(* The first part of execute.  A name that goes on is refused, a longer    *)
(* argument is cut.                                                        *)
parse(c) ==
  LET start == AfterSpaces(c, 1)
      stop == NameEnd(c, start)
      from == AfterSpaces(c, stop)
  IN [name |-> SubSeq(c, start, stop - 1),
      toolong |-> TooLong(c, start, stop),
      argument |-> SubSeq(c, from, ArgumentEnd(c, from) - 1)]

(* argument_buf of the PCB: the local array with what the stack held       *)
(* behind the NUL.                                                         *)
ArgumentBuf(argument, stack) ==
  [k \in 0 .. ARGUMENT_SIZE - 1 |-> IF k < Len(argument) THEN argument[k + 1]
                                    ELSE IF k = Len(argument) THEN NUL ELSE stack[k]]

strlen(buf) == Min({k \in DOMAIN buf : buf[k] = NUL})

(* getargs(buf, nbytes): the caller's buffer as memset and memcpy leave it; *)
(* the empty function is -1, which leaves it alone.                        *)
Refused == <<>>

Fits_WithNul(buf, nbytes) == strlen(buf) < nbytes
Fits(buf, nbytes) == strlen(buf) <= nbytes

getargs(buf, nbytes) ==
  IF ~Fits(buf, nbytes) \/ buf[0] = NUL THEN Refused
  ELSE [k \in 0 .. nbytes - 1 |-> IF k < ARGUMENT_SIZE THEN buf[k] ELSE NUL]
=============================================================================
