------------------------------ MODULE Library ------------------------------
(***************************************************************************)
(* memset, memcpy and memmove of lib.c, register by register.  Each is an  *)
(* assembly loop that stores bytes up to a dword boundary, then dwords     *)
(* with a rep instruction, then the bytes that are left; memmove stores    *)
(* bytes only, in the direction the overlap asks for.                      *)
(*                                                                         *)
(* They are called again and again by the same processor, whose direction  *)
(* flag a call leaves as it is: memmove returns with it set.  An interrupt *)
(* between two steps saves the registers and the flags.                    *)
(*                                                                         *)
(* A byte is named by the address it was at when the call began.           *)
(***************************************************************************)
EXTENDS Integers

CONSTANTS
  LastCell,     \* bound: the highest address of the memory calls work on
  Fill          \* the byte memset stores

Cells == 0 .. LastCell

ASSUME LibraryAssumption == LastCell \in Nat /\ Fill \notin Nat

VARIABLES
  mem,                  \* the memory
  edi, esi, ecx, edx,   \* registers
  df,                   \* the direction flag: string instructions count down
  pc,                   \* the label the processor is at
  call                  \* the function called and its arguments

regs == <<edi, esi, ecx, edx>>
vars == <<mem, regs, df, pc, call>>

Functions == {"memset", "memcpy", "memmove"}
Calls ==
  {c \in [fn : Functions, dest : Cells, src : Cells, n : 0 .. LastCell + 1] :
     /\ c.dest + c.n <= LastCell + 1 /\ c.src + c.n <= LastCell + 1
     /\ c.fn = "memset" => c.src = c.dest}     \* it has no source

NoCall == [fn |-> "memset", dest |-> 0, src |-> 0, n |-> 0]
Untouched == [a \in Cells |-> a]

Init ==
  /\ mem = Untouched
  /\ edi = 0 /\ esi = 0 /\ ecx = 0 /\ edx = 0
  /\ df = FALSE
  /\ pc = "idle"
  /\ call = NoCall

-----------------------------------------------------------------------------
(* A call with both areas inside the memory. *)
Call(c) ==
  /\ pc = "idle"
  /\ call' = c
  /\ edi' = c.dest /\ esi' = c.src /\ ecx' = c.n
  /\ pc' = IF c.fn = "memmove" THEN "direction" ELSE "top"
  /\ UNCHANGED <<mem, edx, df>>

(* What a store of `width' bytes through edi writes: al or eax for memset, *)
(* what esi points to for the copies.                                      *)
Stored(a) == IF call.fn = "memset" THEN Fill ELSE mem[esi + (a - edi)]
Store(width) ==
  mem' = [a \in Cells |-> IF a \in edi .. edi + width - 1 THEN Stored(a) ELSE mem[a]]

Advance(by) ==
  /\ edi' = edi + by
  /\ esi' = IF call.fn = "memset" THEN esi ELSE esi + by

(* .memset_top, .memcpy_top: a byte, as long as edi is not on a boundary. *)
OnBoundary == edi % 4 = 0

HeadByte ==
  /\ pc = "top" /\ ecx # 0 /\ ~OnBoundary
  /\ Store(1) /\ Advance(1)
  /\ ecx' = ecx - 1
  /\ UNCHANGED <<edx, df, pc, call>>

(* .memset_aligned, .memcpy_aligned: what the dwords leave goes to edx. *)
Remainder_Unmasked == ecx
Remainder == ecx % 4

ClearDirection == df' = FALSE

Aligned ==
  /\ pc = "top" /\ ecx # 0 /\ OnBoundary
  /\ edx' = Remainder
  /\ ecx' = ecx \div 4
  /\ ClearDirection
  /\ pc' = "dwords"
  /\ UNCHANGED <<mem, edi, esi, call>>

(* rep stosl, rep movsl: the direction flag says where to go on. *)
Dword ==
  /\ pc = "dwords" /\ ecx # 0
  /\ Store(4) /\ Advance(IF df THEN -4 ELSE 4)
  /\ ecx' = ecx - 1
  /\ UNCHANGED <<edx, df, pc, call>>

DwordsDone ==
  /\ pc = "dwords" /\ ecx = 0
  /\ pc' = "bottom"
  /\ UNCHANGED <<mem, regs, df, call>>

(* .memset_bottom, .memcpy_bottom *)
TailByte ==
  /\ pc = "bottom" /\ edx # 0
  /\ Store(1) /\ Advance(1)
  /\ edx' = edx - 1
  /\ UNCHANGED <<ecx, df, pc, call>>

(* memmove: forwards when the source is not below the destination. *)
Forwards_Always == TRUE
Forwards == esi >= edi

LastByte_OneLate == ecx
LastByte == ecx - 1

Direction ==
  /\ pc = "direction"
  /\ IF Forwards
     THEN df' = FALSE /\ UNCHANGED <<edi, esi>>
     ELSE df' = TRUE /\ esi' = esi + LastByte /\ edi' = edi + LastByte
  /\ pc' = "bytes"
  /\ UNCHANGED <<mem, ecx, edx, call>>

(* .memmove_go: rep movsb *)
MoveByte ==
  /\ pc = "bytes" /\ ecx # 0
  /\ Store(1) /\ Advance(IF df THEN -1 ELSE 1)
  /\ ecx' = ecx - 1
  /\ UNCHANGED <<edx, df, pc, call>>

(* memmove does not clear the direction flag again. *)
Return ==
  /\ \/ pc \in {"top", "bytes"} /\ ecx = 0
     \/ pc = "bottom" /\ edx = 0
  /\ pc' = "returned"
  /\ UNCHANGED <<mem, regs, df, call>>

(* The caller goes on with registers of its own, and the direction flag. *)
Continue ==
  /\ pc = "returned"
  /\ mem' = Untouched
  /\ edi' = 0 /\ esi' = 0 /\ ecx' = 0 /\ edx' = 0
  /\ pc' = "idle"
  /\ call' = NoCall
  /\ UNCHANGED df

Next ==
  \/ \E c \in Calls : Call(c)
  \/ HeadByte \/ Aligned \/ Dword \/ DwordsDone \/ TailByte
  \/ Direction \/ MoveByte
  \/ Return \/ Continue

Spec == Init /\ [][Next]_vars
-----------------------------------------------------------------------------
(***************************************************************************)
(* Properties.                                                             *)
(***************************************************************************)
Dest == call.dest .. call.dest + call.n - 1

(* What C asks of memcpy's caller, and the overlap its order still bears. *)
MayOverlap ==
  call.fn = "memcpy" =>
    call.dest <= call.src \/ call.src + call.n <= call.dest

(* Every variable has its type. *)
TypeOK ==
  /\ mem \in [Cells -> Cells \cup {Fill}]
  /\ edi \in Int /\ esi \in Int /\ ecx \in Nat /\ edx \in 0 .. 3
  /\ df \in BOOLEAN
  /\ pc \in {"idle", "top", "dwords", "bottom", "direction", "bytes", "returned"}
  /\ call \in Calls

(* At no moment is a byte outside the destination changed, whatever the    *)
(* alignment and the length (the dwords never reach past the last one).    *)
OnlyDestWritten == \A a \in Cells \ Dest : mem[a] = a

(* When a call returns, the destination holds what the source held before, *)
(* for every alignment, length and overlap, and whatever call came before. *)
Delivered ==
  pc = "returned" /\ MayOverlap =>
    \A a \in Dest : mem[a] = IF call.fn = "memset" THEN Fill
                             ELSE call.src + (a - call.dest)
=============================================================================
