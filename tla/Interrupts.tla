----------------------------- MODULE Interrupts -----------------------------
(***************************************************************************)
(* The interrupt controllers (i8259.c), the handlers of the timer, the     *)
(* keyboard and the real-time clock (pit.c, scheduler.c, keyboard.c,       *)
(* rtc.c), and the program that reads or sets the clock meanwhile.         *)
(*                                                                         *)
(* A request stays latched until it is delivered; it is delivered when it  *)
(* is not masked, nothing of its priority or higher is in service and the  *)
(* processor takes interrupts.  Its in-service bit stays until the handler *)
(* sends the end of interrupt, whether or not the handler ever returns.    *)
(*                                                                         *)
(* Ticks are 20 ms apart, and keys further: once the timer or the keyboard *)
(* has asked, it asks again after the processor has caught up with what    *)
(* was pending.                                                            *)
(***************************************************************************)
EXTENDS Integers, Sequences

CONSTANTS
  Rate,             \* interrupts of the clock per second (1024)
  Frequencies,      \* the powers of two from 2 to Rate: what write accepts
  OtherWords,       \* what another program's page has where the buffer was
  TERMINAL_COUNT

PIT == 0
KEYBOARD == 1
CASCADE == 2        \* the master's input the slave is attached to
RTC == 8
Irqs == {PIT, KEYBOARD, RTC}

ASSUME InterruptsAssumption ==
  /\ Rate \in Nat /\ Frequencies \subseteq 2 .. Rate /\ OtherWords \subseteq Nat
  /\ TERMINAL_COUNT \in Nat

VARIABLES
  booted,           \* how far entry() has come
  mask,             \* the requests that are masked, of both controllers
  irr,              \* latched requests
  asked,            \* slow devices that asked since nothing was pending
  master_isr, slave_isr,
  handlers,         \* the handlers on the kernel stack, and where they are
  register_c,       \* the clock waits for register C to be read
  virt_freq, rtc_inter_count,
  if_user,          \* IF of the program's EFLAGS
  call,             \* the program's clock system call
  buf,              \* its argument: the checked word, and if the page changed
  shells,           \* shells the scheduler has started
  waited            \* history: clock interrupts since the read began

pic == <<mask, irr, asked, master_isr, slave_isr>>
rtc == <<register_c, virt_freq, rtc_inter_count>>
program == <<if_user, call, buf, shells, waited>>
vars == <<booted, pic, handlers, rtc, program>>

NoBuf == [word |-> 0, moved |-> FALSE]

Init ==
  /\ booted = "start"
  /\ mask = Irqs
  /\ irr = {} /\ asked = {}
  /\ master_isr = {} /\ slave_isr = {}
  /\ handlers = <<>>
  /\ register_c = FALSE
  /\ virt_freq = 0 /\ rtc_inter_count = 0
  /\ if_user = FALSE
  /\ call = "none"
  /\ buf = NoBuf
  /\ shells = 0
  /\ waited = 0

-----------------------------------------------------------------------------
(* i8259.c *)
enable_irq(k) == mask' = mask \ {k}

send_eoi_SlaveOnly(k) ==
  /\ master_isr' = IF k < 8 THEN master_isr \ {k} ELSE master_isr
  /\ slave_isr' = slave_isr \ {k}
send_eoi(k) ==
  /\ master_isr' = master_isr \ {IF k < 8 THEN k ELSE CASCADE}
  /\ slave_isr' = slave_isr \ {k}

Line(k) == IF k < 8 THEN k ELSE CASCADE
Pending == irr \ mask
Deliverable(k) ==
  /\ k \in Pending /\ k \notin slave_isr
  /\ \A b \in master_isr : Line(k) < b
  /\ \A j \in Pending : Line(k) <= Line(j)

(* The devices.  The clock is turned on in rtc_init, and asks once until   *)
(* its register C is read.                                                 *)
Ask(k) ==
  /\ k \notin irr
  /\ k \notin asked
  /\ asked' = IF k = RTC THEN asked ELSE asked \cup {k}
  /\ k = RTC => ~register_c /\ booted \notin {"start", "keyboard"}
  /\ register_c' = (register_c \/ k = RTC)
  /\ irr' = irr \cup {k}
  /\ UNCHANGED <<booted, mask, master_isr, slave_isr, handlers, virt_freq,
                 rtc_inter_count, program>>

-----------------------------------------------------------------------------
(***************************************************************************)
(* entry: keyboard_init, rtc_init, pit_init.  rtc_set_frequency's sti lets *)
(* interrupts in before rtc_init has set virt_freq and unmasked the clock. *)
(***************************************************************************)
BootStep(from, to) ==
  /\ handlers = <<>>
  /\ booted = from /\ booted' = to
  /\ UNCHANGED <<irr, asked, master_isr, slave_isr, handlers, register_c, call, buf, shells, waited>>

KeyboardInit ==
  /\ BootStep("start", "keyboard")
  /\ enable_irq(KEYBOARD)
  /\ UNCHANGED <<virt_freq, rtc_inter_count, if_user>>
RtcSetFrequency ==
  /\ BootStep("keyboard", "clock")
  /\ if_user' = TRUE
  /\ UNCHANGED <<mask, virt_freq, rtc_inter_count>>
RtcInit ==
  /\ BootStep("clock", "rtc")
  /\ virt_freq' = 2 /\ rtc_inter_count' = 0
  /\ enable_irq(RTC)
  /\ UNCHANGED if_user
PitInit ==
  /\ BootStep("rtc", "up")
  /\ enable_irq(PIT)
  /\ UNCHANGED <<virt_freq, rtc_inter_count, if_user>>

-----------------------------------------------------------------------------
(* Handlers run with IF clear, but for the end of the timer's.  A system   *)
(* call of a program runs with IF set, whatever IF the program has.        *)
InterruptsOn_Always == TRUE
InterruptsOn ==
  IF handlers # <<>> THEN handlers[Len(handlers)][2] \in {"sti", "eoi"}
  ELSE if_user \/ call # "none"

Deliver(k) ==
  /\ InterruptsOn
  /\ Deliverable(k)
  /\ irr' = irr \ {k}
  /\ master_isr' = master_isr \cup {Line(k)}
  /\ slave_isr' = IF k < 8 THEN slave_isr ELSE slave_isr \cup {k}
  /\ handlers' = Append(handlers, <<k, "entry">>)
  /\ UNCHANGED <<booted, mask, asked, rtc, program>>

Running(k, pc) == handlers # <<>> /\ handlers[Len(handlers)] = <<k, pc>>
GoTo(k, pc) == handlers' = [handlers EXCEPT ![Len(handlers)] = <<k, pc>>]
Return(rest) ==
  /\ handlers' = rest
  /\ asked' = IF rest = <<>> /\ irr = {} THEN {} ELSE asked
Iret == Return(SubSeq(handlers, 1, Len(handlers) - 1))

(* Alt and an F key maps another program's page, where the buffer was. *)
KeyboardHandler ==
  /\ Running(KEYBOARD, "entry")
  /\ buf' \in {buf, [buf EXCEPT !.moved = call = "write"]}
  /\ send_eoi(KEYBOARD)
  /\ Iret
  /\ UNCHANGED <<booted, mask, irr, rtc, if_user, call, shells, waited>>

ReadRegisterC_Missing == UNCHANGED register_c
ReadRegisterC == register_c' = FALSE

(* Counts stop at Rate, past every value they are compared with. *)
OneMore(n) == IF n < Rate THEN n + 1 ELSE n

RtcHandler ==
  /\ Running(RTC, "entry")
  /\ rtc_inter_count' = OneMore(rtc_inter_count)
  /\ waited' = OneMore(waited)
  /\ ReadRegisterC
  /\ send_eoi(RTC)
  /\ Iret
  /\ UNCHANGED <<booted, mask, irr, virt_freq, if_user, call, buf, shells>>

(***************************************************************************)
(* pit_handler.  When the scheduler starts a shell it sends the end of     *)
(* interrupt itself, and what was interrupted, with its system call, is    *)
(* never resumed; the shell has IF clear.                                  *)
(***************************************************************************)
SpawnEoi_Missing == UNCHANGED <<master_isr, slave_isr>>
SpawnEoi == send_eoi(PIT)

PitSpawn ==
  /\ Running(PIT, "entry")
  /\ shells < TERMINAL_COUNT
  /\ shells' = shells + 1
  /\ SpawnEoi
  /\ Return(<<>>)
  /\ if_user' = FALSE
  /\ call' = "none" /\ buf' = NoBuf /\ waited' = 0
  /\ UNCHANGED <<booted, mask, irr, rtc>>

PitSti ==
  /\ Running(PIT, "entry")
  /\ GoTo(PIT, "sti")
  /\ UNCHANGED <<booted, pic, rtc, program>>
PitEoi ==
  /\ Running(PIT, "sti")
  /\ send_eoi(PIT)
  /\ GoTo(PIT, "eoi")
  /\ UNCHANGED <<booted, mask, irr, asked, rtc, program>>
PitIret ==
  /\ Running(PIT, "eoi")
  /\ Iret
  /\ UNCHANGED <<booted, mask, irr, master_isr, slave_isr, rtc, program>>

-----------------------------------------------------------------------------
(* The program, when no handler runs. *)
Program(from, to) ==
  /\ shells > 0 /\ handlers = <<>>
  /\ call = from /\ call' = to
  /\ UNCHANGED <<booted, pic, handlers, register_c, shells>>

(* execute and halt go on with a program of either IF. *)
OtherProgram ==
  /\ Program("none", "none")
  /\ if_user' = ~if_user
  /\ UNCHANGED <<virt_freq, rtc_inter_count, buf, waited>>

rtc_open ==
  /\ Program("none", "none")
  /\ virt_freq' = 2
  /\ UNCHANGED <<rtc_inter_count, if_user, buf, waited>>

(***************************************************************************)
(* rtc_write reads its buffer in user memory once more after the checks.   *)
(* A word that fails them leaves everything as it is.                      *)
(***************************************************************************)
WriteCheck(f) ==
  /\ Program("none", "write")
  /\ f \in Frequencies
  /\ buf' = [word |-> f, moved |-> FALSE]
  /\ UNCHANGED <<virt_freq, rtc_inter_count, if_user, waited>>
WriteStore ==
  /\ Program("write", "none")
  /\ rtc_inter_count' = 0
  /\ virt_freq' \in IF buf.moved THEN OtherWords ELSE {buf.word}
  /\ buf' = NoBuf
  /\ UNCHANGED <<if_user, waited>>

ResetCount_Missing == UNCHANGED rtc_inter_count
ResetCount == rtc_inter_count' = 0

ReadStart ==
  /\ Program("none", "read")
  /\ ResetCount
  /\ waited' = 0
  /\ UNCHANGED <<virt_freq, if_user, buf>>

(* A period of zero is a divide error, which ends the program. *)
ReadEnd ==
  /\ Program("read", "none")
  /\ virt_freq # 0 => rtc_inter_count >= Rate \div virt_freq
  /\ UNCHANGED <<virt_freq, rtc_inter_count, if_user, buf, waited>>

Handler == KeyboardHandler \/ RtcHandler \/ PitSpawn \/ PitSti \/ PitEoi \/ PitIret
Boot == KeyboardInit \/ RtcSetFrequency \/ RtcInit \/ PitInit

Next ==
  \/ Boot \/ Handler
  \/ \E k \in Irqs : Ask(k) \/ Deliver(k)
  \/ OtherProgram
  \/ rtc_open \/ \E f \in Frequencies : WriteCheck(f)
  \/ WriteStore \/ ReadStart \/ ReadEnd

(***************************************************************************)
(* The clock keeps asking; a latched request that can be delivered again   *)
(* and again is; and between two interrupts of the clock, a millisecond    *)
(* apart, the handler below it goes on and so does the loop of a read.     *)
(***************************************************************************)
Spec == Init /\ [][Next]_vars
FairSpec ==
  /\ Spec
  /\ WF_vars(Boot) /\ WF_vars(Handler) /\ WF_vars(Ask(RTC))
  /\ SF_vars(ReadEnd) /\ SF_vars(PitIret)
  /\ \A k \in Irqs : SF_vars(Deliver(k))
-----------------------------------------------------------------------------
(***************************************************************************)
(* Properties.                                                             *)
(***************************************************************************)

(* Every variable has its type; at most two handlers share the stack. *)
TypeOK ==
  /\ booted \in {"start", "keyboard", "clock", "rtc", "up"}
  /\ mask \subseteq Irqs /\ irr \subseteq Irqs /\ asked \subseteq {PIT, KEYBOARD}
  /\ master_isr \subseteq {PIT, KEYBOARD, CASCADE} /\ slave_isr \subseteq {RTC}
  /\ handlers \in Seq(Irqs \X {"entry", "sti", "eoi"}) /\ Len(handlers) <= 2
  /\ register_c \in BOOLEAN /\ if_user \in BOOLEAN
  /\ virt_freq \in {0, 2} \cup Frequencies \cup OtherWords
  /\ rtc_inter_count \in 0 .. Rate /\ waited \in 0 .. Rate
  /\ call \in {"none", "read", "write"}
  /\ buf \in [word : {0} \cup Frequencies, moved : BOOLEAN]
  /\ shells \in 0 .. TERMINAL_COUNT

(* What is in service is what a handler on the stack has still to end:     *)
(* no way out of a handler, the abandoned timer tick included, leaves a    *)
(* request blocked.                                                        *)
Unended == {handlers[i][1] : i \in {j \in DOMAIN handlers : handlers[j][2] # "eoi"}}
InServiceIsHandled ==
  /\ master_isr = {Line(k) : k \in Unended}
  /\ slave_isr = Unended \cap {RTC}

(* A read of the clock returns only after a full period's interrupts. *)
ReadWaits ==
  [][ReadEnd /\ virt_freq # 0 => waited >= Rate \div virt_freq]_vars

(* A read of the clock ends, also when a tick abandons it. *)
ReadEnds == call = "read" ~> call # "read"

(* A key press is handled, unless a program computes with IF clear or boot *)
(* has not come far enough.                                                *)
KeysServed ==
  KEYBOARD \in irr ~>
    KEYBOARD \notin irr \/ (handlers = <<>> /\ ~if_user /\ call = "none")
=============================================================================
