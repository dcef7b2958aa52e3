-------------------------- MODULE InterruptsProofs --------------------------
(***************************************************************************)
(* Theorems about Interrupts.tla, for every rate of the clock, every       *)
(* number of shells and whatever a moved buffer holds.                     *)
(*                                                                         *)
(* The inductive invariant says what can be on the kernel stack: one       *)
(* handler, or the timer's after its end of interrupt with another one on  *)
(* top of it.  A timer's handler never lies on another's, because its next *)
(* tick comes after the last one was dealt with (TimerOnce).               *)
(***************************************************************************)
EXTENDS Interrupts, SequenceTheorems, TLAPS

Handlers == Irqs \X {"entry", "sti", "eoi"}

(* The timer alone opens its handler to interrupts, and only what follows  *)
(* its end of interrupt is ever interrupted.                               *)
StackShape ==
  /\ Len(handlers) = 1 => handlers[1] \in {PIT} \X {"sti", "eoi"} \cup Irqs \X {"entry"}
  /\ Len(handlers) = 2 => /\ handlers[1] = <<PIT, "eoi">>
                          /\ handlers[2] \in {KEYBOARD, RTC} \X {"entry"}

(* A tick that waits, and one whose handler is on the stack, was asked for. *)
TimerOnce ==
  /\ PIT \in irr => PIT \in asked
  /\ Len(handlers) > 0 /\ handlers[1][1] = PIT => PIT \in asked /\ PIT \notin irr

(* A read has counted no interrupt that came before it. *)
Counted == call = "read" => rtc_inter_count <= waited

IInv == TypeOK /\ StackShape /\ TimerOnce /\ InServiceIsHandled /\ Counted

-----------------------------------------------------------------------------
(* A stack of at most two handlers of which a lower one is past its end of *)
(* interrupt has only the top one's request to end.                        *)
LEMMA OnlyTopUnended ==
  ASSUME NEW h \in Seq(Handlers), Len(h) \in 0 .. 2,
         Len(h) = 2 => h[1][2] = "eoi"
  PROVE  {h[i][1] : i \in {j \in DOMAIN h : h[j][2] # "eoi"}}
           = IF Len(h) = 0 \/ h[Len(h)][2] = "eoi" THEN {} ELSE {h[Len(h)][1]}
<1>1. DOMAIN h = 1 .. Len(h)
  OBVIOUS
<1>2. CASE Len(h) = 0
  BY <1>1, <1>2
<1>3. CASE Len(h) = 1
  BY <1>1, <1>3
<1>4. CASE Len(h) = 2
  BY <1>1, <1>4
<1> QED
  BY <1>2, <1>3, <1>4

LEMMA UpToTwo ==
  ASSUME NEW n \in Nat PROVE n <= 2 <=> n \in 0 .. 2
OBVIOUS

LEMMA StackTyped ==
  ASSUME TypeOK PROVE handlers \in Seq(Handlers) /\ Len(handlers) \in 0 .. 2
<1>1. handlers \in Seq(Handlers) /\ Len(handlers) <= 2
  BY DEF TypeOK, Handlers
<1>2. Len(handlers) \in Nat
  BY <1>1, LenProperties
<1> QED
  BY <1>1, <1>2, UpToTwo

(* What Deliver puts on the stack. *)
LEMMA Push ==
  ASSUME InterruptsAssumption, IInv, NEW k \in Irqs, Deliver(k)
  PROVE  /\ handlers' \in Seq(Handlers)
         /\ handlers'[Len(handlers')] = <<k, "entry">>
         /\ \/ Len(handlers) = 0 /\ Len(handlers') = 1
            \/ Len(handlers) = 1 /\ Len(handlers') = 2 /\ handlers[1] = <<PIT, "eoi">>
               /\ handlers'[1] = <<PIT, "eoi">> /\ k # PIT
<1>1. handlers \in Seq(Handlers) /\ Len(handlers) \in 0 .. 2 /\ <<k, "entry">> \in Handlers
  BY StackTyped DEF IInv, Handlers
<1>2. handlers' = Append(handlers, <<k, "entry">>)
  BY DEF Deliver
<1>3. /\ handlers' \in Seq(Handlers) /\ Len(handlers') = Len(handlers) + 1
      /\ \A i \in 1 .. Len(handlers) : handlers'[i] = handlers[i]
      /\ handlers'[Len(handlers')] = <<k, "entry">>
  BY <1>1, <1>2, AppendProperties
<1>4. CASE Len(handlers) = 2
  <2>1. handlers # <<>> /\ handlers[2][2] = "entry"
    BY <1>4 DEF IInv, StackShape
  <2> QED
    BY <1>4, <2>1 DEF Deliver, InterruptsOn
<1>5. CASE Len(handlers) = 1
  <2>1. handlers # <<>> /\ handlers[1][2] \in {"sti", "eoi"}
    BY <1>1, <1>5 DEF Deliver, InterruptsOn
  <2>2. handlers[1][1] = PIT
    BY <2>1, <1>5 DEF IInv, StackShape
  <2>3. handlers[1][2] # "sti"
    <3> SUFFICES ASSUME handlers[1][2] = "sti" PROVE FALSE
      OBVIOUS
    <3>1. Unended = {PIT}
      BY <1>1, <1>5, <2>2, OnlyTopUnended DEF Unended
    <3>2. PIT \in master_isr
      BY <3>1 DEF IInv, InServiceIsHandled, Line, PIT
    <3> QED
      BY <3>2 DEF Deliver, Deliverable, Line, PIT, Irqs, KEYBOARD, RTC, CASCADE
  <2>4. handlers[1] = <<PIT, "eoi">>
    BY <1>5, <2>1, <2>2, <2>3 DEF IInv, StackShape
  <2>5. k # PIT
    BY <1>5, <2>2 DEF IInv, TimerOnce, Deliver, Deliverable, Pending
  <2> QED
    BY <1>3, <1>5, <2>4, <2>5
<1> QED
  BY <1>1, <1>3, <1>4, <1>5

(* What Iret leaves: nothing, or the timer's handler past its end of       *)
(* interrupt.                                                              *)
LEMMA Pop ==
  ASSUME IInv, handlers # <<>>, handlers' = SubSeq(handlers, 1, Len(handlers) - 1)
  PROVE  /\ handlers' \in Seq(Handlers)
         /\ \/ Len(handlers) = 1 /\ handlers' = <<>> /\ Len(handlers') = 0
            \/ Len(handlers) = 2 /\ Len(handlers') = 1 /\ handlers'[1] = <<PIT, "eoi">>
                                /\ handlers[1] = <<PIT, "eoi">>
<1>1. handlers \in Seq(Handlers) /\ Len(handlers) \in 1 .. 2
  BY StackTyped, EmptySeq DEF IInv
<1>2. \A i \in 1 .. Len(handlers) - 1 : handlers[i] \in Handlers
  BY <1>1
<1>3. /\ handlers' \in Seq(Handlers)
      /\ Len(handlers') = IF 1 <= Len(handlers) - 1 THEN Len(handlers) - 1 - 1 + 1 ELSE 0
      /\ \A i \in 1 .. Len(handlers) - 1 - 1 + 1 : handlers'[i] = handlers[1 + i - 1]
  BY <1>1, <1>2, SubSeqProperties
<1>4. CASE Len(handlers) = 1
  BY <1>3, <1>4, EmptySeq
<1>5. CASE Len(handlers) = 2
  BY <1>3, <1>5 DEF IInv, StackShape
<1> QED
  BY <1>1, <1>3, <1>4, <1>5

-----------------------------------------------------------------------------
(* An action that leaves the stack, the latched and asked-for requests,    *)
(* the in-service bits and the count of a read alone.                      *)
LEMMA StackKept ==
  ASSUME IInv, UNCHANGED <<handlers, irr, asked, master_isr, slave_isr>>
  PROVE  StackShape' /\ TimerOnce' /\ InServiceIsHandled'
BY DEF IInv, StackShape, TimerOnce, InServiceIsHandled, Unended

THEOREM InitInv ==
  ASSUME InterruptsAssumption, Init PROVE IInv
<1>1. /\ Len(handlers) = 0 /\ Len(handlers) <= 2 /\ handlers \in Seq(Handlers)
      /\ Unended = {}
  BY EmptySeq, UpToTwo DEF Init, Unended
<1>2. TypeOK
  <2>1. buf \in [word : {0} \cup Frequencies, moved : BOOLEAN]
    BY DEF Init, NoBuf
  <2>2. 0 \in 0 .. Rate /\ 0 \in 0 .. TERMINAL_COUNT
    BY DEF InterruptsAssumption
  <2> QED
    BY <1>1, <2>1, <2>2 DEF Init, TypeOK, Handlers
<1> QED
  BY <1>1, <1>2 DEF Init, IInv, StackShape, TimerOnce, InServiceIsHandled, Counted, Irqs

LEMMA AskInv ==
  ASSUME InterruptsAssumption, IInv, NEW k \in Irqs, Ask(k) PROVE IInv'
<1>1. TypeOK'
  BY DEF IInv, TypeOK, Ask, rtc, program, Irqs, PIT, KEYBOARD, RTC
<1>2. StackShape' /\ InServiceIsHandled' /\ Counted'
  BY DEF IInv, StackShape, InServiceIsHandled, Unended, Counted, Ask, rtc, program
<1>3. TimerOnce'
  BY DEF IInv, TimerOnce, Ask, PIT, RTC
<1> QED
  BY <1>1, <1>2, <1>3 DEF IInv

LEMMA DeliverInv ==
  ASSUME InterruptsAssumption, IInv, NEW k \in Irqs, Deliver(k) PROVE IInv'
<1>1. /\ handlers' \in Seq(Handlers)
      /\ handlers'[Len(handlers')] = <<k, "entry">>
      /\ \/ Len(handlers) = 0 /\ Len(handlers') = 1
         \/ Len(handlers) = 1 /\ Len(handlers') = 2 /\ handlers[1] = <<PIT, "eoi">>
            /\ handlers'[1] = <<PIT, "eoi">> /\ k # PIT
  BY Push
<1>2. handlers \in Seq(Handlers) /\ Len(handlers) \in 0 .. 2
  BY StackTyped DEF IInv
<1>3. TypeOK'
  <2>1. Len(handlers') <= 2 /\ handlers' \in Seq(Irqs \X {"entry", "sti", "eoi"})
    BY <1>1, UpToTwo DEF Handlers
  <2>2. Line(k) \in {PIT, KEYBOARD, CASCADE} /\ (~(k < 8) => k = RTC)
    BY DEF Line, Irqs, PIT, KEYBOARD, CASCADE, RTC
  <2> QED
    BY <2>1, <2>2 DEF IInv, TypeOK, Deliver, rtc, program
<1>4. StackShape'
  <2>1. k \in Irqs /\ (k # PIT => k \in {KEYBOARD, RTC})
    BY DEF Irqs
  <2>2. CASE Len(handlers') = 1
    <3>1. handlers'[1] \in Irqs \X {"entry"}
      <4>1. handlers'[1] = <<k, "entry">>
        BY <1>1, <2>2
      <4>2. <<k, "entry">> \in Irqs \X {"entry"}
        OBVIOUS
      <4> QED
        BY <4>1, <4>2
    <3>2. Len(handlers') # 2
      BY <2>2
    <3> QED
      BY <3>1, <3>2 DEF StackShape
  <2>3. CASE Len(handlers') = 2
    <3>1. handlers'[2] \in {KEYBOARD, RTC} \X {"entry"} /\ handlers'[1] = <<PIT, "eoi">>
      BY <1>1, <2>1, <2>3
    <3>2. Len(handlers') # 1
      BY <2>3
    <3> QED
      BY <3>1, <3>2 DEF StackShape
  <2> QED
    BY <1>1, <2>2, <2>3
<1>5. TimerOnce'
  BY <1>1 DEF IInv, TimerOnce, Deliver, Deliverable, Pending
<1>6. InServiceIsHandled'
  <2>1. Unended' = {k}
    <3>1. CASE Len(handlers') = 1
      BY <1>1, <3>1, OnlyTopUnended DEF Unended
    <3>2. CASE Len(handlers') = 2
      BY <1>1, <3>2, OnlyTopUnended DEF Unended
    <3> QED
      BY <1>1, <3>1, <3>2
  <2>2. Unended = {}
    BY <1>1, <1>2, OnlyTopUnended DEF Unended
  <2>3. master_isr = {} /\ slave_isr = {}
    BY <2>2 DEF IInv, InServiceIsHandled
  <2>4. master_isr' = {Line(j) : j \in {k}}
    BY <2>3 DEF Deliver
  <2>5. slave_isr' = {k} \cap {RTC}
    <3>1. CASE k = RTC
      BY <2>3, <3>1 DEF Deliver, RTC
    <3>2. CASE k # RTC
      BY <2>3, <3>2 DEF Deliver, Irqs, PIT, KEYBOARD
    <3> QED
      BY <3>1, <3>2
  <2> QED
    BY <2>1, <2>4, <2>5 DEF InServiceIsHandled
<1>7. Counted'
  BY DEF IInv, Counted, Deliver, rtc, program
<1> QED
  BY <1>3, <1>4, <1>5, <1>6, <1>7 DEF IInv

LEMMA OneMoreMonotone ==
  ASSUME InterruptsAssumption, NEW m \in 0 .. Rate, NEW n \in 0 .. Rate
  PROVE  OneMore(m) \in 0 .. Rate /\ (m <= n => OneMore(m) <= OneMore(n))
BY DEF OneMore, InterruptsAssumption

(* The handlers of the keyboard and the clock: what they do to the stack   *)
(* and the controllers.                                                    *)
LEMMA HandlerEnds ==
  ASSUME IInv, NEW k \in {KEYBOARD, RTC}, Running(k, "entry"), send_eoi(k), Iret, irr' = irr
  PROVE  /\ StackShape' /\ TimerOnce' /\ InServiceIsHandled'
         /\ handlers' \in Seq(Handlers) /\ Len(handlers') <= 2
         /\ asked' \in {{}, asked}
         /\ master_isr' \subseteq master_isr /\ slave_isr' \subseteq slave_isr
<1>1. handlers # <<>> /\ handlers' = SubSeq(handlers, 1, Len(handlers) - 1)
  BY DEF Iret, Return, Running
<1>2. /\ handlers' \in Seq(Handlers)
      /\ \/ Len(handlers) = 1 /\ handlers' = <<>> /\ Len(handlers') = 0
         \/ Len(handlers) = 2 /\ Len(handlers') = 1 /\ handlers'[1] = <<PIT, "eoi">>
                             /\ handlers[1] = <<PIT, "eoi">>
  BY <1>1, Pop
<1>3. Unended' = {}
  BY <1>2, OnlyTopUnended DEF Unended
<1>4. Unended = {k}
  BY <1>2, StackTyped, OnlyTopUnended DEF Unended, Running, IInv
<1>5. InServiceIsHandled'
  BY <1>3, <1>4 DEF IInv, InServiceIsHandled, send_eoi, KEYBOARD, RTC, Line, CASCADE
<1>6. StackShape'
  <2>1. <<PIT, "eoi">> \in {PIT} \X {"sti", "eoi"}
    OBVIOUS
  <2> QED
    BY <1>2, <2>1 DEF StackShape
<1>7. TimerOnce'
  <2>1. CASE handlers' = <<>> /\ Len(handlers') = 0
    BY <2>1 DEF IInv, TimerOnce, Iret, Return
  <2>2. CASE Len(handlers) = 2 /\ Len(handlers') = 1
    <3>1. handlers' # <<>> /\ asked' = asked
      BY <1>1, <1>2, <2>2, EmptySeq DEF Iret, Return
    <3> QED
      BY <1>2, <2>2, <3>1 DEF IInv, TimerOnce
  <2> QED
    BY <1>2, <2>1, <2>2
<1> QED
  BY <1>2, <1>5, <1>6, <1>7 DEF Iret, Return, send_eoi

LEMMA KeyboardInv ==
  ASSUME InterruptsAssumption, IInv, KeyboardHandler PROVE IInv'
<1>1. Running(KEYBOARD, "entry") /\ send_eoi(KEYBOARD) /\ Iret /\ irr' = irr
  BY DEF KeyboardHandler
<1>2. buf' \in [word : {0} \cup Frequencies, moved : BOOLEAN]
  BY DEF IInv, TypeOK, KeyboardHandler
<1>3. TypeOK'
  BY <1>1, <1>2, HandlerEnds DEF IInv, TypeOK, KeyboardHandler, rtc, Handlers
<1>4. Counted'
  BY DEF IInv, Counted, KeyboardHandler, rtc
<1> QED
  BY <1>1, <1>3, <1>4, HandlerEnds DEF IInv

LEMMA RtcInv ==
  ASSUME InterruptsAssumption, IInv, RtcHandler PROVE IInv'
<1>1. Running(RTC, "entry") /\ send_eoi(RTC) /\ Iret /\ irr' = irr
  BY DEF RtcHandler
<1>2. /\ rtc_inter_count' \in 0 .. Rate /\ waited' \in 0 .. Rate
      /\ rtc_inter_count <= waited => rtc_inter_count' <= waited'
  BY OneMoreMonotone DEF IInv, TypeOK, RtcHandler
<1>3. TypeOK'
  BY <1>1, <1>2, HandlerEnds DEF IInv, TypeOK, RtcHandler, ReadRegisterC, Handlers
<1>4. Counted'
  BY <1>2 DEF IInv, Counted, RtcHandler
<1> QED
  BY <1>1, <1>3, <1>4, HandlerEnds DEF IInv

(* A tick that starts a shell: the stack is left, and nothing of it in     *)
(* service, since its own end of interrupt was the only one missing.       *)
LEMMA SpawnInv ==
  ASSUME InterruptsAssumption, IInv, PitSpawn PROVE IInv'
<1>1. handlers # <<>> /\ handlers[Len(handlers)] = <<PIT, "entry">>
  BY DEF PitSpawn, Running
<1>2. Len(handlers) = 1
  BY <1>1, StackTyped, EmptySeq DEF IInv, StackShape, KEYBOARD, RTC, PIT
<1>3. Unended = {PIT}
  BY <1>1, <1>2, StackTyped, OnlyTopUnended DEF Unended, IInv
<1>4. handlers' = <<>> /\ Len(handlers') = 0 /\ handlers' \in Seq(Handlers) /\ Unended' = {}
  BY EmptySeq DEF PitSpawn, Return, Unended
<1>5. InServiceIsHandled'
  BY <1>3, <1>4 DEF IInv, InServiceIsHandled, PitSpawn, SpawnEoi, send_eoi, PIT, RTC, Line
<1>6. TypeOK'
  <2>1. handlers' \in Seq(Irqs \X {"entry", "sti", "eoi"}) /\ Len(handlers') <= 2
    BY <1>4 DEF Handlers
  <2>2. asked' \in {{}, asked} /\ master_isr' \subseteq master_isr /\ slave_isr' \subseteq slave_isr
    BY DEF PitSpawn, Return, SpawnEoi, send_eoi
  <2>3. shells' \in 0 .. TERMINAL_COUNT /\ waited' \in 0 .. Rate
    BY DEF IInv, TypeOK, PitSpawn, InterruptsAssumption
  <2>4. buf' \in [word : {0} \cup Frequencies, moved : BOOLEAN]
    BY DEF PitSpawn, NoBuf
  <2> QED
    BY <2>1, <2>2, <2>3, <2>4 DEF IInv, TypeOK, PitSpawn, rtc
<1>7. TimerOnce'
  BY <1>4 DEF IInv, TimerOnce, PitSpawn, Return
<1>8. StackShape' /\ Counted'
  BY <1>4 DEF StackShape, Counted, PitSpawn
<1> QED
  BY <1>5, <1>6, <1>7, <1>8 DEF IInv

LEMMA PitStiInv ==
  ASSUME InterruptsAssumption, IInv, PitSti PROVE IInv'
<1>1. handlers # <<>> /\ handlers[Len(handlers)] = <<PIT, "entry">>
  BY DEF PitSti, Running
<1>2. handlers \in Seq(Handlers) /\ Len(handlers) = 1 /\ <<PIT, "sti">> \in Handlers
  <2>1. handlers \in Seq(Handlers) /\ Len(handlers) \in 1 .. 2
    BY <1>1, StackTyped, EmptySeq DEF IInv
  <2>2. <<PIT, "entry">> \notin {KEYBOARD, RTC} \X {"entry"}
    BY DEF KEYBOARD, RTC, PIT
  <2>3. Len(handlers) # 2
    BY <1>1, <2>2 DEF IInv, StackShape
  <2>4. <<PIT, "sti">> \in Handlers
    BY DEF PIT, Handlers, Irqs
  <2> QED
    BY <2>1, <2>3, <2>4
<1>3. handlers' = [handlers EXCEPT ![1] = <<PIT, "sti">>]
  BY <1>2 DEF PitSti, GoTo
<1>4. handlers' \in Seq(Handlers) /\ Len(handlers') = 1 /\ handlers'[1] = <<PIT, "sti">>
  BY <1>2, <1>3, ExceptSeq
<1>5. Unended = {PIT}
  BY <1>1, <1>2, OnlyTopUnended DEF Unended
<1>6. Unended' = {PIT}
  BY <1>4, OnlyTopUnended DEF Unended
<1>7. TypeOK'
  <2>1. handlers' \in Seq(Irqs \X {"entry", "sti", "eoi"}) /\ Len(handlers') <= 2
    BY <1>4, UpToTwo DEF Handlers
  <2> QED
    BY <2>1 DEF IInv, TypeOK, PitSti, pic, rtc, program
<1>8. StackShape' /\ TimerOnce' /\ Counted'
  BY <1>1, <1>2, <1>4 DEF IInv, StackShape, TimerOnce, Counted, PitSti, pic, rtc, program
<1>9. InServiceIsHandled'
  BY <1>5, <1>6 DEF IInv, InServiceIsHandled, PitSti, pic
<1> QED
  BY <1>7, <1>8, <1>9 DEF IInv

LEMMA PitEoiInv ==
  ASSUME InterruptsAssumption, IInv, PitEoi PROVE IInv'
<1>1. handlers # <<>> /\ handlers[Len(handlers)] = <<PIT, "sti">>
  BY DEF PitEoi, Running
<1>2. handlers \in Seq(Handlers) /\ Len(handlers) = 1 /\ <<PIT, "eoi">> \in Handlers
  BY <1>1, StackTyped, EmptySeq DEF IInv, StackShape, KEYBOARD, RTC, PIT, Handlers, Irqs
<1>3. handlers' = [handlers EXCEPT ![1] = <<PIT, "eoi">>]
  BY <1>2 DEF PitEoi, GoTo
<1>4. handlers' \in Seq(Handlers) /\ Len(handlers') = 1 /\ handlers'[1] = <<PIT, "eoi">>
  BY <1>2, <1>3, ExceptSeq
<1>5. Unended = {PIT}
  BY <1>1, <1>2, OnlyTopUnended DEF Unended
<1>6. Unended' = {}
  BY <1>4, OnlyTopUnended DEF Unended
<1>7. TypeOK'
  <2>1. handlers' \in Seq(Irqs \X {"entry", "sti", "eoi"}) /\ Len(handlers') <= 2
    BY <1>4, UpToTwo DEF Handlers
  <2> QED
    BY <2>1 DEF IInv, TypeOK, PitEoi, send_eoi, rtc, program
<1>8. StackShape' /\ TimerOnce' /\ Counted'
  BY <1>1, <1>2, <1>4 DEF IInv, StackShape, TimerOnce, Counted, PitEoi, rtc, program
<1>9. InServiceIsHandled'
  BY <1>5, <1>6 DEF IInv, InServiceIsHandled, PitEoi, send_eoi, Line, PIT, RTC
<1> QED
  BY <1>7, <1>8, <1>9 DEF IInv

LEMMA PitIretInv ==
  ASSUME InterruptsAssumption, IInv, PitIret PROVE IInv'
<1>1. handlers # <<>> /\ handlers[Len(handlers)] = <<PIT, "eoi">>
  BY DEF PitIret, Running
<1>2. handlers \in Seq(Handlers) /\ Len(handlers) = 1
  BY <1>1, StackTyped, EmptySeq DEF IInv, StackShape, KEYBOARD, RTC, PIT, Handlers, Irqs
<1>3. handlers' = <<>> /\ Len(handlers') = 0 /\ handlers' \in Seq(Handlers)
  BY <1>1, <1>2, Pop DEF PitIret, Iret, Return
<1>4. Unended = {} /\ Unended' = {}
  BY <1>1, <1>2, <1>3, OnlyTopUnended DEF Unended
<1>5. TypeOK'
  <2>1. handlers' \in Seq(Irqs \X {"entry", "sti", "eoi"}) /\ Len(handlers') <= 2
    BY <1>3, UpToTwo DEF Handlers
  <2> QED
    BY <2>1 DEF IInv, TypeOK, PitIret, Iret, Return, rtc, program
<1>6. TimerOnce'
  <2>1. PIT \in irr' => PIT \in asked'
    BY DEF IInv, TimerOnce, PitIret, Iret, Return
  <2>2. ~(Len(handlers') > 0)
    BY <1>3
  <2> QED
    BY <2>1, <2>2 DEF TimerOnce
<1>7. StackShape' /\ InServiceIsHandled' /\ Counted'
  BY <1>3, <1>4 DEF IInv, StackShape, InServiceIsHandled, Counted, PitIret, rtc, program
<1> QED
  BY <1>5, <1>6, <1>7 DEF IInv

-----------------------------------------------------------------------------
(* Boot, and the program: neither touches the stack or the controllers'    *)
(* requests.                                                               *)
LEMMA BootInv ==
  ASSUME InterruptsAssumption, IInv, Boot PROVE IInv'
<1>1. UNCHANGED <<handlers, irr, asked, master_isr, slave_isr, register_c, call, buf, shells, waited>>
  BY DEF Boot, KeyboardInit, RtcSetFrequency, RtcInit, PitInit, BootStep
<1>2. /\ mask' \subseteq Irqs /\ booted' \in {"start", "keyboard", "clock", "rtc", "up"}
      /\ if_user' \in BOOLEAN
      /\ virt_freq' \in {virt_freq, 2} /\ rtc_inter_count' \in {rtc_inter_count, 0}
  BY DEF IInv, TypeOK, Boot, KeyboardInit, RtcSetFrequency, RtcInit, PitInit, BootStep, enable_irq
<1>3. rtc_inter_count' \in 0 .. Rate /\ (rtc_inter_count <= waited => rtc_inter_count' <= waited')
  BY <1>1, <1>2 DEF IInv, TypeOK, InterruptsAssumption
<1>4. TypeOK'
  BY <1>1, <1>2, <1>3 DEF IInv, TypeOK
<1>5. Counted'
  BY <1>1, <1>3 DEF IInv, Counted
<1> QED
  BY <1>1, <1>4, <1>5, StackKept DEF IInv

LEMMA ProgramInv ==
  ASSUME InterruptsAssumption, IInv,
         \/ OtherProgram \/ rtc_open \/ (\E f \in Frequencies : WriteCheck(f))
         \/ WriteStore \/ ReadStart \/ ReadEnd
  PROVE  IInv'
<1>1. UNCHANGED <<booted, pic, handlers, register_c, shells>>
  BY DEF OtherProgram, rtc_open, WriteCheck, WriteStore, ReadStart, ReadEnd, Program
<1>2. UNCHANGED <<booted, mask, irr, asked, master_isr, slave_isr, handlers, register_c, shells>>
  BY <1>1 DEF pic
<1>3. if_user' \in BOOLEAN /\ call' \in {"none", "read", "write"}
  BY DEF IInv, TypeOK, OtherProgram, rtc_open, WriteCheck, WriteStore, ReadStart, ReadEnd, Program
<1>4. virt_freq' \in {0, 2} \cup Frequencies \cup OtherWords
  BY DEF IInv, TypeOK, OtherProgram, rtc_open, WriteCheck, WriteStore, ReadStart, ReadEnd
<1>5. buf' \in [word : {0} \cup Frequencies, moved : BOOLEAN]
  <2>1. CASE \E f \in Frequencies : WriteCheck(f)
    BY <2>1 DEF WriteCheck
  <2>2. CASE WriteStore
    BY <2>2 DEF WriteStore, NoBuf
  <2>3. CASE OtherProgram \/ rtc_open \/ ReadStart \/ ReadEnd
    BY <2>3 DEF IInv, TypeOK, OtherProgram, rtc_open, ReadStart, ReadEnd
  <2> QED
    BY <2>1, <2>2, <2>3
<1>6. rtc_inter_count' \in 0 .. Rate /\ waited' \in 0 .. Rate
  BY DEF IInv, TypeOK, OtherProgram, rtc_open, WriteCheck, WriteStore, ReadStart, ReadEnd, ResetCount,
         InterruptsAssumption
<1>7. TypeOK'
  BY <1>2, <1>3, <1>4, <1>5, <1>6 DEF IInv, TypeOK
<1>8. Counted'
  <2>1. CASE ReadStart
    BY <2>1 DEF Counted, ReadStart, ResetCount
  <2>2. CASE ~ReadStart
    BY <2>2 DEF Counted, OtherProgram, rtc_open, WriteCheck, WriteStore, ReadEnd, Program
  <2> QED
    BY <2>1, <2>2
<1> QED
  BY <1>2, <1>7, <1>8, StackKept DEF IInv

THEOREM NextInv ==
  ASSUME InterruptsAssumption, IInv, [Next]_vars PROVE IInv'
<1>1. CASE UNCHANGED vars
  BY <1>1 DEF IInv, TypeOK, StackShape, TimerOnce, InServiceIsHandled, Unended, Counted,
              vars, pic, rtc, program
<1>2. CASE Handler
  BY <1>2, KeyboardInv, RtcInv, SpawnInv, PitStiInv, PitEoiInv, PitIretInv DEF Handler
<1>3. CASE \E k \in Irqs : Ask(k) \/ Deliver(k)
  BY <1>3, AskInv, DeliverInv
<1>4. CASE Boot
  BY <1>4, BootInv
<1>5. CASE \/ OtherProgram \/ rtc_open \/ (\E f \in Frequencies : WriteCheck(f))
           \/ WriteStore \/ ReadStart \/ ReadEnd
  BY <1>5, ProgramInv
<1> QED
  BY <1>1, <1>2, <1>3, <1>4, <1>5 DEF Next

THEOREM SpecInv == Spec => []IInv
<1>1. Init => IInv
  BY InitInv, InterruptsAssumption
<1>2. IInv /\ [Next]_vars => IInv'
  BY NextInv, InterruptsAssumption
<1> QED
  BY <1>1, <1>2, PTL DEF Spec

-----------------------------------------------------------------------------
(* Every variable has its type, and at most two handlers share a kernel    *)
(* stack, however ticks, keys and clock interrupts fall.                   *)
THEOREM InterruptsTypeCorrect == Spec => []TypeOK
<1>1. IInv => TypeOK
  BY DEF IInv
<1> QED
  BY <1>1, SpecInv, PTL

(* No way out of a handler (i8259.c, pit.c, keyboard.c, rtc.c) leaves a    *)
(* request in service that no handler on the stack will still end: a tick  *)
(* that starts a shell and never returns included.                         *)
THEOREM NothingLeftInService == Spec => []InServiceIsHandled
<1>1. IInv => InServiceIsHandled
  BY DEF IInv
<1> QED
  BY <1>1, SpecInv, PTL

(* rtc_read returns only after a full period of the frequency that was set *)
(* has passed since it was called, for every frequency but zero.           *)
THEOREM ReadsWait == Spec => ReadWaits
<1>1. IInv /\ [Next]_vars => [ReadEnd /\ virt_freq # 0 => waited >= Rate \div virt_freq]_vars
  <2> SUFFICES ASSUME IInv, ReadEnd, virt_freq # 0 PROVE waited >= Rate \div virt_freq
    OBVIOUS
  <2>1. rtc_inter_count <= waited /\ rtc_inter_count >= Rate \div virt_freq
    BY DEF IInv, Counted, ReadEnd, Program
  <2>2. rtc_inter_count \in Int /\ waited \in Int
    BY DEF IInv, TypeOK
  <2>3. Rate \in Nat /\ virt_freq \in Nat
    BY InterruptsAssumption DEF IInv, TypeOK, InterruptsAssumption
  <2>4. Rate \div virt_freq \in Int
    BY <2>3
  <2> HIDE DEF ReadEnd
  <2> QED
    BY <2>1, <2>2, <2>4
<1> QED
  BY <1>1, SpecInv, PTL DEF Spec, ReadWaits
=============================================================================
