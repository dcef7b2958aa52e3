----------------------------- MODULE Processes -----------------------------
(***************************************************************************)
(* What the task table promises (system_call.c, scheduler.c): every        *)
(* terminal runs a stack of programs.  Only the program on top of the      *)
(* active terminal's stack runs: it alone can put a program above itself,  *)
(* or end and let the one below go on.  The lowest program of a terminal   *)
(* never ends.  Nothing is said of slots, links, pages and kernel stacks.  *)
(***************************************************************************)
EXTENDS Integers, FiniteSets, SequencesExt

CONSTANTS
  TERMINAL_COUNT,   \* number of terminals
  MAX_TASKS,        \* programs that may be on the stacks together
  Programs          \* the executable files

VARIABLES
  stack,            \* stack[t]: terminal t's programs, the lowest first
  active            \* the terminal of the running program, -1 before the first

vars == <<stack, active>>

Terminals == 0 .. TERMINAL_COUNT - 1
Started(t) == stack[t] # <<>>
Places(t) == {t} \X DOMAIN stack[t]
Load == Cardinality(UNION {Places(t) : t \in Terminals})

Init ==
  /\ stack = [t \in Terminals |-> <<>>]
  /\ active = -1

(* As long as a terminal has no program, the next one started goes to the  *)
(* lowest such terminal, whoever starts it.                                *)
Start(t, p) ==
  /\ ~Started(t)
  /\ \A u \in Terminals : u < t => Started(u)
  /\ stack' = [stack EXCEPT ![t] = <<p>>]
  /\ active' = t

(* The running program executes p and waits for it. *)
Call(p) ==
  /\ active' = active
  /\ \A t \in Terminals : Started(t)
  /\ Load < MAX_TASKS
  /\ stack' = [stack EXCEPT ![active] = Append(@, p)]

(* The running program ends: the one that started it goes on. *)
Return ==
  /\ active \in Terminals /\ active' = active
  /\ Len(stack[active]) > 1
  /\ stack' = [stack EXCEPT ![active] = Front(@)]

(* The keyboard or the scheduler turns to another terminal. *)
Switch(t) ==
  /\ Started(t)
  /\ active' = t
  /\ UNCHANGED stack

Next ==
  \/ \E t \in Terminals, p \in Programs : Start(t, p)
  \/ \E p \in Programs : Call(p)
  \/ Return
  \/ \E t \in Terminals : Switch(t)

Spec == Init /\ [][Next]_vars
=============================================================================
