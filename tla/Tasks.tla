------------------------------- MODULE Tasks -------------------------------
(***************************************************************************)
(* The task table of the kernel: system_call.c (execute, halt, open,       *)
(* close, vidmap), scheduler.c and pit.c (the three base shells),          *)
(* switch_display_terminal in keyboard.c (Alt+F1..F3) and the exception    *)
(* macro in interrupt_table.h.                                             *)
(*                                                                         *)
(* There is one processor and one control context.  The scheduler does not *)
(* save what it interrupts: a PIT tick that spawns a shell abandons it,    *)
(* and a terminal switch changes the running task, the mapped page and     *)
(* tss.esp0 while the processor goes on with the same registers.  A user   *)
(* program is arbitrary: it may make any system call at any time.          *)
(*                                                                         *)
(* execute and halt are single steps here: interrupts land in user mode    *)
(* (when its IF flag is set) and inside the other system calls (mode       *)
(* "kernel"), not between two assignments of execute or halt.              *)
(***************************************************************************)
EXTENDS Integers, FiniteSets

CONSTANTS
  MAX_TASKS,        \* length of task_slots
  TERMINAL_COUNT,   \* number of terminals, each with a base shell
  Shell,            \* the program "shell"
  Programs,         \* the ELF files of the file system, shell among them
  TextFiles,        \* names of files that are not ELF
  MissingNames,     \* names no directory entry has
  Fds,              \* descriptors open may allocate (2..7 in the code)
  Garbage,          \* what the links of a PCB never written hold
  MaxDepth          \* bound: frames of execute an esp0 may have below the top

NoTask == -1
Tasks == 0 .. MAX_TASKS - 1
Terminals == 0 .. TERMINAL_COUNT - 1
NoProgram == "no program"

ASSUME SizesAssumption ==
  /\ MAX_TASKS \in Nat /\ TERMINAL_COUNT \in Nat \ {0}
  /\ TERMINAL_COUNT <= MAX_TASKS
ASSUME ProgramsAssumption ==
  /\ Shell \in Programs
  /\ NoProgram \notin Programs
ASSUME FdsAssumption == Fds \in SUBSET Nat /\ IsFiniteSet(Fds)
ASSUME GarbageAssumption == Garbage \in Tasks \cup {NoTask}
ASSUME MaxDepthAssumption == MaxDepth \in Nat

VARIABLES
  task_slots,       \* task_slots[t] = 1 iff slot t is taken
  tasks_running,    \* the task the kernel thinks is running, or -1
  child, parent,    \* task_id_child and task_id_parent of each PCB
  prog,             \* the program loaded in the task's 4 MB page
  frame,            \* old_esp/old_ebp of the PCB and the user state saved there
  fd,               \* open descriptors above stdin and stdout of each PCB
  exception_death,  \* the global flag of the exception handlers
  page,             \* the task whose page is mapped at 128 MB, or -1
  esp0,             \* tss.esp0: whose kernel stack, how many frames deep
  video,            \* the user video page is mapped
  vid_user,         \* history: the last task that called vidmap, while it lives
  display_terminal_id, pit_i, bootup_flag,
  mode,             \* what the processor is doing
  eip,              \* the program whose code the user registers belong to
  iflag,            \* IF in user EFLAGS (in "spin": IF of the spinning handler)
  result            \* history: what the step made execute return, and why

table == <<task_slots, tasks_running, child, parent, prog, frame>>
cpu   == <<page, esp0, mode, eip, iflag>>
boot  == <<pit_i, bootup_flag>>
vid   == <<video, vid_user>>
vars  == <<table, cpu, boot, vid, fd, exception_death, display_terminal_id, result>>

(***************************************************************************)
(* get_pcb places the PCB and the kernel stack of task t in the same 8 KB. *)
(* A stack position is the task that owns the 8 KB and the number of       *)
(* frames of execute between its top and the position.  owner = NoTask is  *)
(* the address computed from find_bottom_task's -1, which is not mapped.   *)
(***************************************************************************)
Stack == [owner : Tasks \cup {NoTask}, depth : 0 .. MaxDepth]
StackTop(t) == [owner |-> t, depth |-> 0]

Frame == [stack : Stack, eip : Programs \cup {NoProgram}, iflag : BOOLEAN]
NoFrame == [stack |-> StackTop(NoTask), eip |-> NoProgram, iflag |-> FALSE]

Names == Programs \cup TextFiles \cup MissingNames
Modes == {"idle", "user", "kernel", "spin", "dead"}
Causes == {"none", "blank", "rejected", "halt", "exception"}
Values == {"none", "0", "-1", "status", "256"}
NoResult == [cause |-> "none", value |-> "none"]

Live == {t \in Tasks : task_slots[t] = 1}

(* find_open_task: the lowest free slot, -1 when all are taken. *)
find_open_task_FromTheTop ==
  IF Live = Tasks THEN NoTask
  ELSE CHOOSE t \in Tasks \ Live : \A u \in Tasks \ Live : t >= u

find_open_task ==
  IF Live = Tasks THEN NoTask
  ELSE CHOOSE t \in Tasks \ Live : \A u \in Tasks \ Live : t <= u

(***************************************************************************)
(* find_bottom_task follows task_id_child from the base shell of a         *)
(* terminal to a task without a child.  The chain of t is what every set   *)
(* has that holds t and is closed under the child link.                    *)
(***************************************************************************)
Closures(t) ==
  {S \in SUBSET Tasks : t \in S /\ \A u \in S : child[u] # NoTask => child[u] \in S}
Chain(t) == LET C == Closures(t) IN {u \in Tasks : \A S \in C : u \in S}
Bottoms(t) == {u \in Chain(t) : child[u] = NoTask}

find_bottom_task_BaseOnly(t) == IF task_slots[t] = 0 THEN NoTask ELSE t

find_bottom_task(t) ==
  IF task_slots[t] = 0 THEN NoTask ELSE CHOOSE u \in Bottoms(t) : TRUE

-----------------------------------------------------------------------------
(* The kernel after entry(): interrupts on, no task, halted in its loop. *)
Init ==
  /\ task_slots = [t \in Tasks |-> 0]
  /\ tasks_running = NoTask
  /\ child = [t \in Tasks |-> Garbage]
  /\ parent = [t \in Tasks |-> Garbage]
  /\ prog = [t \in Tasks |-> NoProgram]
  /\ frame = [t \in Tasks |-> NoFrame]
  /\ fd = [t \in Tasks |-> {}]
  /\ exception_death = FALSE
  /\ page = NoTask
  /\ esp0 = StackTop(0)
  /\ video = FALSE
  /\ vid_user = NoTask
  /\ display_terminal_id = 0
  /\ pit_i = 0
  /\ bootup_flag = FALSE
  /\ mode = "idle"
  /\ eip = NoProgram
  /\ iflag = TRUE
  /\ result = NoResult

-----------------------------------------------------------------------------
(* A kernel entry from user mode needs the task's page and a mapped esp0. *)
UserRuns == mode = "user" /\ page # NoTask /\ esp0.owner # NoTask

(* Interrupt gates clear IF; system calls run with IF set. *)
InterruptsOn ==
  \/ mode \in {"idle", "kernel"}
  \/ UserRuns /\ iflag
  \/ mode = "spin" /\ iflag

(* execute's links: the parent gets a child, the new task has none yet. *)
LinkChild_StaleOwn(p, c) == child' = [child EXCEPT ![p] = c]
LinkChild_OfDisplayed(p, c) ==
  child' = [child EXCEPT ![display_terminal_id] = c, ![c] = NoTask]
LinkChild(p, c) == child' = [child EXCEPT ![p] = c, ![c] = NoTask]

LinkParent(c, p) == parent' = [parent EXCEPT ![c] = p]

(***************************************************************************)
(* The part of execute from find_open_task to iret: program p takes the    *)
(* slot.  A slot below TERMINAL_COUNT is a base shell and has no parent;   *)
(* old_esp of a base shell is never read (halt restarts it from old_eip),  *)
(* so its frame stays NoFrame.                                             *)
(***************************************************************************)
Launch(p, if) ==
  LET new_slot == find_open_task
      old_slot == tasks_running
  IN /\ tasks_running' = new_slot
     /\ task_slots' = [task_slots EXCEPT ![new_slot] = 1]
     /\ page' = new_slot
     /\ prog' = [prog EXCEPT ![new_slot] = p]
     /\ IF new_slot >= TERMINAL_COUNT
        THEN /\ LinkParent(new_slot, old_slot)
             /\ LinkChild(old_slot, new_slot)
             /\ frame' = [frame EXCEPT ![new_slot] =
                   [stack |-> [esp0 EXCEPT !.depth = @ + 1], eip |-> eip, iflag |-> iflag]]
        ELSE /\ parent' = [parent EXCEPT ![new_slot] = NoTask]
             /\ child' = [child EXCEPT ![new_slot] = NoTask]
             /\ frame' = [frame EXCEPT ![new_slot] = NoFrame]
     /\ fd' = [fd EXCEPT ![new_slot] = {}]
     /\ esp0' = StackTop(new_slot)
     /\ eip' = p
     /\ iflag' = if
     /\ mode' = "user"

(***************************************************************************)
(* read_dentry_by_name's result is ignored, so for a name without an entry *)
(* read_data is given an uninitialised inode: whatever the stack holds.    *)
(***************************************************************************)
Loads(name) == IF name \in Programs THEN {name}
               ELSE IF name \in MissingNames THEN Programs ELSE {}
Rejects(name) == name \notin Programs \/ Live = Tasks

Execute(name) ==
  /\ UserRuns
  /\ esp0.depth < MaxDepth
  /\ Live # Tasks
  /\ \E p \in Loads(name) : Launch(p, TRUE)
  /\ UNCHANGED <<exception_death, vid, boot, display_terminal_id>>
  /\ result' = NoResult

ExecuteRejected(name) ==
  /\ UserRuns
  /\ Rejects(name)
  /\ result' = [cause |-> "rejected", value |-> "-1"]
  /\ UNCHANGED <<table, cpu, boot, vid, fd, exception_death, display_terminal_id>>

(* A command of spaces only is not an error. *)
ExecuteBlank ==
  /\ UserRuns
  /\ result' = [cause |-> "blank", value |-> "0"]
  /\ UNCHANGED <<table, cpu, boot, vid, fd, exception_death, display_terminal_id>>

(***************************************************************************)
(* halt of a task with no parent: the final shell runs its program again,  *)
(* through an iret that leaves everything else as it is.                   *)
(***************************************************************************)
RestartShell(if) ==
  /\ esp0' = StackTop(tasks_running)
  /\ eip' = prog[tasks_running]
  /\ iflag' = if
  /\ mode' = "user"
  /\ UNCHANGED <<table, page, vid, fd>>
  /\ result' = NoResult

(* The steps of a halt that returns to the parent p of task c. *)
UnlinkChild_Missing(p) == UNCHANGED child
UnlinkChild(p) == child' = [child EXCEPT ![p] = NoTask]

MapVideo == video' = TRUE
UnmapVideo_Missing == UNCHANGED video
UnmapVideo == video' = FALSE

CloseAll_OfParent(c) == fd' = [fd EXCEPT ![parent[c]] = {}]
CloseAll(c) == fd' = [fd EXCEPT ![c] = {}]

RestoreStack_Missing(c) == UNCHANGED esp0
RestoreStack(c) == esp0' = frame[c].stack

(* halt of a task with a parent: back into the parent's execute call. *)
ReturnToParent(cause, died) ==
  LET c == tasks_running
      p == parent[c]
  IN /\ UnlinkChild(p)
     /\ page' = p
     /\ UnmapVideo
     /\ vid_user' = IF vid_user = c THEN NoTask ELSE vid_user
     /\ CloseAll(c)
     /\ task_slots' = [task_slots EXCEPT ![c] = 0]
     /\ tasks_running' = p
     /\ RestoreStack(c)
     /\ eip' = frame[c].eip
     /\ iflag' = frame[c].iflag
     /\ mode' = "user"
     /\ result' = [cause |-> cause, value |-> IF died THEN "256" ELSE "status"]
     /\ UNCHANGED <<parent, prog, frame>>

Halt ==
  /\ UserRuns
  /\ IF parent[tasks_running] = NoTask
     THEN RestartShell(TRUE) /\ UNCHANGED exception_death
     ELSE ReturnToParent("halt", exception_death) /\ exception_death' = FALSE
  /\ UNCHANGED <<boot, display_terminal_id>>

(***************************************************************************)
(* HANDLE_EXCEPTION: get_tasks_running() is 0 for task 0 as well, which    *)
(* then spins in the handler.  Exception gates keep IF; a fault inside a   *)
(* system call comes with IF clear when it hits terminal_read's copy.      *)
(***************************************************************************)
Exception ==
  \E if \in BOOLEAN :
    /\ \/ UserRuns /\ if = iflag
       \/ mode = "kernel"
    /\ IF tasks_running = 0
       THEN /\ mode' = "spin"
            /\ iflag' = if
            /\ UNCHANGED <<table, page, esp0, eip, vid, fd, exception_death>>
            /\ result' = NoResult
       ELSE IF parent[tasks_running] = NoTask
       THEN RestartShell(if) /\ exception_death' = TRUE
       ELSE ReturnToParent("exception", TRUE) /\ exception_death' = FALSE
    /\ UNCHANGED <<boot, display_terminal_id>>

(* open takes the lowest free descriptor of the running task's PCB. *)
Open ==
  /\ UserRuns
  /\ fd[tasks_running] # Fds
  /\ \E f \in Fds :
       /\ f \notin fd[tasks_running]
       /\ \A g \in Fds : g < f => g \in fd[tasks_running]
       /\ fd' = [fd EXCEPT ![tasks_running] = @ \cup {f}]
  /\ UNCHANGED <<table, cpu, boot, vid, exception_death, display_terminal_id>>
  /\ result' = NoResult

Close ==
  /\ UserRuns
  /\ \E f \in fd[tasks_running] :
       fd' = [fd EXCEPT ![tasks_running] = @ \ {f}]
  /\ UNCHANGED <<table, cpu, boot, vid, exception_death, display_terminal_id>>
  /\ result' = NoResult

Vidmap ==
  /\ UserRuns
  /\ MapVideo
  /\ vid_user' = tasks_running
  /\ UNCHANGED <<table, cpu, boot, fd, exception_death, display_terminal_id>>
  /\ result' = NoResult

(* The other calls (read, write, getargs) change no state of this module  *)
(* but run with interrupts on, and read may block in them.                 *)
EnterKernel ==
  /\ UserRuns
  /\ mode' = "kernel"
  /\ UNCHANGED <<table, page, esp0, eip, iflag, boot, vid, fd, exception_death,
                 display_terminal_id>>
  /\ result' = NoResult

LeaveKernel ==
  /\ mode = "kernel"
  /\ mode' = "user"
  /\ UNCHANGED <<table, page, esp0, eip, iflag, boot, vid, fd, exception_death,
                 display_terminal_id>>
  /\ result' = NoResult

(* User mode on the kernel's page, or with an esp0 outside memory: the     *)
(* next instruction, or the next entry, takes the machine down.            *)
TripleFault ==
  /\ mode = "user" /\ ~UserRuns
  /\ mode' = "dead"
  /\ UNCHANGED <<table, page, esp0, eip, iflag, boot, vid, fd, exception_death,
                 display_terminal_id>>
  /\ result' = NoResult

-----------------------------------------------------------------------------
(***************************************************************************)
(* switch_display_terminal(t): page, esp0 and running task become those of *)
(* the bottom task of t, computed from -1 when t has no shell; registers   *)
(* (eip, iflag, mode) stay.                                                *)
(***************************************************************************)
SwitchDisplay_NoRemap(t) ==
  IF t = display_terminal_id
  THEN UNCHANGED <<page, esp0, display_terminal_id, tasks_running>>
  ELSE LET b == find_bottom_task(t)
       IN /\ esp0' = StackTop(b)
          /\ display_terminal_id' = t
          /\ tasks_running' = IF b = NoTask THEN tasks_running ELSE b
          /\ UNCHANGED page

SwitchDisplay(t) ==
  IF t = display_terminal_id
  THEN UNCHANGED <<page, esp0, display_terminal_id, tasks_running>>
  ELSE LET b == find_bottom_task(t)
       IN /\ page' = b
          /\ esp0' = StackTop(b)
          /\ display_terminal_id' = t
          /\ tasks_running' = IF b = NoTask THEN tasks_running ELSE b

AltF(t) ==
  /\ InterruptsOn
  /\ t # display_terminal_id
  /\ SwitchDisplay(t)
  /\ UNCHANGED <<task_slots, child, parent, prog, frame, mode, eip, iflag,
                 boot, vid, fd, exception_death>>
  /\ result' = NoResult

(* pit_handler: i++, and back to 0 past the last terminal. *)
NextTerminal_WrapLate == pit_i' = IF pit_i + 1 > TERMINAL_COUNT THEN 0 ELSE pit_i + 1
NextTerminal_WrapEarly == pit_i' = IF pit_i + 1 > TERMINAL_COUNT - 2 THEN 0 ELSE pit_i + 1
NextTerminal == pit_i' = IF pit_i + 1 > TERMINAL_COUNT - 1 THEN 0 ELSE pit_i + 1

(* The scheduler finds the terminal's shell and returns. *)
PitIdle ==
  /\ InterruptsOn
  /\ ~bootup_flag
  /\ task_slots[pit_i] = 1
  /\ NextTerminal
  /\ UNCHANGED <<table, cpu, bootup_flag, vid, fd, exception_death,
                 display_terminal_id>>
  /\ result' = NoResult

(* scheduler: t_num = 0 once the last shell has been spawned. *)
BootTerminal_Last == TERMINAL_COUNT - 1
BootTerminal == 0

(* The tick after the last shell was spawned: back to the first terminal. *)
PitSwitchBack ==
  /\ InterruptsOn
  /\ bootup_flag
  /\ task_slots[BootTerminal] = 1
  /\ SwitchDisplay(BootTerminal)
  /\ bootup_flag' = FALSE
  /\ NextTerminal
  /\ UNCHANGED <<task_slots, child, parent, prog, frame, mode, eip, iflag,
                 vid, fd, exception_death>>
  /\ result' = NoResult

(***************************************************************************)
(* The terminal has no shell: switch to it and execute one.  execute does  *)
(* not return here, so pit_handler's i++ is not reached, and what the tick *)
(* interrupted is never resumed.  The shell starts with IF clear.          *)
(***************************************************************************)
PitSpawn ==
  LET t == IF bootup_flag THEN BootTerminal ELSE pit_i
  IN /\ InterruptsOn
     /\ task_slots[t] = 0
     /\ display_terminal_id' = t
     /\ bootup_flag' = (t = TERMINAL_COUNT - 1)
     /\ Launch(Shell, FALSE)
     /\ UNCHANGED <<pit_i, vid, exception_death>>
     /\ result' = NoResult

PitTick == PitIdle \/ PitSwitchBack \/ PitSpawn

Next ==
  \/ \E name \in Names : Execute(name) \/ ExecuteRejected(name)
  \/ ExecuteBlank
  \/ Halt \/ Exception
  \/ Open \/ Close \/ Vidmap
  \/ EnterKernel \/ LeaveKernel \/ TripleFault
  \/ \E t \in Terminals : AltF(t)
  \/ PitTick

Spec == Init /\ [][Next]_vars

(***************************************************************************)
(* An interrupt request stays latched in the PIC until IF is set, so the   *)
(* tick is taken at the first chance: strong fairness.  The shell's loop   *)
(* always reaches its next system call and every call but a blocked read   *)
(* returns; a blocked read has IF set.                                     *)
(***************************************************************************)
FairSpec ==
  /\ Spec
  /\ SF_vars(PitTick)
  /\ WF_vars(EnterKernel /\ eip = Shell)
-----------------------------------------------------------------------------
(***************************************************************************)
(* Properties.                                                             *)
(***************************************************************************)

(* Every variable has its type. *)
TypeOK ==
  /\ task_slots \in [Tasks -> {0, 1}]
  /\ tasks_running \in Tasks \cup {NoTask}
  /\ child \in [Tasks -> Tasks \cup {NoTask}]
  /\ parent \in [Tasks -> Tasks \cup {NoTask}]
  /\ prog \in [Tasks -> Programs \cup {NoProgram}]
  /\ frame \in [Tasks -> Frame]
  /\ fd \in [Tasks -> SUBSET Fds]
  /\ exception_death \in BOOLEAN
  /\ page \in Tasks \cup {NoTask}
  /\ esp0 \in Stack
  /\ video \in BOOLEAN
  /\ vid_user \in Tasks \cup {NoTask}
  /\ display_terminal_id \in Terminals
  /\ pit_i \in Terminals
  /\ bootup_flag \in BOOLEAN
  /\ mode \in Modes
  /\ eip \in Programs \cup {NoProgram}
  /\ iflag \in BOOLEAN
  /\ result \in [cause : Causes, value : Values]

(* A base shell has no parent; every other task is the child of a task     *)
(* that is itself in the table, and a task's child names it as parent.     *)
TaskTree ==
  \A t \in Live :
    /\ IF t < TERMINAL_COUNT THEN parent[t] = NoTask
       ELSE parent[t] \in Live /\ child[parent[t]] = t
    /\ child[t] # NoTask =>
         child[t] \in Live /\ child[t] >= TERMINAL_COUNT /\ parent[child[t]] = t

(* The running task is in the table and has no child: execute never        *)
(* overwrites the child link of a parent that still waits.                 *)
RunningIsLeaf ==
  tasks_running # NoTask => tasks_running \in Live /\ child[tasks_running] = NoTask

(* find_bottom_task's loop ends, on one task of the terminal's own chain.  *)
ChainsEnd ==
  \A t \in Terminals : task_slots[t] = 1 => \E u \in Live : Bottoms(t) = {u}

(* No kernel entry can overwrite the frame a waiting execute returns to:   *)
(* it is on the parent's own kernel stack, and esp0 never lies above it.   *)
ReturnFramesKept ==
  \A t \in Live : t >= TERMINAL_COUNT =>
    /\ frame[t].stack.owner = parent[t]
    /\ esp0.owner = parent[t] => esp0.depth >= frame[t].stack.depth

(* In user mode the mapped page and the kernel stack are the running       *)
(* task's, whatever ticks, switches, exceptions and halts came before.     *)
AddressSpace ==
  UserRuns => page = tasks_running /\ esp0.owner = tasks_running

(* The video page is only mapped while a task that asked for it lives. *)
NoStaleVideoMap == video => vid_user \in Live

(* A step leaves the chain of every terminal alone that does not hold the  *)
(* running task: what runs on one terminal never adds to, cuts or          *)
(* redirects the tasks of another.                                         *)
ChainIsolation ==
  [][child' # child =>
       \A t \in Terminals :
         task_slots[t] = 1 /\ tasks_running \notin Chain(t) => Chain(t)' = Chain(t)]_vars

(* The scheduler's shell takes the slot of the terminal it is spawned for, *)
(* and that terminal is the one displayed.                                 *)
SpawnInOwnTerminal ==
  [][PitSpawn => /\ tasks_running' = display_terminal_id'
                 /\ tasks_running' \in Terminals
                 /\ task_slots[tasks_running'] = 0]_vars

(* Only the running task's descriptors change, except that execute clears  *)
(* those of the task it starts and halt those of the task it ends.         *)
DescriptorIsolation ==
  [][\A t \in Tasks : fd'[t] # fd[t] =>
        \/ t = tasks_running
        \/ t = tasks_running' /\ task_slots[t] = 0 /\ fd'[t] = {}]_vars

(* The processor can no longer take interrupts: it is down, it spins with  *)
(* IF clear, or a program other than the shell computes with IF clear.     *)
Stuck ==
  \/ mode = "dead"
  \/ mode = "user" /\ ~UserRuns
  \/ mode \in {"user", "spin"} /\ ~iflag /\ ~(mode = "user" /\ eip = Shell)

(* Every terminal gets its shell, unless the machine is stuck. *)
ShellsUp == <>(Stuck \/ \A t \in Terminals : task_slots[t] = 1)

(* Booting ends on the first terminal, after the last shell was spawned. *)
BootEndsOnFirstTerminal == bootup_flag ~> (Stuck \/ display_terminal_id = 0)

-----------------------------------------------------------------------------
(***************************************************************************)
(* What the code's comments say and the code does not do.                  *)
(***************************************************************************)

(* execute returns 256 only if the program died by an exception            *)
(* (system_call.c, the comment on syscall_execute and on exception_death). *)
ExceptionStatus == result.value = "256" => result.cause = "exception"

(***************************************************************************)
(* esp0 is in "process' kernel-mode stack".  A frame of execute takes at   *)
(* least 314 bytes: its locals (33 + 129 + 64 + 4 bytes and eight words),  *)
(* ebp and the return address, the six words of syscall_handler_asm and    *)
(* the five of the user's interrupt frame.  8 KB hold at most 26 of them.  *)
(***************************************************************************)
FramesPerStack == 26
KernelStackInBounds == esp0.depth <= FramesPerStack
=============================================================================
