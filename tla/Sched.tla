------------------------------- MODULE Sched -------------------------------
(***************************************************************************)
(* The preemptive scheduler of Noah-OS: the boot context that creates the  *)
(* kernel threads, the clock interrupt and the yield system call that      *)
(* switch between them, and printk, which the threads call with interrupts *)
(* enabled.                                                                *)
(*                                                                         *)
(* A context is the boot stack (page 0xF000) or a slot of task_table.  A   *)
(* handler runs behind an interrupt gate, so with IF clear from its first  *)
(* instruction to the iret of the context it resumes: it is one action.    *)
(* A thread is interruptible between any two of its steps.                 *)
(***************************************************************************)
EXTENDS Naturals

CONSTANTS NumSlots,     \* NUM_TASKS, the length of task_table
          NumThreads,   \* how many threads task_init creates
          Priority,     \* the priority task_create is given for each thread
          BootPriority, \* the uninitialised priority word of the boot page
          Yielding,     \* the threads whose loop calls syscall_yield
          Word,         \* uint32_t holds 0 .. Word - 1
          TickHorizon   \* bound: no tick is taken at jiffies = TickHorizon

Slot == 1 .. NumSlots
Thread == 1 .. NumThreads
Null == 0
Boot == NumSlots + 1
Context == Slot \cup {Boot}

ASSUME CountsAssumption == NumSlots \in Nat \ {0} /\ NumThreads \in Nat
ASSUME WordAssumption == Word \in Nat /\ Word > 1
ASSUME PriorityAssumption ==
  Priority \in [Thread -> 1 .. (Word - 1)] /\ BootPriority \in 0 .. (Word - 1)
ASSUME WorkloadAssumption == Yielding \subseteq Slot
ASSUME HorizonAssumption == TickHorizon \in Nat

VARIABLES
  cur,      \* the context whose stack ESP points into (running_task)
  ifl,      \* the IF bit of EFLAGS
  irr,      \* IRQ0 is latched in the interrupt request register of the PIC
  isr,      \* IRQ0 is in service: no further IRQ0 is delivered
  jiffies,  \* the global tick counter
  state,    \* PCB field state; "null" is an empty slot of task_table
  ticks,    \* PCB field ticks, what is left of the time slice
  stamp,    \* PCB field jiffies, the tick at which the task last ran
  prio,     \* PCB field priority
  magic,    \* the contexts whose PCB holds OS_MAGIC
  saved,    \* how a suspended context resumes: "fresh", or its saved IF bit
  pc,       \* the next step of each context
  created,  \* how many calls of task_create have returned
  buf,      \* printk's static buffer: the thread whose text it holds
  halted    \* an assertion or a panic spins with interrupts off

pcb == <<state, ticks, stamp, prio, magic>>
cpu == <<cur, ifl, saved, halted>>
pic == <<irr, isr>>
vars == <<cpu, pic, pcb, jiffies, pc, created, buf>>

-----------------------------------------------------------------------------
(* The state in which kernel_init calls task_init: interrupts are off, the *)
(* clock is running and unmasked, and the boot page has never been a PCB.  *)

Init ==
  /\ cur = Boot /\ ifl = FALSE /\ halted = FALSE
  /\ irr \in BOOLEAN /\ isr = FALSE
  /\ jiffies = 0
  /\ \E garbage \in {"running", "ready"} :
       state = [c \in Context |-> IF c = Boot THEN garbage ELSE "null"]
  /\ ticks = [c \in Context |-> 0]
  /\ stamp = [c \in Context |-> 0]
  /\ prio = [c \in Context |-> IF c = Boot THEN BootPriority ELSE 0]
  /\ magic = {}
  /\ saved = [c \in Context |-> "fresh"]
  /\ pc = [c \in Context |-> IF c = Boot THEN "setup" ELSE "start"]
  /\ created = 0
  /\ buf = Null

-----------------------------------------------------------------------------
(* task_search_in_table: one pass over the slots.  The held task is        *)
(* replaced by a later one that has more ticks OR an older stamp.          *)

Candidate(st, me) == {s \in Slot : st[s] = "ready" /\ s # me}

\* Mutant: the smaller slice is preferred, as the comment of line 82 has it.
PreferredShorter(ptr, task, tk, sp) ==
  task = Null \/ tk[ptr] < tk[task] \/ sp[ptr] < sp[task]

Preferred(ptr, task, tk, sp) ==
  task = Null \/ tk[task] < tk[ptr] \/ sp[ptr] < sp[task]

TaskSearchInTable(st, tk, sp, me) ==
  LET task[i \in 0 .. NumSlots] ==
        IF i = 0 THEN Null
        ELSE IF i \in Candidate(st, me) /\ Preferred(i, task[i - 1], tk, sp)
             THEN i ELSE task[i - 1]
  IN  task[NumSlots]

(* assertion_failure, panic: print and spin.  Every assertion modelled     *)
(* here is reached with IF clear, so the machine stops.                    *)
Spin == halted' = TRUE /\ ifl' = FALSE /\ UNCHANGED <<cur, saved>>

\* Mutant: the flags pushed by the gate are dropped instead of restored.
ResumedMasked(c) == FALSE

(* IF after the return to c: what iret pops, or, for a task that never ran *)
(* and is entered by the ret of task_switch, still clear.                  *)
ResumedIf(c) == saved[c] = "on"

(* task_switch, then the return to the context resumed.  The gate had      *)
(* pushed the IF bit of the context that leaves.                           *)
TaskSwitch(next) ==
  /\ cur' = next
  /\ saved' = [saved EXCEPT ![cur] = IF ifl THEN "on" ELSE "off"]
  /\ ifl' = ResumedIf(next)
  /\ UNCHANGED halted

\* Mutant: the task switched away from is not put back to READY.
HandoverKeeping(next) ==
  [c \in Context |-> IF c = next THEN "running" ELSE state[c]]

\* Mutant: the task switched to is not marked RUNNING.
HandoverUnmarked(next) ==
  [c \in Context |-> IF c = cur /\ state[c] = "running" THEN "ready" ELSE state[c]]

(* The two states schedule() writes. *)
Handover(next) ==
  [c \in Context |-> IF c = next THEN "running"
                    ELSE IF c = cur /\ state[c] = "running" THEN "ready"
                    ELSE state[c]]

\* Mutant: the slice is left at 0.
RefilledNever(tk) == tk

(* A slice that is used up is refilled when its owner is switched away.    *)
Refilled(tk) == [tk EXCEPT ![cur] = IF @ = 0 THEN prio[cur] ELSE @]

(* schedule(), called by a handler that has left tk and sp in the PCBs.    *)
Schedule(tk, sp) ==
  LET next == TaskSearchInTable(state, tk, sp, cur) IN
  IF next = Null \/ next \notin magic
  THEN Spin /\ ticks' = tk /\ UNCHANGED state
  ELSE state' = Handover(next) /\ ticks' = Refilled(tk) /\ TaskSwitch(next)

-----------------------------------------------------------------------------
(* The boot context: task_init, then set_if_flag(True), then an idle loop. *)

TaskTableSetup ==
  /\ pc[Boot] = "setup"
  /\ magic' = magic \cup {Boot}
  /\ ticks' = [ticks EXCEPT ![Boot] = 1]
  /\ state' = [c \in Context |-> IF c = Boot THEN state[c] ELSE "null"]
  /\ pc' = [pc EXCEPT ![Boot] = "create"]
  /\ UNCHANGED <<cpu, pic, stamp, prio, jiffies, created, buf>>

FreeSlot == {s \in Slot : state[s] = "null"}

(* get_free_task: the first empty slot. *)
GetFreeTask == CHOOSE s \in FreeSlot : \A r \in FreeSlot : s <= r

TaskCreate ==
  /\ pc[Boot] = "create" /\ created < NumThreads /\ ~halted
  /\ IF FreeSlot = {}
     THEN Spin /\ UNCHANGED <<pcb, pc, created>>
     ELSE LET s == GetFreeTask
              p == Priority[created + 1]
          IN  /\ prio' = [prio EXCEPT ![s] = p]
              /\ ticks' = [ticks EXCEPT ![s] = p]
              /\ stamp' = [stamp EXCEPT ![s] = 0]
              /\ state' = [state EXCEPT ![s] = "ready"]
              /\ saved' = [saved EXCEPT ![s] = "fresh"]
              /\ pc' = [pc EXCEPT ![s] = "start"]
              /\ magic' = magic \cup {s}
              /\ created' = created + 1
              /\ UNCHANGED <<cur, ifl, halted>>
  /\ UNCHANGED <<pic, jiffies, buf>>

KernelInitDone ==
  /\ pc[Boot] = "create" /\ created = NumThreads /\ ~halted
  /\ ifl' = TRUE
  /\ pc' = [pc EXCEPT ![Boot] = "idle"]
  /\ UNCHANGED <<cur, saved, halted, pic, pcb, jiffies, created, buf>>

-----------------------------------------------------------------------------
(* The clock.  The PIC latches one request: a tick that comes while one is *)
(* pending is lost.                                                        *)

PitTick ==
  /\ ~irr
  /\ irr' = TRUE
  /\ UNCHANGED <<cpu, isr, pcb, jiffies, pc, created, buf>>

\* Mutant: the EOI comes after schedule(), which does not return here.
SendEoiLate(inService) == inService

(* send_eoi: the in-service bit, set by the acknowledge cycle, is cleared. *)
SendEoi(inService) == FALSE

\* Mutant: the counter is wider than the uint32_t it is compared with.
AdvancedWide(n) == n + 1

(* uint32_t arithmetic: jiffies++ and ticks--. *)
Advanced(n) == (n + 1) % Word
Spent(n) == (n + Word - 1) % Word

(* clock_handler, and schedule() when the slice of the current task ends.  *)
ClockInterrupt ==
  /\ ifl /\ irr /\ ~isr
  /\ jiffies < TickHorizon
  /\ irr' = FALSE
  /\ isr' = SendEoi(TRUE)
  /\ LET now == Advanced(jiffies)
         sp == [stamp EXCEPT ![cur] = now]
         tk == [ticks EXCEPT ![cur] = Spent(@)]
     IN  /\ jiffies' = now
         /\ IF cur \notin magic
            THEN Spin /\ UNCHANGED <<state, ticks, stamp>>
            ELSE /\ stamp' = sp
                 /\ IF tk[cur] = 0
                    THEN Schedule(tk, sp)
                    ELSE ticks' = tk /\ UNCHANGED <<cpu, state>>
  /\ UNCHANGED <<prio, magic, pc, created, buf>>

-----------------------------------------------------------------------------
(* thread_a, thread_b, thread_c: enable interrupts, then for ever print a  *)
(* letter and yield.                                                       *)

At(label) == cur \in Slot /\ ~halted /\ pc[cur] = label

ThreadStart ==
  /\ At("start")
  /\ ifl' = TRUE
  /\ pc' = [pc EXCEPT ![cur] = "format"]
  /\ UNCHANGED <<cur, saved, halted, pic, pcb, jiffies, created, buf>>

(* The first half of printk: vsprintf into the shared buffer. *)
Vsprintf ==
  /\ At("format")
  /\ buf' = cur
  /\ pc' = [pc EXCEPT ![cur] = "write"]
  /\ UNCHANGED <<cpu, pic, pcb, jiffies, created>>

(* The second half: console_write shows what the buffer holds now.  It     *)
(* clears IF while it draws and puts it back, so it is one step; what it   *)
(* draws is module Console.                                                *)
ConsoleWrite ==
  /\ At("write")
  /\ pc' = [pc EXCEPT ![cur] = IF cur \in Yielding THEN "yield" ELSE "format"]
  /\ UNCHANGED <<cpu, pic, pcb, jiffies, created, buf>>

(* int 0x80 with call number 1. *)
SyscallYield ==
  /\ At("yield")
  /\ pc' = [pc EXCEPT ![cur] = "format"]
  /\ Schedule(ticks, stamp)
  /\ UNCHANGED <<pic, stamp, prio, magic, jiffies, created, buf>>

BootStep == TaskTableSetup \/ TaskCreate \/ KernelInitDone
ThreadStep == ThreadStart \/ Vsprintf \/ ConsoleWrite \/ SyscallYield

Next == BootStep \/ PitTick \/ ClockInterrupt \/ ThreadStep

Spec == Init /\ [][Next]_vars

(* The processor runs its current context, the PIT keeps ticking, and a    *)
(* latched request is delivered once IF stays set.                         *)
FairSpec == /\ Spec
            /\ WF_vars(BootStep) /\ WF_vars(ThreadStep)
            /\ WF_vars(PitTick) /\ WF_vars(ClockInterrupt)

-----------------------------------------------------------------------------
(* Type correctness of the machine state and of every PCB field. *)
TypeOK ==
  /\ cur \in Context /\ ifl \in BOOLEAN /\ halted \in BOOLEAN
  /\ irr \in BOOLEAN /\ isr \in BOOLEAN
  /\ jiffies \in 0 .. (Word - 1)
  /\ state \in [Context -> {"null", "ready", "running"}]
  /\ ticks \in [Context -> 0 .. (Word - 1)]
  /\ stamp \in [Context -> 0 .. (Word - 1)]
  /\ prio \in [Context -> 0 .. (Word - 1)]
  /\ magic \in SUBSET Context
  /\ saved \in [Context -> {"fresh", "on", "off"}]
  /\ pc \in [Context -> {"setup", "create", "idle",
                         "start", "format", "write", "yield"}]
  /\ created \in 0 .. NumThreads
  /\ buf \in Slot \cup {Null}

(* The state field of the PCBs and the stack in use never disagree: a task *)
(* is marked RUNNING exactly while ESP is in its page.  schedule() writes  *)
(* the two fields and task_switch moves ESP; neither reads the other.      *)
OneRunning == \A s \in Slot : state[s] = "running" <=> cur = s

(* The unsigned slice of a task never underflows and never exceeds its     *)
(* priority: clock_handler decrements it without a test, relying on        *)
(* schedule() to refill a slice of 0 before the task runs again.           *)
SliceBounded ==
  ~halted => \A s \in Slot : state[s] # "null" => ticks[s] \in 1 .. prio[s]

(* With two threads or more (and a slot for each) no assertion of the      *)
(* scheduler fails and task_init does not panic: there is always a READY   *)
(* task with a valid PCB to switch to.  l_syscall.c:45 admits the failure  *)
(* with one task.                                                          *)
NeverSpins == NumThreads \in 2 .. NumSlots => ~halted

(* Between handlers the timer can always preempt: the PIC has been told    *)
(* that the last interrupt ended, and IF is set, or is about to be set by  *)
(* the code that runs, or comes back with the frame of the context that    *)
(* is resumed, whichever way (tick, yield, first entry) each one left.     *)
Preemptible ==
  /\ ~isr
  /\ ifl <=> /\ ~halted
             /\ pc[cur] \in {"idle", "format", "write", "yield"}
  /\ \A s \in Slot \ {cur} :
       saved[s] = IF pc[s] = "start" THEN "fresh" ELSE "on"

(* The boot context and the table agree on what exists: the first created  *)
(* slots, and no others, hold a PCB with a valid magic and priority, tasks *)
(* run (and are stamped) only after all of them exist, and a slot that is  *)
(* still empty has no suspended frame.                                     *)
TableFilled ==
  /\ pc[Boot] \in {"setup", "create", "idle"}
  /\ pc[Boot] = "setup" => created = 0
  /\ pc[Boot] # "setup" => Boot \in magic
  /\ pc[Boot] = "idle" => created = NumThreads
  /\ pc[Boot] # "idle" => cur = Boot
  /\ cur = Boot => \A s \in Slot : stamp[s] = 0
  /\ \A s \in Slot :
       /\ pc[s] \in {"start", "format", "write", "yield"}
       /\ s <= created <=> state[s] # "null"
       /\ IF s <= created THEN s \in magic /\ prio[s] > 0
                          ELSE pc[s] = "start" /\ saved[s] = "fresh"

(* The inductive invariant. *)
IInv == TypeOK /\ OneRunning /\ SliceBounded /\ NeverSpins /\ Preemptible /\ TableFilled

(* A thread that is interrupted inside printk still holds its own text in  *)
(* the buffer when it comes to write it (l_printk.c:7: printk prints, on   *)
(* the basis of vsprintf, what it was given).                              *)
PrintsOwnText == At("write") => buf = cur

(* Every latched clock request is served, until the tick horizon: no order *)
(* of ticks, yields and first entries leaves the timer masked for ever.    *)
TicksServed == irr /\ jiffies < TickHorizon ~> ~irr

=============================================================================
