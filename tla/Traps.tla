-------------------------------- MODULE Traps --------------------------------
(***************************************************************************)
(* The way into the kernel and back: the tables and masks that kernel_init *)
(* sets up, the stubs of l_interrupt_h.asm with every word they push and   *)
(* pop, the C handlers, task_switch, and the 8259 pair.  Code is a stack   *)
(* machine: ret and iret go where the top of the stack says.  Which task   *)
(* is picked and when a slice ends is left open here (see Sched).          *)
(***************************************************************************)
EXTENDS Integers, Sequences, FiniteSetsExt

CONSTANTS NumThreads,
          Irq,           \* bound: the request lines that devices raise
          Exceptions,    \* bound: the exceptions that programs raise
          Calls,         \* bound: the numbers programs pass to int 0x80
          CheckClobbers  \* caller-saved registers that syscall_check changes

Thread == 1 .. NumThreads
Boot == 0
Context == Thread \cup {Boot}
ExceptionSize == 32
SyscallSize == 64
Known == {n \in Calls : n < SyscallSize}
Clock == 0   Cascade == 2   Rtc == 8
Vector == Exceptions \cup {ExceptionSize + i : i \in Irq}
PushesCode == {8, 10, 11, 12, 13, 14, 17, 21, 29, 30}

ASSUME ThreadsAssumption == NumThreads \in Nat \ {0, 1}
ASSUME LinesAssumption == {Clock, Cascade, Rtc} \subseteq Irq /\ Irq \subseteq 0 .. 15
ASSUME TrapsAssumption == Exceptions \subseteq 0 .. 21 /\ Calls \subseteq Nat
ASSUME BuildAssumption == CheckClobbers \subseteq {"ecx", "edx"}

Reg == {"eax", "ecx", "edx", "ebx", "esp", "ebp", "esi", "edi", "if"}
CallerSaved == {"eax", "ecx", "edx"}

(* A word: whose it is, what it is, a number.                              *)
Label(name) == <<Boot, name, 0>>
Number(n) == <<Boot, "number", n>>
Flag(b) == <<Boot, "if", IF b THEN 1 ELSE 0>>
Junk == Label("junk")
Any == Label("any")
Own(c, phase) == [r \in Reg |-> CASE r = "if" -> Flag(TRUE) [] r = "esp" -> Label("esp")
                                   [] OTHER -> <<c, r, phase>>]

VARIABLES
  stage,         \* the next call of kernel_init, then "run"
  handler_table, \* C handlers by vector
  syscall_table, \* C handlers by number
  opened,        \* the lines that the initialisation unmasks
  imr, irr, isr, \* the registers of both 8259s, by line
  regs,          \* the registers, IF among them
  stack,         \* the stack of each context, the top last
  cur,           \* the context whose stack ESP points into
  pc,            \* the function the processor is in, or "program"
  spilled,       \* the callee-saved registers that the C code uses, as pushed
  halted,
  prog,          \* ghost: what each program believes of its registers
  raised         \* ghost: the last vector, and its error code

tables == <<stage, handler_table, syscall_table, opened, imr>>
machine == <<regs, stack, cur, pc>>
vars == <<tables, irr, isr, machine, spilled, halted, prog, raised>>

(* rtc_init opens two lines in code that is commented out; both kernels.   *)
Init ==
  /\ stage = "interrupt_init" /\ halted = FALSE
  /\ handler_table = [v \in Vector |-> "null"]
  /\ syscall_table = [n \in Known |-> "null"]
  /\ opened \in {{Clock}, {Clock, Cascade, Rtc}}
  /\ imr \in {{}, Irq} /\ irr \in {{}, {Clock}} /\ isr = {}
  /\ regs = [Own(Boot, 0) EXCEPT !["if"] = Flag(FALSE)]
  /\ stack = [c \in Context |-> << >>]
  /\ cur = Boot /\ pc = "program"
  /\ spilled \in {<<>>, <<"ebx">>, <<"ebx", "esi", "edi">>}
  /\ prog = [c \in Context |-> [Own(c, 0) EXCEPT !["if"] = Any]]
  /\ raised = [vector |-> 0, code |-> Junk]

-----------------------------------------------------------------------------
(* The calls of kernel_init, all with IF clear.                            *)

DefaultHandler(v) ==
  IF v < ExceptionSize THEN "exception_handler" ELSE "hardware_int_handler"

InterruptInit ==
  /\ stage = "interrupt_init" /\ stage' = "clock_init"
  /\ handler_table' = [v \in Vector |-> DefaultHandler(v)]
  /\ imr' = Irq /\ irr' = {} /\ isr' = {}
  /\ UNCHANGED <<syscall_table, opened, machine, spilled, halted, prog, raised>>

(* set_hardware_interrupt_mask(irq, True) for each line.                   *)
Unmasked(lines) == imr \ lines

SetHandler(irq, handler) ==
  handler_table' = [handler_table EXCEPT ![ExceptionSize + irq] = handler]

DeviceInit(now, next, irq, handler, lines) ==
  /\ stage = now /\ stage' = next
  /\ SetHandler(irq, handler)
  /\ imr' = Unmasked(lines)
  /\ UNCHANGED <<syscall_table, opened, irr, isr, machine, spilled, halted, prog, raised>>

ClockInit == DeviceInit("clock_init", "rtc_init", Clock, "clock_handler", {Clock})
RtcInit == DeviceInit("rtc_init", "task_init", Rtc, "rtc_handler", opened \ {Clock})

(* task_frame_t, as task_create writes it: four constants and the entry.   *)
TaskFrame(c) == <<Label("program"), <<c, "ebp", 0>>, <<c, "ebx", 0>>,
                  <<c, "esi", 0>>, <<c, "edi", 0>>>>

TaskInit ==
  /\ stage = "task_init" /\ stage' = "syscall_init"
  /\ stack' = [c \in Context |-> IF c = Boot THEN stack[c] ELSE TaskFrame(c)]
  /\ prog' = [c \in Context |-> IF c = Boot THEN prog[c] ELSE
                [r \in Reg |-> IF r \in CallerSaved \cup {"if"} THEN Any ELSE Own(c, 0)[r]]]
  /\ UNCHANGED <<handler_table, syscall_table, opened, imr, irr, isr, regs, cur, pc,
                 spilled, halted, raised>>

SyscallInit ==
  /\ stage = "syscall_init" /\ stage' = "run"
  /\ syscall_table' = [n \in Known |->
       CASE n = 0 -> "syscall_test_handler" [] n = 1 -> "syscall_yield_handler"
         [] OTHER -> "syscall_default_handler"]
  /\ UNCHANGED <<handler_table, opened, imr, irr, isr, machine, spilled, halted, prog, raised>>

-----------------------------------------------------------------------------
(* Stacks.                                                                 *)

Values(r, names) == [i \in 1 .. Len(names) |-> r[names[i]]]
Drop(s, n) == SubSeq(s, 1, Len(s) - n)
Word(s, n) == s[Len(s) - n]    \* dword [esp + 4 * n]

Pusha == <<"eax", "ecx", "edx", "ebx", "esp", "ebp", "esi", "edi">>

(* popa: the saved ESP is passed over, the stack itself gives it back.     *)
Popped(r, s) == [n \in Reg |->
  IF \E i \in 1 .. 8 : Pusha[i] = n
  THEN Word(s, 8 - (CHOOSE i \in 1 .. 8 : Pusha[i] = n)) ELSE r[n]]

Segments == [i \in 1 .. 4 |-> Label("selector")]
OnStack(s) == stack' = [stack EXCEPT ![cur] = s]

(* What the gate pushes, the error code or the stub's dummy, the number,   *)
(* and the registers.                                                      *)
Frame(s, r, code, number) ==
  s \o <<r["if"], Label("cs"), Label("program"), code, Number(number)>>
    \o Segments \o Values(r, Pusha)

\* Mutant: the number is looked for one word too high.
VectorOffsetWrong == 13

VectorOffset == 12

(* interrupt_entry *)
Enter(vector, code) ==
  LET s == Frame(stack[cur], regs, code, vector)
      eax == Word(s, VectorOffset)
  IN  /\ OnStack(s \o <<eax, Label("interrupt_exit")>>)
      /\ regs' = [regs EXCEPT !["eax"] = eax, !["if"] = Flag(FALSE)]
      /\ pc' = IF eax[3] \in Vector THEN handler_table[eax[3]] ELSE "wild"
      /\ raised' = [vector |-> vector, code |-> code]
      /\ UNCHANGED cur

Running == stage = "run" /\ ~halted
InProgram == Running /\ pc = "program"

(* set_if_flag(True): at the end of kernel_init, at the head of a thread.  *)
Sti ==
  /\ InProgram /\ regs["if"] = Flag(FALSE)
  /\ regs' = [regs EXCEPT !["if"] = Flag(TRUE)]
  /\ prog' = [prog EXCEPT ![cur]["if"] = Flag(TRUE)]
  /\ UNCHANGED <<tables, irr, isr, stack, cur, pc, spilled, halted, raised>>

Compute(phase) ==
  /\ InProgram /\ regs["if"] = Flag(TRUE)
  /\ regs' = Own(cur, phase) /\ prog' = [prog EXCEPT ![cur] = Own(cur, phase)]
  /\ UNCHANGED <<tables, irr, isr, stack, cur, pc, spilled, halted, raised>>

RaiseIrq(i) ==
  /\ irr' = irr \cup {i} /\ i # Cascade
  /\ UNCHANGED <<tables, isr, machine, spilled, halted, prog, raised>>

(* The 8259s: the slave's request passes the master's line 2; a line waits *)
(* while one of its priority or above is in service.                       *)
Deliverable(i) ==
  /\ i \in irr \ imr
  /\ i >= 8 => Cascade \notin imr
  /\ \A j \in isr : i < 8 /\ i < j

Interrupt(i) ==
  /\ InProgram /\ regs["if"] = Flag(TRUE) /\ Deliverable(i)
  /\ irr' = irr \ {i}
  /\ isr' = isr \cup {i} \cup (IF i >= 8 THEN {Cascade} ELSE {})
  /\ Enter(ExceptionSize + i, Label("dummy"))
  /\ UNCHANGED <<tables, spilled, halted, prog>>

Exception(v) ==
  /\ InProgram /\ regs["if"] = Flag(TRUE)
  /\ Enter(v, Label(IF v \in PushesCode THEN "code" ELSE "dummy"))
  /\ UNCHANGED <<tables, irr, isr, spilled, halted, prog>>

Arguments == <<"edx", "ecx", "ebx">>

(* int 0x80 to the call through syscall_table.  syscall_check runs before  *)
(* the registers are saved, and panics for a number that is too large.     *)
Syscall(n) ==
  LET checked == [r \in Reg |-> CASE r \in CheckClobbers -> Junk [] r = "eax" -> Number(n)
                                   [] OTHER -> regs[r]]
  IN  /\ InProgram /\ regs["if"] = Flag(TRUE)
      /\ prog' = [prog EXCEPT ![cur]["eax"] = IF n = 0 THEN Number(10) ELSE Any]
      /\ raised' = [vector |-> 128, code |-> Number(n)]
      /\ IF n \in Known
         THEN /\ OnStack(Frame(stack[cur], checked, Label("dummy"), 128)
                           \o <<Number(128)>> \o Values(checked, Arguments)
                           \o <<Label("syscall_return")>>)
              /\ regs' = [checked EXCEPT !["if"] = Flag(FALSE)]
              /\ pc' = syscall_table[n]
              /\ UNCHANGED <<cur, halted>>
         ELSE halted' = TRUE /\ UNCHANGED machine
      /\ UNCHANGED <<tables, irr, isr, spilled>>

-----------------------------------------------------------------------------
(* C code: the caller-saved registers are lost, the others come back.      *)

Clobbered(r) == [n \in Reg |-> IF n \in CallerSaved THEN Junk ELSE r[n]]

Ret(s, r) == pc' = Word(s, 0)[2] /\ OnStack(Drop(s, 1)) /\ regs' = r /\ UNCHANGED cur

MasterEoi(s) == IF \E i \in s : i < 8 THEN s \ {Min({i \in s : i < 8})} ELSE s
SlaveEoi(s) == IF \E i \in s : i >= 8 THEN s \ {Min({i \in s : i >= 8})} ELSE s

\* Mutant: a vector of the slave is acknowledged at the slave alone.
SendEoiSlaveOnly(vector) ==
  IF vector \in 32 .. 39 THEN MasterEoi(isr)
  ELSE IF vector \in 40 .. 47 THEN SlaveEoi(isr) ELSE isr

SendEoi(vector) ==
  IF vector \in 32 .. 39 THEN MasterEoi(isr)
  ELSE IF vector \in 40 .. 47 THEN SlaveEoi(MasterEoi(isr)) ELSE isr

Spilled == {spilled[i] : i \in DOMAIN spilled}
SwitchOrder == <<"ebp", "ebx", "esi", "edi">>

\* Mutant: task_switch saves three of the four registers it pops.
SwitchSavedShort(r) == <<r["ebp"], r["ebx"], r["esi"], r["esi"]>>

SwitchSaved(r) == Values(r, SwitchOrder)

(* schedule, from the prologue of the C code to the ret of task_switch     *)
(* into whatever the other context left on its stack.                      *)
SwitchTo(next) ==
  LET inC == [r \in Reg |-> IF r \in CallerSaved \cup Spilled \cup {"ebp"} THEN Junk ELSE regs[r]]
      left == stack[cur] \o <<regs["ebp"]>> \o Values(regs, spilled)
                \o <<Label("next"), Label("schedule")>> \o SwitchSaved(inC)
      s == stack[next]
  IN  /\ stack' = [stack EXCEPT ![cur] = left, ![next] = Drop(s, 5)]
      /\ regs' = [Clobbered(inC) EXCEPT !["edi"] = Word(s, 0), !["esi"] = Word(s, 1),
                    !["ebx"] = Word(s, 2), !["ebp"] = Word(s, 3)]
      /\ pc' = Word(s, 4)[2]
      /\ cur' = next

(* The epilogues of schedule and of the handler that called it.            *)
ScheduleReturns ==
  LET s == Drop(stack[cur], 1)
      n == Len(spilled)
      r == [m \in Reg |->
              IF m = "ebp" THEN Word(s, n)
              ELSE IF m \in Spilled
                   THEN Word(s, n - (CHOOSE i \in 1 .. n : spilled[i] = m))
                   ELSE Clobbered(regs)[m]]
  IN  /\ Running /\ pc = "schedule"
      /\ Ret(Drop(s, n + 1), r)
      /\ UNCHANGED <<tables, irr, isr, spilled, halted, prog, raised>>

Argument(n) == Word(stack[cur], n)   \* the n-th argument of the C function

ClockHandler ==
  /\ Running /\ pc = "clock_handler"
  /\ isr' = SendEoi(Argument(1)[3])
  /\ \/ Ret(stack[cur], Clobbered(regs))
     \/ \E next \in Thread \ {cur} : SwitchTo(next)
  /\ UNCHANGED <<tables, irr, spilled, halted, prog, raised>>

RtcHandler ==
  /\ Running /\ pc = "rtc_handler"
  /\ IF Argument(1) = Number(40)
     THEN isr' = SendEoi(40) /\ Ret(stack[cur], Clobbered(regs)) /\ UNCHANGED halted
     ELSE halted' = TRUE /\ UNCHANGED <<isr, machine>>
  /\ UNCHANGED <<tables, irr, spilled, prog, raised>>

ExceptionHandler ==
  /\ Running /\ pc = "exception_handler"
  /\ halted' = TRUE
  /\ UNCHANGED <<tables, irr, isr, machine, spilled, prog, raised>>

SyscallHandler ==
  /\ Running
  /\ \/ /\ pc = "syscall_test_handler" /\ UNCHANGED halted
        /\ Ret(stack[cur], [Clobbered(regs) EXCEPT !["eax"] = Number(10)])
     \/ /\ pc = "syscall_yield_handler" /\ UNCHANGED halted
        /\ \E next \in Thread \ {cur} : SwitchTo(next)
     \/ pc = "syscall_default_handler" /\ halted' = TRUE /\ UNCHANGED machine
  /\ UNCHANGED <<tables, irr, isr, spilled, prog, raised>>

(* interrupt_exit: the number, popa, four selectors, two words, iret.      *)
Leave(s) ==
  LET r == Popped(regs, Drop(s, 1))
      gate == Drop(s, 15)
  IN  /\ pc' = Word(gate, 0)[2]
      /\ regs' = [r EXCEPT !["if"] = Word(gate, 2)]
      /\ OnStack(Drop(gate, 3))
      /\ UNCHANGED cur

\* Mutant: the answer is stored one register too low.
ResultWordWrong == 7

(* [esp + 8 * 4]: where pusha left eax.                                    *)
ResultWord == 8

(* add esp, 12: the fourth argument stays for interrupt_exit to pop.       *)
ArgumentWords == 3

InterruptExit ==
  /\ Running
  /\ \/ pc = "interrupt_exit" /\ Leave(stack[cur])
     \/ pc = "syscall_return"
        /\ LET s == Drop(stack[cur], ArgumentWords)
           IN  Leave([s EXCEPT ![Len(s) - ResultWord] = regs["eax"]])
  /\ UNCHANGED <<tables, irr, isr, spilled, halted, prog, raised>>

Next ==
  \/ InterruptInit \/ ClockInit \/ RtcInit \/ TaskInit \/ SyscallInit \/ Sti
  \/ \E i \in Irq : RaiseIrq(i) \/ Interrupt(i)
  \/ \E v \in Exceptions : Exception(v)
  \/ cur # Boot /\ \E n \in Calls : Syscall(n)
  \/ \E phase \in 0 .. 1 : Compute(phase)
  \/ ScheduleReturns \/ ClockHandler \/ RtcHandler \/ ExceptionHandler
  \/ SyscallHandler \/ InterruptExit

Spec == Init /\ [][Next]_vars

-----------------------------------------------------------------------------
(* Whenever a program runs, every register and IF holds what the program   *)
(* left there, through any interrupts, calls and switches between, eax the *)
(* answer after a call, and nothing of a handler is left on its stack; a   *)
(* new task finds the frame of task_create.                                *)
RegistersIntact ==
  Running /\ pc = "program" =>
    /\ \A r \in Reg : prog[cur][r] \in {Any, regs[r]}
    /\ stack[cur] = << >>

(* To the C code that called it, task_switch looks like a function: the    *)
(* registers a callee must keep are kept while other tasks run, and it     *)
(* returns to schedule and nowhere else.                                   *)
CalleeSavedKept ==
  pc = "schedule" =>
    /\ \A r \in {"ebx", "esi", "edi"} \ Spilled : prog[cur][r] \in {Any, regs[r]}
    /\ Word(stack[cur], 0) = Label("next")

(* The stubs find the vector that was raised, whether or not the processor *)
(* pushed an error code, and the handler installed for it; a system call   *)
(* finds its handler and gives it ebx, ecx and edx of the program.  No     *)
(* line but those with a handler of their own ever interrupts, and what    *)
(* runs next is always code that is there.                                 *)
Argued(name, vectors) ==
  pc = name => raised.vector \in vectors /\ Argument(1) = Number(raised.vector)

HandlersInformed ==
  /\ Argued("clock_handler", {32}) /\ Argued("rtc_handler", {40})
  /\ Argued("exception_handler", Exceptions)
  /\ pc = "exception_handler" => Argument(15) = raised.code
  /\ pc \in {syscall_table[n] : n \in Known} /\ pc # "null" =>
       \A i \in 1 .. 3 : prog[cur][<<"ebx", "ecx", "edx">>[i]] \in {Any, Argument(i)}
  /\ pc \in {"program", "schedule", "interrupt_exit", "syscall_return", "clock_handler",
              "rtc_handler", "exception_handler"} \cup {syscall_table[n] : n \in Known}
  /\ pc # "null"

(* Every in-service bit is cleared before a program runs again, at both    *)
(* 8259s: no line stays blocked by a request already handled, also when    *)
(* the handler switched to another task.                                   *)
NothingLeftInService == pc = "program" => isr = {}

=============================================================================
