# A verification of the Noah-OS kernel

Noah-OS is a small kernel for one i386 processor: about 4300 lines of C and
assembly under `src/src`. This directory holds TLA+ modules of its core logic,
TLC configurations that check them on small instances, and TLAPS proofs of the
facts that matter most, for every value of the parameters.

Paths below are relative to the repository root (`src/` of this checkout), so
`src/kernel/l_task.c` is the scheduler. The older copy of the system under
`utils/superbigouis1` is not part of the build and is not considered.

## 1. Inventory

| component | code | state it keeps | operations |
|---|---|---|---|
| boot sector, loader | `boot/boot.asm`, `boot/loader.asm` | ARDS table at a fixed address, GDT | load the kernel, probe memory, enter protected mode |
| start-up, GDT | `kernel/start.asm`, `kernel/main.c`, `l_gdt.c` | the copy of the GDT | fixed order of `*_init` calls, then IF on and an idle loop |
| task scheduler | `kernel/l_task.c` | `task_table[64]`, one PCB page per task (state, ticks, jiffies, priority, magic) | `task_create`, `task_search_in_table`, `schedule`, three kernel threads |
| context switch | `kernel/l_schedule.asm` | saved ESP in the first word of each PCB page | `task_switch` |
| clock | `kernel/l_clock.c` | `jiffies` (uint32) | `clock_handler`, PIT set-up |
| interrupts | `kernel/l_interrupt.c`, `l_interrupt_h.asm` | IDT, `handler_table`, PIC mask and in-service bits, IF | gates and stubs, `send_eoi`, masks, `interrupt_disable`/`set_if_flag` |
| system calls | `kernel/l_syscall.c` | `syscall_table[64]` | `syscall_check`, call 0 (test), call 1 (yield) |
| printk, vsprintf | `kernel/l_printk.c`, `l_vsprintf.c` | one static buffer of 1024 bytes | format, then write |
| console | `kernel/l_console.c` | start address, cursor position and coordinates, video memory, CRT registers | write with `\b \n \r`, scroll, clear |
| physical memory | `kernel/l_memory.c` | one byte per page frame, `free_pages` | `ards_init`, `memory_map_init`, `get_page`, `put_page` |
| kernel pages | `kernel/l_memory.c`, `l_bitmap.c` | a bitmap over the identity-mapped 8 MiB | `alloc_kernel_page`, `free_kernel_page`; bitmap set, check, scan |
| paging | `kernel/l_memory.c` | page directory, two page tables, TLB | `paging_init`, `set_vaddr_*`, `disable_tlb` |
| CMOS time, RTC | `kernel/l_time.c`, `l_rtc.c` | CMOS registers | read the clock, set an alarm; neither is called by `kernel_init` |
| strings, stdlib | `kernel/l_string.c`, `l_stdlib.c` | none | copy, compare, search; BCD, rounding |
| assertions | `kernel/l_assert.c`, `l_debug.c` | one static buffer | print and spin |

How they interact. The loader leaves the memory map behind and jumps to
`start.asm`, which sets the console and the GDT up and calls `kernel_init`. That
runs with IF clear until its last step. From then on there are two ways into the
kernel proper: IRQ0, which the PIT raises and the PIC delivers while IF is set,
and `int 0x80`. Both pass an interrupt gate, so IF is clear until the `iret`;
both may call `schedule()`, which writes two PCBs and moves ESP to another page,
so that the `iret` is that of another task. Threads call `printk`, which shares
one buffer between all of them; `console_write` clears IF while it draws.
`task_create` takes its PCB page from `alloc_kernel_page`; `paging_init` must mark
the frames of the identity map in the frame table, or `get_page` would hand the
same memory out. `paging_init` also writes the page directory over the loader,
whose descriptor table the processor used until `gdt_init`.

What is hard here:

* interleaving: a tick between any two instructions of a thread, in particular
  inside `printk`, and just before, during or after a yield;
* IF, the PIC's in-service bit and the saved flags of every suspended context
  must agree, although each is written in a different file;
* the layout of the stack: stubs, C prologues, `task_switch` and the frame of a
  new task push and pop words for each other, in four files;
* the scan that picks the next task combines two criteria with OR, which is not
  an order; and one of them is a 32-bit counter that wraps;
* the console's cursor, its start address and the hardware's idea of both, when
  the text reaches the end of video memory;
* two allocators and two page tables that must describe the same frames;
* page tables changed through the translations they define, and a TLB beside them,
  which also caches the way to the tables;
* a clock that goes on while it is read, whose outputs mean nothing while it does, and
  an alarm set from that reading.

What makes each component correct:

| component | promise |
|---|---|
| scheduler, context switch, clock, interrupts | one task RUNNING, and it is the one on the processor; no slice underflows; the timer can always preempt; no assertion fails; which task is picked, and who may starve |
| stubs, system calls, handlers | a program keeps its registers, its stack and its flags; a handler gets the vector or the arguments meant for it; nothing stays in service |
| printk | a thread prints the text it formatted |
| console | never leaves video memory; struct, registers and memory agree; what is shown is what a terminal shows |
| kernel pages, frames | a page is never handed out twice, not even by the two allocators; counts and tables agree |
| paging | a translation used is the one asked for; the recursive slot reaches the tables; the kernel stays mapped |
| time, RTC | a date that was read is one that was; an alarm that was set is ahead and rings |
| vsprintf, strings | what is printed reads back, widths are kept, nothing is written outside the room given |
| boot | what runs is what was read; descriptors and memory found are there |

## 2. Plan

Done, in the order of writing:

1. `Sched`, with `SchedProofs`.
2. `SchedOrder`, `SchedRefine`, `RoundRobin`.
3. `Bitmap`, `Memory`, `PageAllocator`, with `MemoryProofs` (and `NatSets`, induction
   over sets of naturals, which `SequentialProofs` uses too).
4. `Console`, `Terminal`, with `ConsoleProofs`.
5. `Paging`, `AddressSpace`, with `PagingProofs`.
6. `Traps`: stubs, tables, masks, stack layout, with `TrapsProofs`.
7. `Cmos`: the clock and its alarm, with `CmosProofs`.
8. `Strings`, `Vsprintf`, `Boot`: code that runs alone, with `SequentialProofs`.
9. The refinements: `Sched` implements `SchedOrder`, `Console` implements `Terminal`,
   `Paging` implements `AddressSpace`.

Every safety property that a passing run checks is also proved.

## 3. The models

### Scheduler: `Sched`

A context is the boot stack or a slot of `task_table`. The variables are the
PCB fields (`state`, `ticks`, `stamp` for the field `jiffies`, `prio`, `magic`),
`jiffies`, the processor (`cur`, the page ESP points into; `ifl`, the flag IF;
`saved`, how each suspended context comes back), the PIC (`irr`, `isr`), a program
counter per context, and the owner of the text in printk's buffer. `halted` says
that an assertion or a panic spins with IF clear.

| action | code |
|---|---|
| `TaskTableSetup`, `TaskCreate`, `KernelInitDone` | `task_init`, `task_create`, `get_free_task`, the last lines of `kernel_init` |
| `PitTick` | the PIT raises IRQ0; while one is pending another is lost |
| `ClockInterrupt` | gate, `clock_handler`, `send_eoi`, and `schedule` with `task_switch` when the slice is used up |
| `SyscallYield` | `int 0x80`, `syscall_yield_handler`, `schedule`, `task_switch` |
| `ThreadStart`, `Vsprintf`, `ConsoleWrite` | `set_if_flag(True)` at the head of a thread, the two halves of `printk` |

One handler is one action because IF is clear from the gate to the `iret`. The
helpers have the names of their functions: `TaskSearchInTable` is the scan with
its two criteria joined by OR, `Handover` and `Refilled` are what `schedule()`
writes, `TaskSwitch` moves ESP, and `ResumedIf` is what the flags are after the
return: a task that never ran is entered by the `ret` of `task_switch` with IF
clear and sets it itself, all others pop the flags their gate pushed.
Unsigned arithmetic wraps at `Word`.

The boot page is not a PCB until `task_table_setup` writes two of its fields, so
its state and priority start as what the memory holds (`Init` chooses).

### Policy: `SchedOrder`, `SchedRefine`, `RoundRobin`

`SchedOrder` has the same scan over slices and a relation, `older`, between the
threads for their stamps, without the machine and without numbers that wrap; it is
finite, so liveness is checked of it with no bound on time. `Stamped` is what a tick
makes of the relation: no stamp is newer than the one just written. A relation and
not a list, because threads that never ran have the same stamp, 0. `SchedRefine` maps `Sched` to it: `ImplementsOrder` says
that every machine step is a step of the policy or none. `RoundRobin` is a queue;
`RunsByTurns` says that threads which use up their slices follow it, fairness
included. It promises nothing where some thread yields: `active` tells the two
cases apart, so one run covers every choice of the threads that do.

### The way in and out: `Traps`

`Sched` takes it that a handler leaves no trace. `Traps` is about the words. Code is
a stack machine: a `ret` or an `iret` goes where the top of the stack says, and a
word is a value of its owner (`<<c, "ebx", 1>>`), a label or a number. Which task
is picked, and when, is left open, as `Sched` has it.

| action | code |
|---|---|
| `InterruptInit` .. `SyscallInit` | the calls of `kernel_init` that fill `handler_table` and `syscall_table`, program the 8259s and write the frames of the tasks |
| `Interrupt`, `Exception` (`Enter`) | the gate, the stub with its error code or dummy, `interrupt_entry`: the vector is read back from the stack |
| `Syscall` | `syscall_handler` up to the call through the table; `syscall_check` runs before anything is saved |
| `ClockHandler`, `RtcHandler`, `ExceptionHandler`, `SyscallHandler` | the C functions; the first and the last may end in `SwitchTo` |
| `SwitchTo`, `ScheduleReturns` | prologue of the C code, `task_switch`, and the epilogues when the task is picked again |
| `InterruptExit` | `interrupt_exit`, and the end of `syscall_handler` |

C code loses the caller-saved registers and gives the others back; which of them
the compiler spills in `schedule` is open (`spilled`). `CheckClobbers` is what
`syscall_check` changes of `ecx` and `edx`: nothing in the build of this kernel,
without optimisation. `opened` chooses between the kernel as it is, where only the
clock's line is unmasked, and one with the two masks of `rtc_init` that are
commented out: there a request also comes through the slave. `prog` is a ghost:
what each program believes of its registers.

### Memory: `Memory`, `Bitmap`, `PageAllocator`

Addresses are page numbers. `frame` is `memory_map_array`, `bitmap` the set of
indices whose bit is 1, `mapped` the identity map, `owned` and `held` what callers
of the two allocators have. `MemoryInit` is the state `ards_init` leaves (`Boot` shows
how); `MemoryMapInit` and `PagingInit` follow, then any sequence of `GetPage`,
`PutPage`, `AllocKernelPage`, `FreeKernelPage`. A caller gives back only what it
holds, in any pieces. `Bitmap` has the scan as the loop computes it: the length
of the clear run before each bit, where the loop stops, the start computed back
from there, the bits set walking back.

In this kernel only `task_create` allocates a kernel page, `memory_test2`
exercises the bitmap, and `get_page` and `put_page` have no caller but the
commented `mem_test`; the model is of the interface those tests show.

`PageAllocator` promises runs of pages nobody holds, out of a given set. The
kernel pages implement it over `StartPage .. KernelPages - 1`, the frames over
`KernelPages .. TotalPages - 1`: that these sets are disjoint is why a frame never
has two owners.

### Paging: `Paging`, `AddressSpace`

`mem` is the contents of the frames that are tables, `tlb` the translations that
are cached. `PagingInit` writes directory and tables with paging off; from then on
every entry is written through the recursive slot, so a store is itself translated.
`page_entry_init` is four stores, `StoreField` each of them (the two that set
permissions are left out), and between any two the code and the stack of the
kernel, at the pages `Busy`, are accessed. An access caches its translation
and the cache may lose any at any time; it is not filled on its own, without an
access. The callers do as `paging_test` does, in any order and again and again: a
slot is given one of the tables in `SpareTables`, or another in its place, a page of it
one of the frames in `Wanted`, `disable_tlb` follows or does not, for the page or for the
window. A table holds anything when it is given to a slot (`Leftovers`).

The window of a slot, the page through which its table is written, is itself a
translation that may be cached. When the slot gets another table, it still leads to
the former one until somebody invalidates it, and `set_vaddr_pde_entry_with_index` does
not: `SetVaddrPde` makes the window `unflushed`, and the pages of the slot, whose frames
are gone with the table, are promised nothing until they are set again.

`AddressSpace` is what a caller is promised: an access reaches the frame last
asked for, unless the page may have led elsewhere before and was not flushed; when a
slot gets another table, what its pages were given is withdrawn (`Withdraw`). A frame
asked for through a window that may be stale is not promised. `asked`,
`unflushed` and `reached` are the ghosts that `ImplementsAddressSpace` maps to it.
`paging_test` keeps to that contract once; called a second time, it would write
through the entry of its first run before it invalidates it.

### Console: `Console`, `Terminal`

Positions count characters from the start of video memory; the attribute byte,
always the same, is left out. `Now` is the struct, the memory and the CRT registers as a
record; each function of the file is an operator on it, and each iteration of
the loop of `console_write` an action. IF is clear inside, so nothing
interleaves. `Terminal` is what a reader sees; it drops a line feed each time the
window returns to the start of video memory, as the code does.

### Clock and alarm: `Cmos`

The chip counts seconds; `time_read_bcd`, one port access a step, runs beside it, and
so do `set_alarm_sec` and the handler. A second begins with an update of the registers
(`BeginUpdate`, bit 7 of register A), and `Tick` is the end of it. In between every port
access gets one of the bytes in `Noise`, as the outputs are undefined then
(`docs/037-time-rtc.md:68`) and `time_read_bcd` never asks bit 7. The ghost `torn` says
that the last pass of its loop met an update. A noisy month also takes `get_yday` out of
its table (`DaysBefore`). `kernel_init` has `time_init` and `rtc_init`
commented out, and `rtc_init` its masks: the model is the kernel with these lines
in. First `time_init` reads a clock in either data mode, as the firmware left it, then
`rtc_init` sets BCD and the first alarm, then each alarm sets the next. `late` counts
the ticks of the clock within one call, at most `HandlerSeconds`.

### Code that runs alone: `Strings`, `Vsprintf`, `Boot`

These three, and `Memory` and `Console` above, run with interrupts off and have nothing
in common; `MCSequential` runs each by itself, from one initial state.

`Strings` calls each function of `l_string.c` on every small memory, one iteration
of its loop a step. `Legal` is the contract of the doc comments: strings end, areas do
not overlap, and what is copied fits, exactly if it comes to that. `Room` is what they
let a call change, `Spill` the one byte more that `string_copy` does. `Vsprintf` runs the loop over the format: an iteration prints a character
or a directive (`Directive` parses it, `Number`, `Character` and `Text` print it).
`Word` is the size of the words it prints. A format is a sequence of characters, the
blank one named `Space`. `DirectivesAssumption` is the form of the parts that are tried:
flags, a width that is digits without a leading 0 or a star, a precision behind its
point, at most one qualifier, a conversion; `FormatNext` puts them between plain text
and in front of a second, plain directive, which shows whether the first one fetched
the right argument and ended where it ends.

`Boot` follows the machine from the boot sector to the paged kernel. `ReadDisk`,
`WaitSector` and `ReadWord` are `read_disk` against a drive that takes any time over
each sector; `CheckMemory` is the e820 loop against a BIOS with either way of ending
its list; `GdtInit`, `ArdsInitNext`, `ArdsInitDone` and `KernelInit` are the calls of
`start.asm` and `kernel_init` that use what the loader left at `0x1000`, or write over
it. The drive is ideal in one thing: BUSY is set as soon as a command or the last
word of a sector is through, as the code expects.

## 4. Runs

| run | bounds | shows |
|---|---|---|
| `sched_safety` | 4 slots, 3 threads that yield, slice 2, 6-value words | the invariants of `Sched`, `TicksServed` |
| `sched_printk` | the same | violated: a thread prints another's text |
| `refine_order` | slices 1, 2, 2, 11 ticks | `Sched` implements `SchedOrder` |
| `order` | the kernel's own 3 threads and slice 5, every subset of them yielding | `LastSlotServed`, `CpuBoundServed`, `RunsByTurns` |
| `order_starves` | the same | violated: a thread that yielded once may never run again |
| `paging` | tables of 4 entries: 2 kernel tables, one free slot with two tables to be given, the recursive slot; 12 frames | all of `Paging`, `ImplementsAddressSpace` |
| `traps` | 2 threads and the boot stack; lines 0, 1, 2, 8; exceptions 3 and 14; calls 0, 1, 2, 64 | all of `Traps` |
| `clock` | minutes of 11 s, hours of 2 min, days of 2 h; the night a century ends; alarms 2 s ahead; one undefined byte | what is read, and the alarm |
| `clock_torn` | the same | violated: a reading within an update is no date at all |
| `clock_yday` | the same, the nights of two other dates | violated: the day of the year is one off |
| `sequential` | strings in 7 bytes; 12-bit words, nine lists of flags, widths of 1, 7, 12 and `*`, precisions of none, 0, 3 and `*`; sectors of 2 words, lists of ranges in any order; 15 frames, 2 of them for the frame table, one byte of bitmap, runs of 1, 2, 3 and 7; a screen of 2 by 2 in 7.5 rows, two letters | all of `Strings`, `Vsprintf`, `Boot`, `Memory` with both allocators, `Console` with `ImplementsTerminal` |
| `libc_documented` | the same | violated: what comments and docs say of three string functions and of `%d` |

Why the bounds are enough. In `sched_safety` words have six values and
`TickHorizon` equals `Word`, so no tick is ever refused and `jiffies` and the
stamps wrap again and again; a fourth slot stays empty, so the scan meets all
three states. `refine_order` stops before `jiffies` wraps: `Word` is larger than
`TickHorizon`. It has to: with stamps compared by `<`, a thread last ticked before
a wrap looks the youngest. `order` is the configuration of the kernel itself, and
its properties depend on it: with four threads, one that never yields can be starved
by two that yield and a third (the scan is not transitive). In `sequential` every subset
of the six free kernel pages and of the five frames above them is reached, with runs that just fit
and runs that do not (7). The console's window moves three times and returns, again
and again; 7.5 rows have the odd part of a row that the real 204.8 rows have.

In `paging` the five kinds of slot of the directory are there once (page 0's, another
of the kernel, one to be filled, the recursive one); one page has two frames to be asked
for, the other one; the free slot gets one of two tables and the other, half written
entries and the way to the former table cached or not. One table is empty when it is
installed, the other has entries of its own, which nobody asked for. In
`traps` the clock switches to a thread that was left by a tick, by a call, or never ran,
with none, one or all of the callee-saved registers spilled; the keyboard line has no
handler and must stay masked; line 8 arrives through the cascade. `clock` starts two
seconds before the midnight of 31 December 2099, when every register turns, `clock_yday`
before those of 29 February 2024 and 9 March 2026: a minute must cross a digit of BCD
and be longer than a call, the other units need not be. One undefined byte, 255, which no
register ever holds, is enough: it can spoil any field, and it can be read twice for the
second, so that the loop takes it for steady.
`HandlerSeconds` is 1: within one reading, and from there to the alarm's registers,
the clock ticks at most once, as microseconds of port accesses allow. With 2 both
`ReadIsAnInstant` and `AlarmArmed` fail: two ticks may follow the reading, which is
the whole delay. Section 5 says up to which delays what was read still holds. In
`sequential` memory fits two strings with their terminators and a byte between; the
numbers are 0, 9, 10, 256 and -1, so that digits and carries between them, and the
largest word, are all printed.

Fairness. `FairSpec` of `Sched` asks that the current context goes on, that the
PIT goes on ticking (it is in a periodic mode) and that a request that stays
deliverable is delivered; nothing is asked of which thread runs. `FairSpec` of
`SchedOrder` asks only that ticks go on; a yield is never required, so a thread
may also just compute. `Spec` of `Cmos` asks that the clock ticks and that the code,
which nothing else delays, takes its steps. `CHECK_DEADLOCK FALSE` is used where a
panic stops the machine (`traps`) and where the code under test ends
(`sequential`).

## 5. Proofs

`SchedProofs` proves, for every number of slots and threads, every priority,
every workload and every word size, that `Sched` keeps `IInv`, and from it
`TypeOK`, `OneRunning`, `SliceBounded`, `NeverSpins` and `Preemptible`.

Why an invariant stronger than each of them is needed: that no assertion fails
(`NeverSpins`) needs a READY task other than the current one, so it needs
`OneRunning` and to know which slots hold a task (`TableFilled`); that a slice does
not underflow needs that it was refilled from a priority that is not 0, which is
again `TableFilled`; that IF comes back needs to know where every suspended
thread is. `IInv` is their conjunction, and `StepIInv` proves it action by action.
The facts about the scan (`ScanHolds`, `SearchResult`: it returns Null only if no
task is READY, and otherwise one that is) are proved by induction over the slots.
That induction is stated over sets (`SetInduction` of `NatSets`, from the minimum of a
non-empty set of naturals), as the library's theorem takes an operator.

Assumptions: only those named in `Sched` (sizes, a word of two values or more,
priorities from 1 to the largest word). `NeverSpins` is stated for two threads or more and a
slot for each; with one, the first yield fails the assertion in `schedule()`, as
`l_syscall.c:45` says, and with too many `get_free_task` panics.

`SchedImplementsOrder` is the refinement: with two threads or more, a slot for each and
no more ticks than `jiffies` can count (`TickHorizon < Word`), every step of the machine
is a step of `SchedOrder` or none. Besides `IInv` it needs `History`: no stamp is
from the future, a task keeps the priority it was created with, the boot page has
the one tick it starts with, and a thread is at its yield only if its loop has one. The
heart is `SearchAgrees`: the scan over numbers and the scan over `older` pick the same
task, by induction over the slots of two recursive functions at once. The bound is not
idle: after a wrap a stamp may be larger than `jiffies`, and `order` is no longer
what the machine does.

`MemoryProofs` proves, for every size of memory, of the kernel's pages and of the
requests, everything a run checks of `Memory`: `CountsMatchHeld`,
`BitmapMatchesOwners`, `ScanIsFirstFit`, and that both allocators implement
`PageAllocator` (`KernelPagesRefine`, `FramesRefine`). Two arguments meet there. The
first is about the loop of `bitmap_scan` alone: the counter before each bit is the
length of the clear run that ends there (`RunsUnfold`, `RunsCounted`, by induction over
the bits), so the place where the loop stops is the end of the first run that is long
enough (`EndReached`, `ScanFinds`). The second is the invariant `MInv`: what each
stage of the initialisation leaves, that the bitmap is the map's own pages and what
callers hold, that a frame of the identity map is never free, and `CountsMatchHeld`.
None of the properties is inductive alone: that a page is handed out once needs the
bitmap to agree with the owners, and that a frame is, needs the counts, the
drift of `free_pages` and that the frames below `KernelPages` have a reference. The
assumptions are `MemoryAssumption` and `RequestsAssumption` of `Memory`.

`ConsoleProofs` proves, for every width and height of the screen and every size
of video memory with room for two screens and a row, that `Console` satisfies
`CursorCoherent`, `InVideoMemory` and `TypeOK`. The argument: every function of
`l_console.c` maps a record that is `Good` to one that is, and an action is one such
map, or two in a row (`LfGood`, `CrGood`, `BsGood`, `StoredGood`, then `StepGood`).
`Good` says that position and coordinates agree and that a screen of the doubled
size fits above the start of the window. The second part is what makes both
branches of `scroll_up` safe: the one that moves the window only does so when a
further row fits, the one that returns copies a screen that lies inside memory.
Neither property is inductive without the other: the row that is stored to comes
from the coordinates and its cell from the position (`RowFits` is the arithmetic
between the two). `RegistersFollow` adds
`RegistersCurrent`: whatever moves the window tells the CRT (`Told`), and each call
ends with the cursor told. The assumptions are `ScreenAssumption` and `CharsAssumption` of `Console`.

`ConsoleImplementsTerminal` is that every iteration of `console_write` is a step of
`Terminal` on what the window shows (`View`). What has to be known beyond `Good` is
why a row that scrolls into view is blank, although `scroll_up` may only clear one: the
second screen of the doubled size is blank (`BlankBelow`) and is copied with the
first when the window returns; and that the window is always a whole number of
rows down (`Down`), so that the count of line feeds after which one is dropped is
the same each time. `Cells` need not be a multiple of a row.

`TrapsProofs` proves `NothingLeftInService` for every number of threads and every set
of lines, exceptions and calls. Its invariant `TInv` has three parts: `Installed`, which
handlers and masks each step of `kernel_init` leaves, so that only lines with a
handler of their own are ever open; `Machine`, that every stack is a sequence; and
`Serving`, that a bit is in service only while the handler that will acknowledge it
runs, with the vector as its argument. The one step that is not about control is
`VectorFound`: whatever was on the stack, the word twelve above the top of what the
stubs pushed is the vector. The assumptions are the four of `Traps`.

The same module proves what is on the stacks. `SInv` says of every context which word
is at which place, counted from the bottom: 19 words after the entry of an interrupt, 22
after that of a call, then the return address, the frame pointer and the spilled
registers of `schedule`, then what `task_switch` pushed; a task that never ran has its
first frame. `Here` is the layout under the running context for each program counter,
`Elsewhere` that of one that was switched away; each action turns the one into
the next (`StacksHold`). From it follow `CalleeSavedKept`, and `RegistersIntact` and
`HandlersInformed` if `CheckClobbers = {}`, which is what the build of this kernel does:
its `syscall_check` touches neither register. `OthersStayIntact` is what is true without that
hypothesis: at most the `ecx` and `edx` of the caller are lost. `BuildAssumption` says that
a C function changes only caller-saved registers.

`PagingProofs` proves, for every size of a table, any number of kernel tables and any pages a
caller maps, `KernelStaysMapped`, `CachedAgrees`, `WindowReachesTables` and the
refinement of `AddressSpace`. `PInv` says that the kernel's tables are as `paging_init` wrote
them, that the only entry that is not whole is the one the running
`page_entry_init` is at (`Entering`: the index is written last, into an entry that is
present), and of each cached translation what it is: a kernel page, the directory, a
window on the table its slot has, or a page of a caller, with the frame last asked for,
unless it is unflushed. `WindowReachesTables` is about every moment, the half-written
entries of the directory included: an entry is cleared before it is set, and while it is
neither, its window is the one slot the property leaves out. The argument for a store
through the recursive slot is `TranslateDirectory` and its kind: the directory's last entry is the directory, so a walk that goes
through it ends one level early. `FramesAssumption` and `TablesAssumption` are the memory map of
`l_memory.h` (the tables are frames of their own, and fewer than a directory has entries);
`PagesAssumption` is what `paging_test` keeps to: pages outside the identity map and
outside the slot that is the window. What the tables that callers install hold is left
open (`LeftoversAssumption` gives it only its type).

`CmosProofs` proves, for every length of a minute, an hour and a day up to two digits, and
every delay shorter than a day. `ReadingIsCurrent`: a call of less than a minute, if its last
pass met no update of the chip, returns the date the clock shows when it returns, in
either data mode. Of a pass that met one nothing can be proved (`clock_torn`); what such
a pass read does not spoil the next. `time_read` compares only the
second it read first with the one it reads last; `PassInv` is why that is enough: it
bounds how many ticks ago the second was read, and with none, everything read since
still shows. `ReadingsAreInstants` gives `ReadIsAnInstant` if at most one tick falls into a
call, again for passes that met no update, `AlarmStaysArmed` gives `AlarmArmed` if a call is shorter than the delay: `AlarmInv`
has which registers are already written and that what is worked out is `Delay` from the
instant read, digit by digit (`DigitsOf`). These hypotheses on `HandlerSeconds` are
real: a call is some tens of port accesses, the delay in the code is two seconds, and
a kernel that is stopped for longer loses the alarm.

`SequentialProofs` proves the three machines. For the start: for every
size of sector, loader and kernel, `ImageIntact`; for every list in `Ranges`,
`FoundMemoryUsable` and `HaltsAreExplained`. `DiskInv` has how far the drive and
`read_disk` are, in sectors and words, and that what was stored is what the disk holds;
`ListInv` what of the list was taken and what `ards_init` found in the part it has scanned.
`RangesAssumption` says what lists there are: one usable range at 1 MiB that ends below 4 GiB,
any others under 4 GiB, of any size, and above 4 GiB anything that does not
begin at 1 MiB as `ards_init` sees it, which keeps the lower 32 bits of an address. A
machine with no range at 1 MiB fails `l_memory.c:73` at once and is left out.

For the strings: `OnlyRoomWritten` and `ResultsMatch`, for every size of memory, every
content of it and all arguments `Legal` allows. `StringInv` has one loop invariant for each
function (what is copied, compared or passed over so far), and `OnlyRoomWritten`, and the
result once it is there. Where a string ends is the least element of a set that is
not empty (`EndOf`, by `LeastExists` of `NatSets`): what is at stake in each function is that its loop
stops at that place and not behind it. `OnlyRoomWritten` is exact: a destination may fit to the
byte, and the byte behind it is `string_copy`'s alone. Of `memory_compare` and
`memory_find_char_first`, `ResultsMatch` is about the calls that bytes within `count`
decide before a terminator does. The assumption is `AreasAssumption`.

For `vsprintf`: `FieldsReadBack`, `FieldsFillWidth` and `LengthReturned`, for every set of
flags, widths, precisions, qualifiers, numbers and texts of the assumed form, and every
size of a word above 9. There are three arguments, one on top of the other.

* Digits. `DigitsOf` and `ValueIn` are recursive functions, and that their equations
  have a solution is itself shown (`ValueExists`, `DigitsUnfold`), by taking the least
  number for which there is none: `NatSets` has induction in that form, over a set and
  not over an operator. `DigitsHaveValue` says that the digits of a number have its value
  and are digits of its base, `CountIsLength` that they are the fewest that can hold it.
* Text. `NumberReadsBack` and `NumberFills` say of a number what `CharacterField` and
  `TextField` say of a character and a string: what is put around it are blanks, on one
  side, and as many as the width leaves. With the blank flag the sign counts among the
  blanks, which is the one case in which marks and padding meet.
* Reading. `Parsed` says where the scans of `Directive` stop, by cases over which parts
  are there; `FormatInv` says what is in the buffer, which arguments are left and which
  fields are recorded at each of the places where the loop can stand: before the
  directive, behind it, behind the sign, at the end, and returned, with or without a star.
  A field that is once in the buffer stays what it is when more is written behind it
  (`FieldKept`).

Only model-checked is liveness: `TicksServed`, `LastSlotServed`, `CpuBoundServed`,
`AlarmRingsAgain` and the fairness in `RunsByTurns`, which the provers cannot do.

## 6. Differences between the code and what it says of itself

Shown by a run that finds a violation:

* `l_printk.c:4`: one buffer for all threads, with interrupts on
  (`sched_printk`).
* `l_task.c:82` says that the stamps prevent starvation. They do not
  (`order_starves`): a thread that yielded with part of its slice gone
  has fewer ticks than each later slot that returns with a full one. A yield
  stamps nobody, so B, switched to from A by a yield, may return to A.
* `l_time.c:59`: leap years are looked for on a year counted from 1970
  (`clock_yday`).
* `l_time.c:30`: `time_read_bcd` does not ask whether the chip is updating its registers
  (`clock_torn`). A reading within an update may be anything, more than the second of
  error that l_time.c:39 allows, and the alarm set from it anywhere.
* `libc_documented` refutes the conjunction of four claims; TLC stops at the first it
  meets, `memory_find_char_first`, and each of the others is refuted by a run of its own
  conjunct. `memory_find_char_first` returns nothing when it does not find the character
  (`l_string.c:223`), where l_string.c:207 promises a null pointer; it also stops at a
  terminator. `memory_compare` never counts up (`l_string.c:189`), so `count` bounds
  nothing, against l_string.c:179. `string_copy` writes one byte beyond the terminator
  (`l_string.c:15`), against l_string.c:4. A negative `%d` is printed unsigned
  (`l_vsprintf.c:65`), against docs/024-printk.md:17.

Stated in the models and the properties as the code has it:

* `l_task.c:82` says that fewer ticks are a higher priority ("时间片更少（优先级更高）");
  line 83 prefers the task with more. `SchedOrder` has the code's order, and
  `PreferredShorter`, which is the comment's, breaks `ImplementsOrder`.
* `l_memory.c:353`: `disable_tlb` is to be called for the address whose table entry
  changed. After a slot of the directory changed that is not enough: its window page has
  to go too, or the next entry is written to the former table. `WindowReachesTables` and
  `ImplementsAddressSpace` name the exception; no caller invalidates the window, and none
  gives a slot a second table yet.
* `l_memory.c:271`: `paging_init` does not take the frames it maps off
  `free_pages`. `CountsMatchHeld` shows that the error is a constant.
* `l_console.c:162`: the line feed that makes the window return is dropped.
  `ImplementsTerminal` shows that nothing else is lost.
* `vsprintf`: `+` also shows on `%u` and `%x`; the width of a `%s` is counted down
  twice, once for each side, so that its field comes out too long or too short, and no
  property covers that; `%%` prints
  nothing; a `*` ends the call with 0 and no terminator (`FieldsReadBack`,
  `FieldsFillWidth`, `LengthReturned` say what holds all the same).
* `l_string.c`: `string_n_copy` forces a terminator and with a count of 0 writes it
  before the destination, which `Legal` leaves out. Characters are
  signed, as `char` is for this compiler (`MCChars` has one that is negative).
* `ards_init` keeps the largest range, wherever it is, and compares 64 bits with 32 that
  it truncated: `HaltsAreExplained` names the machines that do not start, one with
  another usable range, below 4 GiB or above, at least as large as the one at 1 MiB, one
  with too little there, and one whose BIOS ends its list with the carry flag, which the
  loader takes for a failure.
* `l_rtc.c`: `rtc_init` installs its handler and leaves its line masked.

## 7. Not modelled

Screen output of the loader by the BIOS, port access, the beeper, wording and layout
of messages, the assembly test of `utils`. The `_deprecated` functions of `l_task.c`,
`get_screen`, `get_cursor` and `console_del` are unused or empty. A format that ends inside a
directive, which no format of the kernel does; the 1024 bytes of printk's buffer, which
the literals of the kernel stay far below. TLB fills without an access. A console and
a scheduler in one model: `printk` in `Sched` stands for the whole of `console_write`,
which no tick can interrupt. The arithmetic of `bitmap_set` and `bitmap_check` on
bytes: `Bitmap` is the set of the bits. All models start from zeroed globals: `.bss` is
not part of the image and nothing clears it, so this holds on machines whose memory
starts zeroed.
