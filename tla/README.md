# A verification development for the riscvkernel-hit kernel

The repository is a small RISC-V kernel: one hart in machine mode below user
programs in user mode, preemptive round-robin scheduling, `fork`/`execve`/
`exit`, a page allocator, private Sv39 page tables, a UART console and an
embedded shell.  These TLA+ modules model what can be checked of it, the `.cfg`
files model-check them with TLC, and the modules of proofs are checked by
TLAPS.

## 1. Inventory

| Component | State | Operations | Hard behaviour | What makes it correct |
|---|---|---|---|---|
| scheduler `sched.c` | `task_states[]`, `current_task` | `sched_pick_next`, `sched_prepare_switch` | wrap-around, one task left, none left | every runnable slot is reached, nearest first; one task is running |
| task life cycle `task.c` | `tasks[]`, kernel stacks, `task_user_stacks[]` | `task_init`, `task_fork`, `task_exit`, `task_yield`, `task_sleep`, `task_wakeup` | a task resumes in the middle of another's handler; slots are reused | a task comes back on its own stack, frame and page table |
| trap entry/return `trap.S` | `mscratch`, the frame on the kernel stack | `trap_vector`, `trap_return` | `mscratch` is the only link back to the kernel stack and is not in the context | registers and `sp` survive any number of switches |
| dispatcher `trap_handler.c` | none | timer, write, read, yield, exit, clone, execve, panic | results computed after other tasks have run | each call does to its caller, and to nobody else, what it promises |
| context switch `switch.S` | `ra`, `sp`, `satp` of `tasks[]` | `switch_to` | first entry through `trap_return`, later ones through `task_yield` | the next task's stack and page table are installed together |
| exec `exec.c` | the embedded ELF image | validate, load, install, free | partial failure; old page table freed while the new one is in use | all or nothing for the caller |
| page allocator `page.c` | `free_list`, threaded through the free pages | `page_init`, `alloc_page`, `free_page`, `get_free_page_count` | recycling between data and tables; running out | every page has one use; new pages are zero |
| page tables `mmu.c` | `root_page_table`, tables in allocated pages | `walk_pte`, `map_page`, `mmu_init`, `copy_user_page_table`, `free_user_page_table` | tables are freed while they are walked | no sharing, no leak, no double free |
| timer `timer.c` | `mtimecmp` | `timer_init`, `timer_load_next` | the interrupt arrives at any user instruction | a task that never yields loses the hart |
| UART `uart.c` | receive register | `uart_putc`, `uart_getc` | polled with interrupts off | a read gets a character |
| mutex, spinlock `mutex.c`, `spinlock.c` | lock word, `guard`, sleepers by state | `mutex_lock`, `mutex_unlock`, `spin_lock`, `spin_unlock` | lost wakeups, spurious wakeups, a guard left taken, holders that exit | one holder, no lost wakeup, sleepers wake |
| boot `boot.S`, `main.c`, `os.ld` | all of the above, first values | `_start`, `os_main`, `timer_init`, `task_wrapper` | other harts, garbage in RAM, interrupts on before the first `mret` | leaves the initial state the rest assumes |
| user library `user_lib.c` | none | the `ecall` wrappers | | what a program sees |
| shell `app.c` | line buffer, the terminal | `shell_read_line`, `run_command` | buffer limit, erasing at the beginning, rests of earlier lines | the command is the line that was typed and is seen |
| `printf.c`, `uart_putc` | transmit register | `printf`, `print_num`, `uart_putc` | digit loop, signs, extreme numbers, a slow transmitter | the text goes out, in order and whole |

How they interact.  A trap swaps `sp` with `mscratch`, pushes the frame and
calls `trap_handler`, whose return value becomes `epc`.  A handler may call
`task_yield`, which scans the table and calls `switch_to`; the handler returns
when its task is switched back to, possibly after other tasks have forked,
exec'd and exited.  `task_fork` and `task_exec` build address spaces from pages
of the allocator, `task_exit` and `task_exec` give them back.  There is no
other concurrency: only hart 0 leaves `boot.S`, machine-mode code runs with
interrupts off after boot, and no page of one program is mapped for another.  There is one way
past the page tables: `do_sys_read` stores a character in machine mode, where the
address is not translated (section 6).  `mutex.c` is not among the `OBJS` of the
Makefile; it is modelled as the code that it is, ready to be linked.

## 2. The modules

| Module | Models | Role |
|---|---|---|
| `Sched` | `sched.c`, `sched.h`, `alloc_task_slot` | operators on a task table |
| `Kernel` | `trap.S`, `trap_handler.c`, `task.c`, `switch.S`, the control of `exec.c` | the running kernel, a state machine |
| `VirtualHarts` | `user_lib.c`, `syscall.h`: what a program is promised | abstract specification that `Kernel` implements |
| `MCKernel` | | `Kernel` for TLC, with symmetry on page tables and a view without dead data |
| `SchedProofs`, `KernelProofs` | | theorems and proofs, those about `Boot` included |
| `PageTables` | `page.c`, `mmu.c`, `map_range` | operators on a memory of pages and words |
| `Memory` | the memory side of `task_init`, `task_fork`, `task_exec`, `task_exit`, `os_main` | a state machine over `PageTables` |
| `AddressSpaces` | | abstract specification that `Memory` implements |
| `MCMemory` | | a small machine for `Memory` |
| `PageUse` | | what the words in memory mean: an account of the use of every page |
| `PageTableProofs`, `MemoryProofs` | | theorems and proofs |
| `Mutex` | `mutex.c`, `spinlock.c`, `task_sleep`, `task_wakeup` | a state machine over `Sched`, one action per statement |
| `Locks` | | abstract specification that `Mutex` implements |
| `MutexProofs` | | theorems and proofs |
| `ExecImage` | `validate_exec_image` and the loading loop of `exec.c`, `elf.h` | a state machine with words that wrap around |
| `ExecImageProofs` | | theorems and proofs |
| `MCExecImage` | | images at the boundaries for `ExecImage` |
| `Boot` | `boot.S`, `main.c`, `timer_init`, `task_init`, `task_wrapper` | a state machine over the state of `Kernel` |
| `Shell` | the line editor and command dispatch of `app.c` | a state machine with keys and a terminal |
| `ShellProofs` | | theorems and proofs |
| `MCShell` | | short command names for `Shell` |
| `Printf` | `printf.c`, the transmit side of `uart.c` | a state machine with a transmitter |
| `PrintfProofs` | | theorems and proofs |
| `MCPrintf` | | formats and extreme numbers for `Printf` |

### Kernel

The variables are the code's: `task_states`, `current_task`, `tasks` (contexts
`ra`, `sp`, `satp`), `frame` (the trap frame at the top of each kernel stack);
`kepc`, on each stack the `epc` argument of the pending `trap_handler` call and then
the value it returns; `free_pgds` and `mem`, the allocator and user memory seen from far; the
hart's `phase` (which code it runs), `cause`, `pc`, `sp`, `regs`, `mscratch`,
`satp`; and the devices `mtip` and `rx`.  One action is one handler with all it
calls, up to and including the switch: `Timer`, `DoSysWrite`, `DoSysRead`,
`DoSysYield`, `DoSysExit`, `DoSysClone`, `DoSysExecve`, their refusals,
`OutOfMemory`, `Panic`; then `Epilogue` and `TrapReturn`.  Handlers are atomic
because nothing can interrupt them; what can be interleaved is their halves
before and after `task_yield`.  A task switched out there comes back in the phase
`trap_handler` or `do_sys_yield`, named after the function that `task_yield` returns
to, and computes its result only then (`TimerReturns`, `YieldReturns`).
`do_sys_read` decides on entry whether it refuses its arguments, so the model has
two values of `cause`, `read` and `bad_read`: a read that was accepted polls until `DoSysRead`
finds a key, and nothing else ends it.

`DoSysRead` stores at a physical address, which the program chose; only 0 is
refused.  `StoreAtPhysical` lets the store be lost or change the memory behind any one
page table, the caller's, another program's or a free one.  `DoSysRead` may also fault
for good, or hit what the kernel itself keeps in memory (code, frames, contexts, page
tables, the free list): then the phase is `overwritten` and the model ends, since from
there on anything could follow.

Abstractions: an address space with all its pages is one member of `Pgds` and
one word of memory (module `Memory` opens it); general registers other than `a0`
and `sp` are treated alike by the assembly, so few stand for all (the proofs
are for any number); program counters count instructions; the UART transmitter
always drains (module `Printf` polls it); whether the embedded image is valid is
left open, so that every exec may be accepted or rejected (module `ExecImage`
decides it); an unhandled trap spins the kernel, as in the code.

`VirtualHarts` has no kernel at all: each live task has a program counter, a
stack pointer, registers and memory that only its own instructions and system
calls change.  The one exception is the one the code has: a read may put its
character into any one hart's memory (`StrayRead`), or end the promise altogether
(`Overwrite`, after which `intact` is false).  The refinement mapping `PrivateHart` reads the real hart for the
task in user mode, and otherwise the frame that will restore it, with the
program counter its pending handler will return.  Since the abstract hart may
execute an instruction at any time, a spurious change that one instruction could
have made would pass for one; `TrapsInvisible` forbids those: no step of a trap,
of a timer interrupt, of `sched_yield` or of the way back changes any private hart.

### Memory

Physical memory is an array of pages of `ENTRIES` words.  A word is a value and
the low bits that make it a page table entry.  Free pages are linked through
their word 0, tables and data live in the same pages, and a freed page keeps
its words until it is allocated, so that stale links, stale entries, double
frees and leaks are all expressible.  `FreeUserPageTable` and
`CopyUserPageTable` follow the three nested loops of the code, in its order,
reading the tables as they are at that moment; `Loop` is the `for` of the code.
When `alloc_page` finds nothing the memory becomes `stuck` and nothing is written
after that.  `Memory` lets any live task store through its page table, fork, exec
or exit.  `EnoughMemory` says how many pages that takes at most: the kernel's own
tables, the larger of the boot program and the image in every slot, and one image
more, because `task_exec` builds the new tree before it frees the old one.

Abstractions: addresses are page numbers; 512 entries per table become
`ENTRIES`; the image is the list of the pages its segments cover (how
`task_exec` cuts the file into them is the subject of `ExecImage`); the TLB is left
out (`satp` is always written together with `sfence.vma`); `task_user_stacks[]`
is left out, since nothing reads it.

The store of `do_sys_read` bypasses the page tables and is not in this module but in
`Kernel`: what `Memory` promises holds between such stores.

`AddressSpaces` has one partial function per task, from virtual pages to
contents and permissions.  The mapping walks the page tables.

### Mutex

Each task has a program counter `pc` over the statements of `mutex_lock` and
`mutex_unlock`, the mutex `arg` of its last call and the set `held` of the mutexes
it has.  `locked`, `owner_id` and `guard` are the fields of `mutex_t`; `slot` is the
index of the loop in `mutex_unlock`, which looks at one slot and wakes it in two
statements (`FindSleeper`, `WakeSleeper`).  Only the current task takes steps;
`TaskSleep`, `WakeSleeper`, `Preempt`, `Fork` and `Exit` change the task table, with
the operators of `Sched`.  A task that has exited is `gone`; it can be woken
nevertheless when another was preempted between those two statements, and then it
keeps the hart in the loop at the end of `task_exit`.  `spin_lock` of a taken guard changes
nothing and retries, so `LockGuard` and `UnlockGuard` are enabled when they
succeed.  `preemptible` says whether the timer can take the hart between two
statements; it is chosen at the start and never changes.  In this kernel
handlers run with interrupts off, so it is false whenever a handler is the
caller; both are checked because the lock claims more than the kernel needs.
Nothing in the repository calls the mutex, so callers lock, unlock what they
hold, nest, fork, yield and exit as they like.

`Locks` has one variable, the holder of each mutex.  The mapping says that the
holder is the task whose `mutex_lock` has returned and whose `mutex_unlock` has not
begun; a mutex whose lock word nobody is left to clear is orphaned.

### ExecImage

One step is the header check, the check of one segment, the entry check, or one
page of the loading loop.  Addresses are words modulo `WORD`, and every sum and
rounding wraps as `uint64_t` does; `get_vpn` takes addresses modulo `SV_SIZE`.
`WellFormed` and `ExpectedPage` say in plain arithmetic what an image means, and
the checks and the loop are compared with them.  A byte is the offset in the
file it comes from, so that a byte copied from the wrong place is seen.  What
`Memory` assumes of an image (pages distinct and not reserved) is what
`VerdictIsRight` establishes.

### Boot

`Boot` EXTENDS `Kernel` and drives its variables from the state at reset, where RAM
outside `.data` holds anything, through `boot.S` and the statements of `os_main`
in the order `Order`, and through the first `trap_return`.  All harts begin at `_start`; those other than hart 0 park.
`K` is an instance of `Kernel` in which the contents of free pages are forgotten
(`alloc_page` zeroes them), and `BootsToKernel` says that the hand-over state
satisfies its `Init`.  `EarlyTick` lets the first timer interrupt come at any
statement from `timer_init` to the first `mret`; `BootTrap` is what then happens
(section 6).

### Shell and Printf

`Shell` has the buffer, its length and the terminal with its cursor, and one
action per key and per command; `line` and `did` are history: the line as the
user means it, and what the command was taken for.  `Meaning` says what a line
means in terms of sequences.  `Printf` has the format loop, the digit loop and the
polled transmit register; `Transmit` is the device.  `Text` says what a call should
print, digits by their weights; `Fits` that a format asks for the arguments that it
gets.  Both are recursive functions on positions of the format.

## 3. Runs

| Run | cfg | Checks | Shows |
|---|---|---|---|
| isolation | `Kernel2.cfg` | `TypeOK`, `OwnKernelStack`, `HaltsEmpty`, `NeverOutOfMemory`, `TrapsInvisible`, `ImplementsVirtualHarts` | two tasks with registers, stack pointers and memory cannot tell that they share a hart, but for the store of `sys_read`; a rejected exec changes nothing; memory suffices |
| three_tasks | `Kernel3.cfg` | `CurrentIsRunning`, `AddressSpacesOwned`, `NoOvertaking` | with a third task that can be passed over, scheduling is round robin, and page tables are neither lost nor shared, also when a fork or exec finds no memory |
| liveness | `KernelLive.cfg` | `ReadyTaskRuns` | a ready task runs eventually, unless the kernel spins or is written over |
| read_buffer | `KernelRead.cfg` | `ReadFillsBuffer` (violated) | see section 6 |
| page_accounting | `Memory.cfg` | `TypeOK`, `NoPageSharedOrFreeInUse`, `NoPageLost`, `FreeListEnds`, `NeverStuck`, `WritesOnlyOwnData` | every page has exactly one use, whatever is called in whatever order, and the memory that the programs need is enough for ever |
| address_spaces | `MemoryViews.cfg` | `ImplementsAddressSpaces` | through the page tables every task sees a memory of its own, also when a copy or a load runs out of pages part of the way |
| mutex | `Mutex.cfg` | `TypeOK`, `MutualExclusion`, `NoLostWakeup`, `GuardNeverContended`, `ExitedStayDead`, `ImplementsLocks`, `SleeperWakes` | the mutex is a lock with one holder, preempted or not; not preempted, it loses no wakeup, never spins and wakes nobody who has exited, and sleepers wake |
| exec_image | `ExecImage.cfg` | `TypeOK`, `VerdictIsRight`, `CopyStaysInBounds`, `LoadedExactly`, `NoPageMappedTwice`, `ExecEnds` | validation accepts exactly the well-formed images, and loading ends, stays in bounds and gives every address its byte |
| exec_entry | `ExecImageEntry.cfg` | `EntryIsMapped` (violated) | see section 6 |
| boot | `Boot.cfg` | `BootsToKernel`, `InterruptFindsVector`, `BootEnds` | whatever RAM holds at reset, boot arrives at `Kernel`'s initial state and goes to user mode, unless a tick comes too early |
| shell | `Shell.cfg` | `TypeOK`, `ScreenShowsLine`, `LineIsTerminated`, `CommandIsLine` | the command that runs is the line that was typed and is seen |
| printf | `Printf.cfg` | `WireShowsText`, `AllIsSent` | the text of the call goes out, in order and whole |

Bounds.  Two tasks are enough for every pairwise interleaving of handlers; three
add a task that can be passed over, and slot reuse with the others alive (the
code has four slots and treats them alike).  `MaxPc = 1` gives a program two
instructions: an `ecall` and the one it returns to.  One page table more than
slots is what exec needs (`isolation`); with one fewer (`three_tasks`) both fork
and exec run out.  Every run of `Kernel` has a key, so that reads are accepted and
store.  `UserVal` has two values where contents are compared (`isolation`,
`read_buffer`).  These state spaces are finite and explored completely; `View` of `MCKernel`
identifies states that differ only in what nothing reads any more, such as a frame
that has been popped.  In `Memory` the order of the free list records
the history, so calls are counted: `MaxCalls = 5` lets three tasks be created,
replaced and ended and a slot be reused after its pages have been recycled.
Pages have 8 words; the layout keeps the real order of regions (image, CLINT,
UART, user pages in the second gigabyte, RAM in the third), and the counts are
the real ones: 9 pages for the boot task, 7 for the embedded image, 11 for a
fork of the boot task, whose text is copied.  `RamEnd = 183` gives exactly the 52
pages of `EnoughMemory`: 12 for the kernel's tables and `3 * 11 + 7`, the most that
three tasks need while one execs.  `MemoryViews.cfg` leaves 34 and loads an image of
13 pages, more than a program it replaces gives back: three tasks can live, and
both fork and exec can run out in the middle.

`Mutex` has three tasks, so that two can wait for one holder or for different
mutexes, and two mutexes, because `mutex_unlock` wakes the sleepers of both.  The
state space is complete.  `MCExecImage` scales the machine to words of 7 bits,
pages of 4 bytes and a virtual space of 64 bytes with the regions in the real
order, and tries all pairs of program headers whose fields lie at or next to the
edges of pages, of the reserved pages, of the file and of the word.  Three harts
and two tasks suffice in `Boot`, where the harts do not interact and one task is
made.  `Shell` has a buffer of 6 and names of up to three letters, so that a line
can be longer than any name and fill the buffer; its state space is complete.
`MCPrintf` has an int of 8 bits and a long of 16, with both extremes, zero and the
numbers around powers of the bases.

Deadlock is not reported: the machine halts when every task has exited, spins
when it panics, `Memory` stops at its bound, and the other modules end or hand
over.

Fairness, in `Kernel` (`KernelFairness`).  Weak fairness of `Handler`, `Epilogue` and
`TrapReturn`: kernel code runs with interrupts off and nothing else on the hart.
Weak fairness of `Tick`: `mtime` advances.  Strong fairness of the timer trap: a
pending interrupt is taken when the hart is in user mode, where it is enabled,
though user mode comes and goes.  None for user instructions or other traps: a
program may loop for ever.  `KeysKeepComing` is an assumption on the person at
the keyboard: `uart_getc` polls inside the handler, and without a key no task
runs at all; nothing but `DoSysRead` is enabled then.  In `Mutex`: weak fairness of `Statement`, since kernel code goes on;
strong fairness of `Preempt`, since the timer comes again and again while a task
is outside; and `HoldersUnlock`, an assumption on the callers: a holder that runs
again and again unlocks in the end.  `SleeperWakes` moreover has the antecedent
`Orderly`: nobody exits with a mutex or locks a second one while it holds one,
because the code has no answer to either.  In `ExecImage`, `Boot` and `Printf` the
only fairness is that the hart (and the transmitter) goes on; `Boot` assumes neither
that the early tick comes nor that it does not.

## 4. Proofs

For every number of tasks, page tables, registers and values:

* `SchedPickNextNearest`: the scheduler returns -1 exactly when nothing is
  runnable, and otherwise the runnable slot nearest after the current one.
* `TypeCorrect`, `OneTaskRuns`, `KernelStacksPrivate`, `NoSharingNoLeak`: the
  conjuncts of the inductive invariant
  `IInv == TypeOK /\ CurrentIsRunning /\ OwnKernelStack /\ AddressSpacesOwned`.
  They hold only together: a trap finds the right stack because `mscratch`
  points at it, a switch because suspended tasks keep a pointer to theirs, and
  exit frees the right page table because `satp` and the context of the running
  task agree.  `TaskYieldCases` describes the three ways through `task_yield`
  once; `NextInv` has one step per action.
* `HaltReclaimsEverything`, `RoundRobin`, `MemorySuffices`: consequences of the
  invariant; the last assumes a finite set of page tables larger than
  `MAX_TASKS`.
* `TrapsUnseen`: `Spec => TrapsInvisible`.  Entering a trap, a timer interrupt or
  `sched_yield` with its switch, and the return to user mode change no private hart.
* `PrivateHarts`: `Spec => ImplementsVirtualHarts`.  One lemma per kind of step:
  a user instruction, a return from a handler, a fork, an exec and a switch
  each map to the corresponding step of the caller's private hart or to a
  stutter, and leave the others' alone.  What it says, for any number of tasks, is
  that program counter, stack pointer and registers are private.  Of memory it says
  so up to reads: one read changes the memory of at most one program, which need
  not be the caller, and nothing is said after a read has written over the kernel.

For every number of tasks and mutexes (`MutexProofs`), preemption chosen freely:

* `TypeCorrect`, `MutexExcludes`: from the invariant `IInv`.  That a mutex has one
  owner is inductive only together with: one task at a time is between
  `spin_lock` and `spin_unlock` of a guard (`GuardsExclude`), the lock word is zero
  when it is about to be set (`TakesFree`), and the owner stays recorded until
  the word is cleared (`OwnersRecorded`, `OwnedOnce`).
* `NoWakeupIsLost`, `NoSpinning`: from `QuietIInv`, which adds, for kernels that are
  not preempted, that tasks other than the current one are outside or about to
  retry, so what was tested before `task_sleep` still holds.
* `ExitIsFinal`: `Spec => []ExitedStayDead`, from the same invariant: the slot that
  `task_wakeup` is called for still sleeps (`WakesSleeper`), and one that has exited
  is dead (`GoneAreDead`).
* `MutexImplementsLocks`: `Spec => ImplementsLocks`; `HolderIs` shows that the
  mapping is well defined, `StepImplements` takes each action to a step of
  `Locks` or to a stutter.

For every number of harts and tasks, and every content of RAM (end of `KernelProofs`):

* `BootReachesKernel`, `InterruptsComeLate`: the invariant says, for each position
  of hart 0 in `Order`, which parts of the state have their final value.  The first
  holds unless a tick comes before boot is over.

For every buffer size, every alphabet and every spelling of the commands, as long
as none is empty, no two are typed alike and none but `echo` begins as `echo`
does (`ShellProofs`):

* `TypeCorrect`, `ScreenIsTrue`: the invariant says that the buffer begins with
  the line (`BufferHoldsLine`), so that buffer and screen agree because each agrees
  with the line, and that the screen is empty behind Enter (`Blank`).
* `CommandsTerminated`: from `Terminates`, that the terminator stands behind the
  line.  It is stored where `len` is, which `HasRoom` keeps inside the buffer.
* `CommandsAreLines`: `SkipIsStripped`, `StrIs` and `StartsWithIs` say that each
  string function of `app.c` finds in the buffer what the operators on sequences
  say of the line, `EchoIsOnlyEcho` that the order of the tests in `run_command`
  does not matter, and `RecognisedIsMeaning` puts them together.

For every width of words, page size, file length and image (`ExecImageProofs`), the
64 bits, the pages of 4096 bytes and the 2^39 addresses of the code among them:

* `TypeCorrect`, `CopiesInBounds`: the invariant keeps what validation has
  established of the segments before the loop index (`Checked`), and that the
  loading loop is at the start of a page, after it has wrapped around as well.
  `AddIs`, `RoundDownIs` and `PageFits` say what arithmetic on words does.
* `EntriesWrittenOnce`: `LayoutIInv` says where a mapped page can come from
  (`Placed`), `PagesDiffer` that the pages of different segments and the stack are
  different when validation has passed.  Segments keep to the user half, since
  addresses 2^39 apart share an entry.
* `ValidationIsRight`: `VerdictIInv` relates the position in `validate_exec_image` to
  the checks taken together (`Passes`), and `PassesIs` shows that they mean
  `WellFormed`: `InFileIs` and `AlignIs` for the tests that may wrap around,
  `OverlapIs` and `ShareIs` for ranges that stand for sets of pages.
* `ProgramIsLoaded`: `LoadIInv` is the converse of `LayoutIInv`: what comes before the
  loop's position is mapped, and filled as the image says.  `CoversIs` says that the
  pages that validation compares are the pages of the addresses, `BytesAreIn` that
  no other segment has a byte in a segment's page, and `FilledIsExpected` that the
  loop's zeroing and copying at one position give the bytes of that page.

For every width of a long, every set of characters, every format and the arguments
that it asks for (`PrintfProofs`):

* `TextIsSent`: what is on the wire, what the register holds, what is left to put and
  what the loops have still to produce are together the text of the call (`IInv`).
  `FitsIs` and `TextIs` say that the recursive functions on a format satisfy their
  equations, by an induction over the positions from the end; `ScanProduces` that
  one round of the loop produces what the text has at that position, `SignedIs`
  for the most negative number too.  Inside `print_num`, `Divided` relates the
  digits found so far to the powers of the base; `DivideAgain` is the arithmetic
  of one division and `DigitsAreNumeral` the end of the loop.

For every number of tasks, table size, amount of memory, layout of the image and
program that exec loads, with memory enough or not (`MemoryProofs`, on top of
`PageTableProofs`):

* `NoPageIsShared`, `NoPageIsLost`, `TheFreeListEnds`, `ProgramsWriteOwnData`,
  `MemoryTypeOK`.  None of them is inductive.  They speak of sets that are read off
  the page tables, and say nothing about how `free_user_page_table` comes back from
  a page that it has freed, or which of two equal entries is the kernel's.  The
  invariant says instead that there *is* an account: `IInv` is `TablesOK` (the task
  table) and, for some `use` and `n`, `Accounts(m, task_states, satp, use, n)`.
  Module `PageUse` defines what an account is.  `use` gives every page one use: the
  `n`-th page from the end of the free list, or the node of level 3 to 0 that hangs
  below a certain slot of a certain table of a certain tree; a node also records the
  number that the slots above it spell (`pos`).  `Heap` says that the words in memory
  and the account agree in both directions, every entry with the node it points to and
  every node with the entry above it.  `Accounts` adds that the trees
  are those of the live tasks and of the kernel, and, while memory suffices, that
  nothing else is in use, that every live task has its stack mapped, and that a live
  tree has nodes and leaves only where the virtual pages of the boot program or of the
  image belong, and the kernel's where its own do (`Shapes`).  That a page has one use
  is then the fact that `use` is a function.
* `HeapAlloc`, `HeapLink`, `HeapWrite` and the lemmas next to them: what each single
  access to memory does to the account.  The three levels are built from these:
  `MapPage` and `MapRange`, then `FreeUserPageTable` (a tree is taken apart in the
  order leaf, table, middle table, root, and no page is read after it was freed),
  `CopyUserPageTable` (an equal tree of new pages; the kernel's entries are taken
  over and never mistaken for the task's), `MmuInit`, `PageInit` and the image
  loader.  Each states what becomes of the account, and that a machine which runs
  out of memory in the middle stops with the account intact (`LIMBO` is a page that
  is allocated and not yet in a table).
* `ForkStep`, `ExecStep`, `ExitStep` and `StoreStep` put these together, one for each
  action; `IInvInvariant` is the induction.  A store can disturb nothing, since what
  a program can write is a page of level 0 of its own tree.
* `MemoryIsEnough`: `Spec => []NeverStuck`, for every layout and number of tasks whose
  memory is `EnoughMemory`.  Two nodes of one level of a tree are never at the same place
  (`PlacesDiffer`), so a tree is no larger than the virtual pages it maps need
  (`TreeSize`), and as every page is free or in one tree, those that are not free are
  counted by adding up the trees (`PagesCounted`).  The builders keep a ledger (`Cost`,
  `Ledger`): what they have taken is at most what their tree needs so far, so one that
  finds the list empty began with fewer free pages than its tree needs.  Boot begins
  with the whole memory (`InitNotStuck`); exec begins with an image's worth of free
  pages, whatever the programs are (`ExecNotStuck`); fork has a dead slot, so a
  program's worth more (`ForkNotStuck`).
* `PrivateAddressSpaces`: `~m.stuck /\ Spec => ImplementsAddressSpaces`, for a machine
  that has the memory to boot; it may run out later, in the middle of a fork or an
  exec.  `MappedIs` says which pages a tree maps, `Space` what it shows of memory, and
  `SpaceStays` that it shows the same as long as its tables, its data and the kernel
  image keep their words.  Every helper states what the tree it builds shows, next to
  what becomes of the account: a copy shows what the original shows (`SameTree`),
  `task_init` ends with the program's space and `task_exec` with the image's, all
  other new pages zeroed.  A data page hangs below one slot of one tree
  (`DataSlot`), so a store shows at one page of one program (`StoreSpaces`).
  `StoreShows`, `ForkShows`, `ExecShows` and `ExitShows` take each action to its
  abstract one or to a stutter; `LiveShows`, the invariant added for this, says that a
  live slot always has a space.

Assumptions: `PageTablesAssumption` (the order of the regions of physical memory, as
in `os.ld`, `page.h` and `mmu.c:78`), `MemoryAssumption` (the sections of the image lie
in order, `os.ld`; the user pages are distinct and below RAM, `user_layout.h`; the image
is what `validate_exec_image` lets through, and its segments are readable),
`MaxTasksAssumption` (at least one slot), `KernelAssumption`,
`MutexAssumption`, `BootAssumption`, `ShellAssumption` and `ExecImageAssumption` (what
the constants are), `PrintfAssumption` (`LONG` is even, the digits, `-` and `%` are
characters, the terminator is none), `CallsAssumption` (a format does not end in `'%'`
and gets the arguments that it asks for), `ImagesAssumption` (fields are
words, `e_phnum` has 16 bits, an alignment is a power of two), evaluated by TLC in the runs.

Only model-checked: `ReadyTaskRuns`, `SleeperWakes`, `BootEnds`, `ExecEnds` and
`AllIsSent`; liveness is out of the prover's reach.  Every other property of a passing
run has a theorem.

## 5. Hazards

`PROJECT.json` lists them by line with the properties that would catch each.
The central ones: frames and stacks across switches (`OwnKernelStack`,
`ImplementsVirtualHarts`); values a handler keeps across `task_yield`
(`ImplementsVirtualHarts`); the order of install and free in exec
(`AddressSpacesOwned`, `NoPageSharedOrFreeInUse`, `ImplementsAddressSpaces`);
pages recycled between tables and data (`ImplementsAddressSpaces`,
`FreeListEnds`); pages lost on a long path (`NoPageLost`, `NeverStuck`); the gap
between the busy test and `task_sleep` (`NoLostWakeup`, `SleeperWakes`); sums that
wrap around in exec (`VerdictIsRight`, `CopyStaysInBounds`, `ExecEnds`); the order of
`os_main` (`BootsToKernel`, `InterruptFindsVector`, `BootEnds`); what a line buffer keeps from
the line before (`CommandIsLine`).

Five have no property.  A page fault of one program spins the kernel for all:
the code does so by design.  `mutex_unlock` does not look at the owner: the
callers in the model unlock only what they hold.  In a preempted kernel a wakeup can
be lost between `spin_unlock` and `task_sleep`: this kernel is not preempted, and
`NoLostWakeup` is about kernels that are not.  A holder that exits leaves its mutex
locked, and sleepers that nobody wakes halt the machine: `ImplementsLocks` allows
the first, `SleeperWakes` assumes that it does not happen.  A tick that comes before
boot is over finds no kernel stack (section 6): the code can meet it, so `BootEnds`
counts it as an end.

## 6. Findings

`do_sys_read` stores the character with `buf[i] = (char)ch`
(`trap_handler.c:37`) in machine mode, where the hart translates no address, so
the store goes to the physical address `buf` and the caller's memory never holds
the character, although the call returns 1.  Run `read_buffer` ends with such a
read.  Line 26 refuses only `buf == 0`, so the number in `a1` decides where the store
goes: where there is no memory it is lost or faults inside the handler; it may also be
a page of any program, or the kernel's own memory.  `Kernel` has all of these, and
`ImplementsVirtualHarts` says what the programs can still rely on.

`validate_exec_image` rejects an image whose "Entry point is not inside a loadable
segment" (`exec.c:114`), but accepts a segment that ends in the last page below
2^64: the end plus `0xFFF` wraps around to page 0 (`exec.c:98`, `exec.c:151`), no page
is loaded, and the program starts at an address that is not mapped.  A segment
between 2^39 and 2^64 is accepted too and mapped at its address modulo 2^39.  Run
`exec_entry` ends with such an image.  The embedded image has no such segment.

Two more facts that the models have as ends of their own, without a run:

* `task_yield` halts with "All tasks have exited" (`task.c:152`) when nothing is
  runnable.  Sleepers are not runnable, and `task_exit` leaves the mutexes of a
  task locked, so a holder that exits while others sleep halts the machine with
  that message.  No program can do this today, since nothing calls the mutex.
* The comment at `trap.S:9` says that `trap_vector` finds the top of the kernel stack in
  `mscratch`.  `timer_init` sets `mstatus.MIE` (`timer.c:42`) while the hart is in
  machine mode and `mscratch` is still zero; it gets its value at the end of the first
  `trap_return` (`trap.S:104`).  If the first tick, one second after `timer_init`,
  comes before that `mret`, `trap_vector` runs without a kernel stack; `BootTrap` is
  what follows.

## 7. Not modelled

* `app_bin.h` (generated bytes), the build files, `uart_init` (empty), the wording
  of messages and of what the shell's commands print: no state.
* The TLB; the physical memory attributes; QEMU's devices beyond the registers
  the code uses.
* An unlock by a task that does not hold the mutex.  With it mutual exclusion
  is lost, as the code reads.
* A preempted kernel beyond the mutex: a wakeup lost between `spin_unlock` and
  `task_sleep`, and a task woken after it has exited, are in the model (and the lock
  keeps its one holder), but the properties about them are for kernels that are not
  preempted.
* Starvation freedom of the mutex: woken tasks race, and one of them may lose
  every time.  `SleeperWakes` promises the wakeup, not the lock.
* In `ExecImage`: alignments that are not powers of two (the code's mask test
  means nothing for them), and what becomes of segments without memory
  (`NoEmptySegment`).
* In `Shell`: the terminal does not wrap; `sys_read` delivers the key, as the shell
  takes for granted (see the first finding).
* In `Printf`: a format that ends in `'%'`, which makes the loop step over its
  terminator; no format of the repository does.
* In `Kernel`: what a machine does whose kernel memory a read has written over; the
  phase `overwritten` is an end.  The window of machine-mode interrupts before the
  first return to user mode belongs to `Boot`.
* The -1 of `task_fork` for a parent without a stack page (`task.c:186`) is a branch of
  `Memory`; in `Kernel` every address space has its stack.

## 8. Plan

Done: 1. `Sched`, `Kernel`, `VirtualHarts` with their proofs.  2. `PageTables`,
`Memory`, `AddressSpaces`, with the proofs that pages have one use and programs have
address spaces of their own.  3. `Mutex`, `Locks` with their proofs.  4. `ExecImage`
with its proofs.  5. `Boot` with its proofs.  6. `Shell` and `Printf` with their
proofs.  7. The proofs that a program is loaded exactly and that `printf` sends the
text of its call.  8. The bound on the pages that a machine needs, for every layout.
Left are what section 4 names as only model-checked and section 7 as not modelled.
