# A TLA+ development for Orange'S

Orange'S is a small 32-bit teaching kernel: a boot sector and a loader, a
preemptive round-robin scheduler, a re-entrant interrupt layer, two system
calls, and a terminal task that turns scan codes into characters on three
consoles. The code is about 3000 lines of C and NASM; it has no tests and no
written specification. What it has is concurrency: a clock, a keyboard, ring 1
and ring 3 processes and a kernel that runs with interrupts on, kept apart by an
interrupt flag, an interrupt mask, one counter (`k_reenter`) and nothing else.
These modules say what that is supposed to guarantee, check it with TLC on small
instances, and prove much of it with TLAPS for instances of any size.

## The system

| component | state | operations | talks to |
|---|---|---|---|
| scheduler and clock (`clock.c`, `proc.c`) | `ticks`, `proc_table[i].ticks`, `p_proc_ready` | `clock_handler`, `schedule`, `sys_get_ticks`, `milli_delay` | called by `hwint00`; decides whom `restart` resumes |
| kernel entry and exit (`kernel.asm`, `i8259.c`, `syscall.asm`) | `k_reenter`, kernel stack, `tss.esp0`, the saved registers in `proc_table`, the 8259A mask, `irq_table` | `save`, `restart`, `hwint_master`, `sys_call`, `put_irq_handler`, `enable_irq`, `disable_irq` | every process, every handler |
| keyboard buffer (`keyboard.c`) | ring `kb_in` | `keyboard_handler`, `get_byte_from_kbuf` | IRQ 1 and task_tty share it |
| keyboard LEDs (`keyboard.c`) | lock keys, the 8042 | `set_leds`, `kb_wait`, `kb_ack` | the keyboard, and IRQ 1 for the same port |
| keyboard decoder (`keyboard.c`, `keymap.h`) | shift, ctrl, alt and lock state | `keyboard_read` | ring in, `in_process` out |
| tty task (`tty.c`) | `tty_table` with one input queue each | `task_tty`, `in_process`, `put_key`, `tty_do_write`, `sys_write` | decoder, consoles |
| console (`console.c`) | `console_table`, `nr_current_console`, the CRTC | `init_screen`, `out_char`, `scroll_screen`, `select_console` | called by task_tty and, in the kernel, by `sys_write` |
| protected mode (`protect.c`, `start.c`, `main.c`) | GDT, LDTs, IDT, TSS, selectors and flags of each process | `cstart`, `init_prot`, `kernel_main`, `exception_handler` and the stubs in front of it | the CPU, at every entry and exit |
| user processes (`main.c`, `printf.c`, `vsprintf.c`) | - | `TestA` to `TestC`: `printf`, `milli_delay` | system calls |
| library (`klib.c`, `kliba.asm`, `string.asm`) | `disp_pos` | `itoa`, `disp_str`, `memcpy`, ports | everybody |
| boot sector and loader (`boot/`) | FAT12 image, memory map, page tables | find and load a file, collect the memory map, page, place the ELF segments | BIOS, and the kernel's `_start` |

What is hard here, and where: an interrupt arriving in every place where
interrupts are on, including inside another handler and inside `schedule()`; a
process losing the CPU inside a library routine that another process then
enters through the kernel (`out_char`); two readers of one device register
(`kb_ack` and `keyboard_handler`); a mask that is read, modified and written
by handlers and by a task; quanta that are charged below zero; a clock that
wraps; loops that wait for something another actor must provide; and tables of
bits that nobody looks at but the CPU. `PROJECT.json` lists them one by one
under `hazards`.

## Modules

    RoundRobin   abstract: the CPU goes round in a fixed cyclic order
      ^ implemented by
    Schedule     clock_handler() and schedule(), one step for each interrupt
      ^ implemented by                          ^ extended by
    Interrupt    save, restart, hwint_master,   User     TestA to TestC:
                 sys_call, 8259A, task start-up          printf(), milli_delay()
                                                Library  itoa(), vsprintf()

    ByteQueue    abstract: a first-in first-out queue that drops when full
      ^ implemented by
    KbRing       kb_in between handler and task, one step per memory access

    ByteQueue
      ^ implemented, end to end from the keys typed, by
    Tty          task_tty: read, queue and echo for each console in turn

    Keyboard     keyboard_read(): from bytes in the ring to keys
    Console      init_screen, out_char & co. between task_tty and sys_write
    Leds         set_leds against the 8042, the keyboard and IRQ 1

    Boot         from the boot sector to the processes; composes
      Fat12      search and load of a file, once for each program,
      Loader     memory map, paging, ELF segments,
      Protect    descriptors, gates, selectors and exceptions

    ScheduleProofs, UserProofs, InterruptProofs,
    TtyProofs (with those about Leds and KbRing),
    KeyboardProofs, ConsoleProofs, BootProofs   theorems about these modules
    Induction                                   rules that several of them use
    MCSchedule, MCInterrupt, MCUser, MCKbRing, MCKeyboard,
    MCTty, MCConsole, MCLeds, MCBoot            instances for TLC

Along the way of a key: `Leds` and `KbRing` are about bytes in the 8042 and the ring;
`Keyboard` takes the ring as the queue `KbRing` implements, and turns bytes into
keys; `Tty` starts with these keys, whole; `Console` starts with the characters
`Tty` shows. Each of them takes from the scheduler only that task_tty is
served again and again, which is `NobodyStarves`.

Names are those of the code. A definition under a comment *Deviation* is a
plausible mistake in the definition next to it (a dropped `cli`, `>=` for `>`, a
missing reset); no specification uses it. Each is the witness that one of the
properties can fail: put in the place of its neighbour it makes TLC report that
property.

### RoundRobin, Schedule

`Schedule` has two variables, `proc_ticks` and `p_proc_ready`, and two actions.
`ClockHandler` is an interrupt that arrived in a process: charge, and if the
quantum is over, `schedule()`: the first entry of the table with the most ticks,
after a refill from `priority` if nobody has any. `ClockHandlerNested` is one
that arrived in the kernel (`k_reenter != 0`): charge only.

The interesting consequence is that `schedule()`, which knows nothing of an
order, produces one. A process keeps the CPU until its quantum is used up, so
at any time everybody before it in the order (higher priority, or equal and
earlier in the table) has nothing left and everybody behind it has a full
quantum: `RoundInv`. From this it follows that the next process is always the
next of the cycle (`RoundRobinOrder`, i.e. `RoundRobin!SafeSpec`), even when
ticks in system calls overdraw quanta.

The run `user` (below) checks both for four processes of priorities 3 1 2 1 and an
overdraft of up to 2: ties, refills and overdrawn quanta all occur. Run
`schedule_refill` shows that the comment at `proc.c:27` does not describe the
test: refills also happen while quanta are negative, which forgives the debt.

### User, Library

`TestA` to `TestC` print and wait, for ever. `User` puts such processes on top of
`Schedule`: `printf()` formats its arguments and writes the text with one system call;
`milli_delay()` notes the time and then asks for it again and again, one turn of
the loop per `Step`. Who is not a delayer does anything and is not modelled
further. `ticks` is an `int` of `Bits` bits that wraps, and so is each intermediate
result of `(get_ticks() - t) * 1000 / HZ`; C's division cuts towards zero.

`DelayLongEnough`: no wait ends too early, wherever the clock wraps. `DelayInTime`: a
process that waits is kept from asking for one round of the others at most, every
quantum overdrawn as far as it may be, and it is late by less than that.
`DelayReturns` needs that a process that has the CPU gets on (`GetsOn`; a turn of
the loop is microseconds, a tick 10 ms) and that the PIT does not stop.
`PrintedAsFormatted` compares the text with what a message was meant to look like: `Hex`
takes the number as unsigned, while `itoa()` shifts a signed one; `vsprintf()` walks a
format, while `Meant` knows where the numbers belong. A message has no `%` of its own
(`MessageAssumption`): this `vsprintf()` cannot print one. The loops of `itoa()` and
`vsprintf()` are recursive functions, of what has been written after each digit
(`PutDigit`) and each character of the format (`PutChar`).

Run `user`: one delayer among four processes, an int of 8 bits instead of 32, so that
`ticks` wraps many times and the delay lies across it, at all places; times in
proportion (`HZ` 2, `Second` 4). The count of the ticks a delay has lasted stops at
`MaxElapsed`, which `CountAssumption` puts behind everything the properties ask for.

### Interrupt

State: the scheduler's variables, `k_reenter`, IF, the 8259A's mask (`imr`) and
request latch (`irr`), `irq_table`, `tss.esp0`, whose registers each entry of the
process table holds (`frame`), whose registers the CPU has (`running`), and the
kernel stack as a sequence of records, one for each entry to the kernel that
has not been left. A record holds what that activation has on the stack or in
registers: the handler, where it is, its interrupt line, `esi`, the pushed
`p_proc_ready`, and the return address `save` pushed (`restart` or
`restart_reenter`).

All gates are interrupt gates, so what happens between the entry and `sti`, and
between `cli` and `iretd`, is one action; handlers run with interrupts on and are
split at every access to shared memory: `ClockCharge`, `ClockReenter`,
`ClockLeft`, `ScheduleScan` and `ScheduleRefill` (one table entry per step),
`SysGetTicks`, and `sys_write` with the `cli`/`sti` that its port accesses contain.
`save` is modelled by what it does, not by what it is for: if `k_reenter` told it
wrongly that it is outermost, it would drop what is on the kernel stack.
task_tty appears with its accesses to the interrupt system: `put_irq_handler`,
`enable_irq`, `disable_int` and `enable_int`.

Properties: `NestingInv` (`k_reenter` counts the stack and exactly the outermost
entry leaves through `restart`), `MaskInv` (a line is masked exactly while its
handler is on the stack, so handlers do not interrupt themselves, no line is
lost, and none is open before its handler is installed), `FrameInv` (saved
registers belong to their process, `tss.esp0` to the one that runs, and a system
call's frame and `p_proc` to its caller), and two refinements:
`ImplementsSchedule` and, end to end in terms of whose registers the CPU has,
`ImplementsRoundRobin`. For the first, the scan and the refill have to look
atomic: from the charge on, if the outermost clock interrupt is bound to
schedule, the mapping already shows its outcome (`Choosing`, `ChosenTicks` and
`Chosen`; `Ticks` and `Ready` are what `Schedule` sees).

Run `interrupt`: one task of priority 2, two processes of priority 1, three
interrupt lines (clock, keyboard, one never opened), nested ticks down to -1,
`write()` of up to one character: clock over keyboard over system call and
keyboard inside `schedule()` occur. Run `interrupt_live`: the same with two
lines, under `FairSpec`.

Fairness: the PIT does not stop; the CPU takes a pending interrupt it may take
(strong fairness, as IF goes on and off); code on each level of the kernel
stack gets on (strong: interrupts interrupt it; their rate is bounded - without
this a storm of keyboard interrupts could hold up the clock handler for ever,
which TLC duly reports); the start-up of task_tty gets on; and the clock ticks
outside the kernel again and again. The last one is an assumption about
programs: a process whose every tick fell into a system call would keep the
CPU, and the kernel does not prevent that.

### ByteQueue, KbRing

The task's `get_byte_from_kbuf()` is split at every memory access, `count--` into a
load and a store; the handler is one step, because the task does not run before
the kernel is left. `RingInv` relates `p_head`, `p_tail` and `count`, of which handler
and task each move two; the ring implements `ByteQueue` with the byte taken at the
read of the slot. `KeysServed` needs that `task_tty` is scheduled again and again
(`NobodyStarves`). Run `kb_ring`: ring of 3 instead of 32 slots, two scan codes;
wrapping, full and empty rings occur, and nothing depends on the size.

### Keyboard

The user holds, repeats and releases keys; the keyboard sends one to six bytes for
each (the appendix of `keymap.h`); the handler puts them into the ring one by one;
`keyboard_read()` takes them out again with `get_byte_from_kbuf()`, which waits. The
decoder's place in a sequence is the bytes it has taken (`got`); `Wants` says when it
takes another one, and `Decode` is the rest of the function. One key stands for
each way a row of the keymap is treated: letters (Caps Lock), digits (Shift),
function keys, modifiers, locks, keys with `E0`, number pad with and without Num
Lock, PrintScreen and Pause.

Beside the decoder stands what the user means: `typed` are the keys with the modifiers
and locks of the moment they were pressed. `KeysAsTyped`: what `in_process()` is given
is that, in order, however late it is decoded. `NothingPending`: nothing is missing
when everything has been read, and the decoder agrees with the keyboard on modifiers
and locks. `WaitEnds`: when the decoder waits in the middle of a sequence,
the rest is on its way. A lock key calls `set_leds()`: the two answers of the keyboard come into the
ring as break codes of a key that does not exist and must do no harm, and `kb_ack()`
may swallow a scan code. The properties end where a byte is lost, there or to a
full ring; what follows then (a modifier that stays down, a wait for the next key) is
in the model, but no document says what it should be.

Run `keyboard`: eleven keys, at least one of each length and of each way a row is
treated, two held at a time, two bytes typed ahead of the decoder and a ring of
two: locks and modifiers change before earlier keys are decoded, sequences that begin
alike are split between calls of the handler, and the ring overflows. The other keys of
`Make` differ from these by the name of the modifier or lock alone.

### Tty

`task_tty` serves the consoles in turn: `TtyDoRead` takes one key if the console is the
current one and runs `in_process()`; `TtyDoWrite` shows one character of the console's
queue. Meanwhile the user types ahead (`Type`), console switches included. A key
that does nothing here stands for break codes, too, for which `keyboard_read()`
returns without calling `in_process()`.

`EchoedAsTyped` is a refinement of `ByteQueue`: the queue consists of what is in the
input queues and of what the keys not read yet will show, each on the console that
the keys before it select; every character comes out of it once, in order, and on
that console. `QueueShort`: a queue never holds more than one character, so 256 entries are
never needed and `put_key()` never drops one. `KeysRead`: the current console comes up again and again.

Run `tty`: two consoles, queues of two, up to two keys typed ahead, any of
character, Enter, Backspace, a scroll key, function keys with and without Alt, one of
them without a console. The only fairness is that of the task.

### Console

Two callers share `out_char()`: task_tty, preemptible between any two memory
accesses unless it has interrupts off, and a process in `sys_write()`, during which
task_tty does not run. Both execute the same steps. The contents of the video
memory are left out: the steps that store keep the address in `p_vmem`. Of the
bytes written to the CRTC the model keeps whose they are.

task_tty begins with `init_screen()` for one console after the other (`InitScreen`,
`InitChar`, `InitCursor`): the first takes over the cursor the boot messages left,
the others have two characters written to them, and a process may already write to
those that are ready. Then it selects the first one (`InitSelect`) and goes into its
loop, where `Echo`, `ScrollScreen` and `SelectConsole` are the calls that its keys make.
A `write()` to a console that is not ready would use a null `p_console`; that the
first quantum of task_tty keeps it away is assumed (the guard `c < ready` of `SysWrite`).

The race is real: `console_store` shows a backspace that blanks a cell of
another console (`StoresInside`), and a newline in the same place moves the
cursor past the console's memory. What survives the race is checked by
`console`: the window starts at a line of its own console and the cursor
overshoots by less than a line (`WindowInv`), other characters are stored inside
(`CharsStayInside`), CRTC positions are never torn (`CrtcInv`), and the scroll
loop ends (`CallsReturn`). Lines of 2, screens of 3 lines and 9 cells per
console keep what matters of 80, 25 lines and 5461 cells: the memory is not a
multiple of a line, larger than the screen, and the screen has at least three
lines (`ConsoleAssumption`; with two, `WindowInv` fails). User processes write
newlines and other characters, as `TestA` to `TestC` do; keys include backspace.
Both runs initialise two consoles, of which the second is then used (`UsedCons`):
consoles share no state but the CRTC, and a stray store shows in the first.
`CallsReturn` assumes that a system call runs to its end and that task_tty gets the
CPU again and again (strong fairness: every `write()` holds it up).

### Leds

`set_leds()` sends a command and an argument through the one-byte input buffer of
the 8042. The keyboard takes bytes, acknowledges them and sends scan codes; the
bytes it sends raise IRQ 1, and whoever reads port 0x60 first gets them: `kb_ack()`
or `keyboard_handler()`. The lock keys are one bit.

`kb_ack()` does not wait (`while (kb_read = !KB_ACK)`), which `leds_ack` shows against
the comment on line 339. All the same the LEDs end up right (`LedsShowLocks`), because
`kb_wait()` alone orders the bytes and none is overwritten in the buffer, and the
call returns (`SetLedsReturns`). The deviation `KbAckMeant`, the loop as it must have
been meant, violates `SetLedsReturns`: the handler can take the ACK, and task_tty
would wait for ever. The typo must not be repaired on its own.

### Boot: Fat12, Loader, Protect

`Boot` follows the machine from `org 07c00h` to the processes. Its variable `program`
says which program runs; each jump from one to the next is an action, and hands over
what the code hands over: the disk, memory, the registers. What the next program
does not look at any more goes back to one value there, which keeps the state space
the sum of its parts and not their product.

`Fat12` is the search for a file and the loading of its chain. The boot sector and the
loader contain the same code but for names and addresses, so `Boot` has an instance for
each, on the same disk. One step is one sector of the directory, one of its entries, or
one sector of the file with its FAT entry. `F(name)` is the instance that looks for
`name`. What is on the disk is the FAT12 format as
the code uses it, written down independently: two entries in three bytes, entries of
the directory in sectors, cylinders, heads and sectors behind `int 13h`. `di` keeps the
characters compared in its low bits, which `and di, 0FFE0h` removes. A failed read is
repeated by `ReadSector` and changes nothing. The comments at lines 209 to 213 of
`boot.asm` exchange the two halves of a byte; the code is right.

`Loader` is the rest of `loader.asm`: the map that `int 15h, E820h` gives range by range
(a BIOS may end the list with `ebx` = 0 or with CF; in this code CF voids it),
the size of memory in 32 bits, the page tables, and the segments of the ELF file.
`loop` counts before it tests: with no ranges, or no program headers, `ecx` wraps, and
the model says `lost`.

`Protect` is the kernel's tables from the side of the CPU. `init_descriptor()` and
`init_idt_desc()` scatter their arguments over bytes as the code does; `Fetch`, `DataLoads`,
`StackLoads`, `CodeLoads`, `GateOpens` and `PortAllowed` read them back as the 80386 decodes
and checks them. `cstart()` copies the loader's GDT and fills the tables, `kernel_main()`
fills LDTs, selectors and flags of each process from them; then processes run, enter the
kernel through gates, leave it through `restart`, and anything may raise an exception,
with or without an error code. `exception_handler()` shows what the stub and the CPU have
left on the stack, an NMI may come in the middle of it, and the `hlt` behind it falls
into `hwint00` if an interrupt ends it.

Properties: `FileLoaded` (what is jumped to is the file, whole and in order; a program
gives up only if its file is not there), `KernelReady` (segments where they were linked
to, all usable memory below 4 GB mapped, page tables inside it; the loader gets lost
only with a BIOS that gave no list, which is what this code does then and is
permitted), `NoFault` (no descriptor, selector or gate is refused, each leads where it should, and each process finds its own LDT), `TasksAlone`
(ports and IF are for tasks only, by `IOPL` and by a bitmap that does not exist),
`ExceptionShown`, `ExceptionIsFinal` (nobody runs after an exception, because the gates
turn interrupts off), and `BootEnds`: the first process is restarted, or a file is
missing, or the loader is lost.

Run `boot`: every disk of five clusters with two files, a file in up to four of
them, as many as fit into a segment, in any order, at every place of a directory of two sectors of two entries or nowhere, beside an entry whose name
differs in the last character; FAT sectors of four bytes, so that entries lie across a
boundary; tracks of five sectors, so that both heads and two cylinders are read. Four
memory maps (none; in order with the rest of a page table; out of order with reserved
ranges; above 4 GB) and both ends of the list; an address space of 32 pages, of which a
page table maps four. The tables of `Protect` have their real sizes and plausible
addresses, one task and three processes. The system really stops where a file is
missing (`jmp $`) or the loader is lost (`CHECK_DEADLOCK FALSE`). Fairness: the CPU goes
on until the first `restart`, and reads succeed in the end (the code repeats them for ever).

What the code relies on without a look is in `BootAssumption`:

- of the disk (`DiskAssumption`): chains end with 0FFFh, which is no cluster, the FAT has
  an entry for every cluster and lies in the first track with the sector behind it, names
  have one length and fit into an entry. The disk may be of any size; what fits into the
  segment it is loaded to is each file (`FileSizes`, which `DiskInit` takes the lengths
  from): 128 sectors for `kernel.bin` from offset 0 on, 127 for `loader.bin` from 0100h on,
  so that `SegSectors` = 127 is right for the two together;
- of the machine (`LoaderAssumption`): the list of the BIOS fits into the 256 bytes of
  `MemChkBuf`; a range of memory that begins below 4 GB ends there, too, since the sum of
  the low words would wrap; and where the page tables go, from 1 MB on, there is memory
  for as many as the loader may fill;
- of `ld` (`Loadable`): there are program headers, the segments are parts of the file,
  are linked below the place the file is loaded to, and share no address;
- of the kernel's own layout (`LayoutAssumption`): the tables (`Area`) do not overlap, in
  whatever order the linker puts them, the GDT has room for an LDT of each process, and
  all is below 1 MB.

TLC checks all of them for the constants of the run. The numbers of the repository's own
floppy (512 bytes, 18 sectors per track, FATs of 9 sectors, 14 sectors of directory with
16 entries of 32 bytes, 2847 clusters, names of 11 characters) satisfy them, too, so the
theorems below speak of that disk; only TLC cannot enumerate its contents.

## Runs

| run | asks | states |
|---|---|---|
| `user` | order of service; delays and output of processes | 1 million |
| `schedule_refill` | is the comment at `proc.c:27` right? (violated) | - |
| `interrupt` | nesting, masks, frames, and the two refinements | 90 thousand |
| `interrupt_live` | does everybody run, is every interrupt served? | 19 thousand |
| `kb_ring` | is the ring a queue, and drained? | 5 thousand |
| `keyboard` | are keys what was typed? | 8.7 million |
| `tty` | is every character shown once, in order, in its place? | 1 million |
| `leds`, `leds_ack` | do the LEDs follow; is the ACK read? (violated) | 9 thousand |
| `console`, `console_store` | what survives the race; is every store inside? (violated) | 1 million |
| `boot` | from the disk to the processes | 250 thousand |

Each property of a passing run has a mutant of the code's definitions in
`PROJECT.json` under which that run reports it.

## Proofs

The theorems hold for every value of the constants that satisfies the named
assumption of the module.

`ScheduleProofs`, for any number of tasks and processes and any positive priorities
of which entry 0 has the highest (`TableAssumption`, what `kernel_main()` sets up):

- `TypeCorrect`: types, and the bound on overdrawn quanta.
- `RoundCorrect`: `Spec => []RoundInv`. With the types, `RoundInv` is inductive as it
  stands: `StepKeepsRound`.
- `ImplementsRoundRobin`: `Spec => RoundRobin!SafeSpec`. `BeforeTrichotomy` makes
  precedence a strict total order; `ScanFindsSuccessor` says that the first entry
  with the most ticks is the next of the round when everybody behind still has a
  full quantum; `ScanAfterRefillFindsFirst` does the last of a round.

`UserProofs`, for any processes, messages, delays and width of an int (a multiple of four
bits) into which the arithmetic of `milli_delay()` fits (`BitsAssumption`,
`DelayAssumption`, `CountAssumption`, `MessageAssumption`):

- `DelayCorrect`: `USpec => DelayLongEnough`. The invariant says that `ticks - t`, as
  an int, is the number of ticks since the delay began, until the count stops, however
  often `ticks` has wrapped; `Division` is what C's division keeps of it.
- `DelayInTimeCorrect`: `USpec => []DelayInTime`. The property is not inductive: it says how
  late a process is, not how much later it may get. `InTime` adds `Left`: what the running
  process has left, and a quantum for everybody who comes before the waiting one in the
  round (`Ahead`). Once the delay is over, each tick takes at least one from it
  (`TickShortensLeft`), also the one that hands over the CPU, since the next process was
  among those ahead (`NextIsAhead`); and when the waiting process has the CPU it asks before
  the next tick, and is told that it is over (`LoopEndsOnceOver`). `Left` is never less than 1
  nor more than `Round` (`LeftBounds`). For that, `Turns` of a set of processes grows with
  the set (`TurnsMonotonic`) and by each process added to it (`TurnsAdd`): an induction over
  the process table.
- `PrintedCorrect`: `USpec => []PrintedAsFormatted`. The steps are simple (only `Printf` writes
  a text, with a time that `DelayInv` keeps in the range of an int); what it takes is that
  the code prints the right text whatever the message and the numbers. `ItoaIsHex`: the
  shift of a negative number gives the digits of the unsigned one (`NibbleValue`, from
  `PowersMultiply`), those before the first that counts are 0 and that one is not
  (`LeadingZeros`), so `itoa()` skips as many as `Hex` leaves out, by induction over the
  digits. `VsprintfIsMeant`: when the loop has read the format of the first i characters of
  a message, it has written what they mean, is outside a conversion and at the argument
  behind those they show, by induction over the message. `Powers`, `ItoaLoop`,
  `VsprintfStates`, `VsprintfResult` and `FlattenJoins` say that the recursions define the
  functions they seem to.

`InterruptProofs`, for any table of processes, any number of lines, any length of a
`write()` and any interleaving (`InterruptAssumption`):

- `TypeCorrect`, `NestingCorrect`, `MaskCorrect`, `FrameCorrect`: `TypeOK`, `NestingInv`,
  `MaskInv` and `FrameInv`. None is inductive alone; `IInv` is their conjunction with three
  more: `StackInv` says entry by entry what may be where on the kernel stack (a system
  call and `kernel_main()` only at the bottom, a handler with its own line, the CRTC
  section only on top), `TableInv` which handler each line has, and `FlagInv` where
  interrupts are off. `MaskInv` needs `TableInv` (no stray handler runs), `NestingInv` needs
  that an interrupt is taken only with IF on, and that `k_reenter` stays below the number of
  lines needs that only the clock and the keyboard are ever opened: three entries at most.
  `GotoKeepsIInv`, `SaveFacts` and the facts about leaving carry the steps that stay in a
  handler, the entries and the exits.

In the same module, for the two refinements:

- `ScheduleImplemented`: `Spec => ImplementsSchedule`. `ClockInv` says what the scan of
  `schedule()` has found among the entries before `scan.p`, what its refill has done,
  and that a nested `clock_handler()` only charges. From it, the charge of the outermost
  `clock_handler()` is the step of `Schedule`, the charge of a nested one its
  `ClockHandlerNested` (`ChargeIsStep`), and no other step, of the scan or of what
  interrupts it, changes what `Schedule` sees (`Onward`, `Quiet`). That the scan ends
  where the mapping says needs that there is one first entry with the most ticks
  (`FirstExists`, `FirstUnique`).
- `RoundRobinImplemented`: `Spec => ImplementsRoundRobin`. `HandInv` is the distance between
  decision and switch: the process whose registers are loaded is the one decided for,
  or, until `clock_handler()` returns, the one before it in the round.
  `ScheduleProofs`, instantiated under the mapping, says that decisions go round.

`TtyProofs`, of `KbRing`, for a ring of any size and any set of bytes (`RingAssumption`):

- `RingTypeCorrect`, `RingCorrect`: `RingSpec => []RingInv`. `RingInv` alone is not inductive: the
  handler must be kept out while the task has moved some of `p_tail` and `count` and
  not the others. `Exclusion` says where the task has interrupts off, that the copy
  of `count` it decrements is still right, and that the handler is not installed
  before the ring is.
- `ImplementsQueue`: `RingSpec => ByteQueue!Spec`. The contents of the ring are written as a
  sequence that starts at a slot and wraps (`RingSeq`); `RingSeqAppend`, `RingSeqTail` and
  `RingSeqWrap` are what the handler, the read and the wrap do to it.

`KeyboardProofs`, for a ring of any size, any of the keys of `Make`, any number of them
held at a time and any number of bytes typed ahead (`KeyAssumption`):

- `KeysCorrect`, `NothingPendingCorrect`, `WaitEndsCorrect`: all three properties follow
  from one invariant (`IInv`, proved in `DecoderFollows`): the decoder, run on over the
  bytes in the ring and on their way, gives the keys that are still in `typed`, and ends
  with the modifiers and locks the user left. `Taken` is where the decoder is, `Goal` where
  the user is, and `OnTheWay` says that the bytes between are a path from the one to the
  other (`Path`), in which an answer of the keyboard stands anywhere but inside a sequence.
  A key that is pressed or released makes the path longer at its end, a read takes a step
  of it, and `set_leds()` may put answers into it or take them out of it, which needs that
  they decode to nothing. To be run over bytes that were not read yet, the operators of the
  decoder (`DownAfter`, `LocksAfter`, `Passed`, `HasKey`) have the bytes as a parameter.
  Once a byte is lost the invariant says nothing, as the properties do.

`TtyProofs`, of `Leds`, for any scan codes and any buffer of the keyboard
(`BytesAssumption`):

- `LedsCorrect`: `LedsSpec => []LedsShowLocks`. `PairInv` says, for each point of `set_leds()`,
  which byte may still be under way and what the keyboard expects. `kb_wait()` alone
  keeps command and mask together; what `kb_ack()` reads does not appear in it.

`TtyProofs`, of `Tty`, for any number of consoles, any size of queue and any number of keys
typed ahead (`TtyAssumption`):

- `TypeCorrect`, `QueueCorrect`: `Spec => []QueueShort`. The inductive invariant adds that
  `init_tty()` has set the pointers of the consoles it has passed. `PutKeyFits`: a key
  is put into an empty queue.
- `EchoCorrect`: `Spec => EchoedAsTyped`, i.e. `task_tty` implements `ByteQueue` with what is
  still to be shown (`Pending`) as its contents: what waits in the input queues, and what the
  keys not read yet will show (`Typed`). `EchoInv` adds to the invariant above that the two
  pointers of a queue are one apart while it holds a character and equal otherwise, so that
  `tty_do_write()` shows what `put_key()` has put there (`PutKeyQueues`, `QueuedOne`). A key
  that is typed adds to the end of `Pending` (`TypedAppend`), however many switches are
  waiting in front of it; the read takes from the front of the keys what it puts into the
  queue (`TypedHead`), so that `Pending` stays as it is; the write is `Take`. `Typed` is a
  recursion over the keys: `Along` are its intermediate values.

`ConsoleProofs`, for any number of consoles, lines of any length, screens of three lines
or more and consoles larger than that (`ConsoleAssumption`):

- `WindowCorrect`, `CharsCorrect`, `CrtcCorrect`: `WindowInv`, `CharsStayInside` and
  `CrtcInv`. The inductive invariant has to say what task_tty can still rely on after its
  test of the cursor has become stale (`TtyOk`): a `write()` does not move the cursor
  back, nor forth once it is past the last cell, and it scrolls no further than the
  cursor needs, which leaves room for another line. This is where processes must
  write no backspace and the screen must have three lines. `UserOk` is the same for a
  `write()`, which nobody preempts and which may believe what it has read; `ConInv`
  has the window at the beginning of a line (`OnLine`); `CrtcOk` says who has
  interrupts off.

`BootProofs`, for any size and contents of the disk, any memory map, any segments, any
number of tasks and user processes at any addresses (`BootAssumption`). `BootInvariant`
(`Spec => []BootInv`) goes along with the program that runs:

- `FilesLoaded`, from `FileInv`: no entry of the directory before the one looked at is the
  file, and the sectors loaded so far are the first of its chain. What the code computes is
  traced back to the disk: `SectorIsRead` (cylinder, head and sector), `FATByteIsRead` and
  `FATEntryIsGot` (the twelve bits of an entry out of two bytes of one sector or of two,
  for either parity), `NameMatches` and `DirectorySector`. That `next` comes from the chain
  of this file needs that the chains of a disk share no cluster (`ChainProperties`).
- `KernelIsEntered`, from `MemoryInv`: `MemChkBuf` is what the BIOS has given so far, the
  first ranges are measured, the segments of the first program headers are in place and
  the next one does not touch them (`SegmentPlaced`). `TablesHold` is the arithmetic of the
  page tables, `MemoryMapped` what follows of it for the kernel.
- `NothingRefused`, `PortsGuarded`, `ShownAsRaised` and, as a property of steps,
  `ExceptionsLast`, from `KernelInv`: how far the start has come says which tables are
  filled and loaded, and who runs says what is in the registers. `Decoding` is the heart
  of it: the CPU finds in a descriptor what `init_descriptor()` scattered over it, for
  every base and limit below 1 MB and every attribute. `KernelDescriptors`,
  `ProcessDescriptors`, `FetchGlobal`, `FetchLocal` and `GatesLead` say which descriptor a
  selector finds, in the GDT, the LDT of its process or behind a gate; that no two tables
  overlap is needed there. For an exception the invariant has what the CPU pushed
  (`Pushed`), and the stub of its vector completes it to what `exception_handler()` takes.
- `TypeCorrect`: the types, of all programs.

`Induction` holds what these proofs need of the natural numbers. The provers cannot use an
induction rule that takes a predicate, but one that takes a set: `Minimum` (from
`NatLessThanWellFounded` and `WFMin` of the library), `UpTo` for an induction from 0 to N,
`Unique` for two functions that begin and go on alike, `Recursion` for the existence of
the function a recursion defines, and `FollowsAlong` for its type.

Model-checked only: liveness (`NobodyStarves`, `IrqServed`, `KeysServed`, `KeysRead`,
`SetLedsReturns`, `CallsReturn`, `DelayReturns`, `BootEnds`), which rests on fairness and is
beyond these provers. Every safety invariant and every action property of a passing run is
a theorem.

## Not modelled

- What is displayed without the consoles: `disp_str()`, `disp_int()` and what the boot
  sector and the loader print on the way.
- `delay()`, which nobody calls, and the string functions: sequential copies of a few lines.
- A `write()` before `init_screen()` has set up its console (see Console).
- `hwint08` to `hwint15`, `spurious_irq()` on them and the slave 8259A: their lines are never opened.
- The Accessed and Busy bits that the CPU sets in descriptors; they are never read.
- Where the frame of an exception lies. One that is raised in a process goes to the stack in
  the process table, and `exception_handler()` with its locals runs over what lies below;
  nobody runs afterwards (`ExceptionIsFinal`), but what the overwritten memory holds
  depends on the layout of the kernel, and so does what is displayed then.
- `int n` with a vector `init_prot()` never fills: its gate is what lies in the bss.
- Steps nobody else can see in between: the two increments of `clock_handler()` are one
  step (`ClockCharge`; the clock line is masked, no process runs, and the keyboard's
  handler reads neither), and so are the assignments of `init_screen()` (`InitScreen`;
  a console is written to by others only once it is set up, see above).
- The bss, which the loader does not clear: the functions that are modelled assign what they
  read first, and are modelled with what they assign.
- `pmtest.asm`, `foo.asm`, `bar.c`, `hello_elf.asm` and the disk images: exercises beside
  the kernel.

## What could follow

The plan of the modules is done. What is left is to compose ring, decoder, tty and system
calls over one scheduler in one module, to show what their separate fairness assumptions
come down to.
