# RaryOS in TLA+

RaryOS is a single-CPU x86_64 kernel started by a multiboot2 loader. It sets up
the interrupt tables, a page allocator and a heap, looks for a USB keyboard,
and enters one user program, a shell, which talks to the kernel through
`int 0x80`. This directory holds TLA+ models of the parts that carry its logic,
TLC configurations that check them on small instances, and TLAPS proofs of
their main properties for every value of the constants.

Source paths below are relative to the repository's `src/`.

## Inventory

| Part | State | Operations | Correct if |
|---|---|---|---|
| Input ring, `drivers/input.c` | `buffer`, `head`, `tail` | push (two interrupt handlers), pop and test (`EFF_READ`) | a FIFO; only a full ring refuses; sleeping readers are woken |
| Interrupts, `arch/x86_64/idt.c`, `irq.c`, `boot/boot.s` | IDT, handler table, IF, the frames on the stack | gate entry, EOI, dispatch, `iretq` | handlers do not nest; a frame is restored exactly |
| Effects, `kernel/effect.c` | handler chain | WRITE, READ, IOCTL, EXIT | a call gets the result of the operation, errors included |
| xHCI driver, `drivers/usb.cpp` | four rings with cycle bits, `intr_buf`, `prev_keys`, interrupter registers | enumeration by polling, interrupt handler, transfer queueing | driver and controller agree on every ring; the keyboard never goes silent; no report is lost |
| Page allocator, `kernel/memory/pmm.c` | bitmap, hint | init from the memory map, alloc, free | exactly the usable pages, each handed out once |
| Heap, `lib/malloc.cpp`, `kernel/kernel.c` | block list in the memory it manages, `heap_end`, `heap_limit` | malloc, free, sbrk | live allocations disjoint and large enough; free memory merged |
| Page tables, `kernel/memory/vmm.c` | four levels of tables | map 4 KB, 2 MB, 1 GB | a mapping that returns is in effect |
| LAPIC timer, `arch/x86_64/lapic.c` | LVT entry, counters | calibrate, start, tick | ticks at the announced rate |
| Start-up, `kernel/kernel.c` | boot information | convert multiboot2, order of initialisation | nothing is used before it is initialised |
| ELF and user entry, `kernel/elf.c`, `kernel/user/user.c` | the user image at 4 MB | load segments, `iretq` | image where the program expects it, and nothing else written |
| Terminal, `kernel/graphics/*` | cursor, video memory | write, scroll, backspace, clear | shows what a text screen shows |
| Shell, `programs/shell/main.c`, `user_libc/*` | line, tokens | readline, tokenize, dispatch, printf | the line on the screen is the line that is run, word by word |
| ACPI, SMBIOS, `arch/x86_64/acpi.c`, `kernel/smbios/*` | sleep types, table pointers | table walks, shutdown, reboot | the right value out of any encoding; walks stay in the tables |
| PCI, `drivers/pci.cpp` | the device found | search, base address | the first match; the driver runs at its base |
| C library, `lib/*` | | printf, itoa | what the format means |

How they interact: the PIT, PS/2 and xHCI handlers interrupt `kernel_main` and
the user program wherever IF is set; two of them push to the input ring, which
`EFF_READ` empties. `run()` of the xHCI driver is called from `kernel_main`
with interrupts on and shares its rings with the handler and with the
controller. The page allocator's bitmap lies behind the kernel image, the heap
behind the bitmap.

What is hard: interrupt handlers between any two instructions; the controller
that runs all the time; checks followed by a sleep; cycle bits that flip after
255 entries; polls with timeouts whose completion arrives later; address
arithmetic at the edges of memory. `PROJECT.json` lists these hazards with the
line where each bites and the property that covers it.

## Modules

| Module | Models | Kind |
|---|---|---|
| `CharQueue` | what the input path promises | abstract specification |
| `KeyInput` | input ring, PIT, PS/2 and USB handlers, gates, `EFF_READ` | detailed; refines `CharQueue` |
| `PageAllocator` | what the page allocator promises | abstract specification |
| `Pmm` | `pmm.c` | detailed; refines `PageAllocator` |
| `Heap` | `malloc.cpp`, `sbrk`, `init_heap` | detailed |
| `Xhci` | `usb.cpp` and the controller (external) | driver and environment |
| `AddressSpace` | what the mapping functions promise | abstract specification |
| `Vmm` | `vmm.c`, the tables of `bootmain.s`, the mapping loop of `usb_init`, the processor's walks and TLB (external) | detailed; refines `AddressSpace` |
| `Traps` | stubs of `boot.s`, gates and PIC of `idt.c`, `irq.c`, start-up order, TSS | detailed, with devices and interrupt controllers (external) |
| `LapicTimer` | `lapic_timer_init` | detailed, with PIT and counter |
| `Effects` | `int 0x80`, the chain and core handler of `effect.c`, `cpu_get_brand` | detailed |
| `TextScreen` | a text screen | abstract specification |
| `Terminal` | `terminal.c`, `fb.c` | detailed; refines `TextScreen` |
| `Readline` | main loop and `readline` of the shell, composed with `Terminal` | composition |
| `Shell` | `tokenize`, dispatch, `cmd_echo` | detailed |
| `Printf` | both `printf` and `itoa` | detailed, against a recursive definition of the format |
| `KeyReports` | `process_keys` with a keyboard | detailed |
| `HidDescriptor` | `find_hid_keyboard` | detailed |
| `PciScan` | `pci.cpp`, first half of `usb_init` | detailed |
| `KeyboardSearch` | the way to the keyboard in `usb_init`: `PciScan`, then `HidDescriptor` on the controller found | composition |
| `Acpi`, `Smbios` | `acpi.c`, `smbios.c` with firmware tables (external) | detailed, against the meaning of the tables |
| `Firmware` | `smbios_init` and `acpi_init` | composition |
| `Multiboot` | `convert_mb2_to_mb1`, the RAM sum of `kernel_main` | detailed |
| `Elf` | `elf_load`, head of `jump_to_user` | detailed |
| `MCBoot`, `MCUser` | the parts that share no state, side by side | compositions for TLC |
| other `MC*` | | values for TLC |
| `KeyInputProofs`, `PmmProofs`, `HeapProofs`, `VmmProofs`, `XhciProofs`, `TrapsProofs` | | theorems about the module of that name |
| `UserProofs` | | theorems about `Terminal`, `Readline`, `KeyReports`, `Effects` |
| `BootProofs` | | theorems about `LapicTimer`, `Elf`, `KeyboardSearch`, `Multiboot`, `Smbios`, `Acpi` |

Definitions named like a correct one with a suffix for a mistake
(`SuccNoWrap`, `PushTestUnguarded`, `KeepHint`, ...) are mutants: they stand
next to the definition they would replace, and show that the property they are
listed with in `PROJECT.json` notices the mistake.

### KeyInput

`pc` says where each context is: the task (`kernel_main`, the user program,
inside `EFF_READ`) and the three handlers. `cur` is the context on the CPU,
`ifl` is RFLAGS.IF, `caller` and `savedIf` are the interrupt frame. A request
in `pend` is accepted between any two steps when `ifl` is 1; whether entry
clears IF is computed from the type in the gate that `init_idt` installs.
`input_push` and `input_pop` take one step per access to shared state. `sti;
hlt` is one step, since the processor accepts no interrupt between the two; any
interrupt ends `hlt`. A scancode is a character, or `NoKey` for releases and
keys without a character; a report is a number of newly pressed keys, each any
character. The 8042 is taken to hold no byte before interrupts are enabled.

`CharQueue` is refined with `Contents`, the characters between `tail` and
`head`: a push takes effect at `head = next`, a pop at the assignment to `tail`.

### Pmm

`pmm_bitmap` maps a word to the set of its bits that are 1. `pmm_init` is one
step (nothing else touches the bitmap before it returns); so are allocation and
free, which run with no concurrent caller. Address arithmetic is modulo
`AddrMod`. `owned` is a ghost: pages handed out. Only such pages are freed, or
an address past the last page; `pmm_free_page` has no callers that would say
more. A loader that gives no memory map is the empty map: no page is ever free.
Boot information and map are the kernel's own static copies, so the check for a
corrupt entry size cannot fire and is left out.

### Heap

`hdr` maps the address of each block header on the list to its fields; `next`
is an address. A header disappears when its block is absorbed. The loops of
`malloc`, `coalesce` and `free` take one iteration per step. `live` is a ghost:
pointers handed out, with the size asked for. Requests are small enough that
`(size + 7) & ~7` does not wrap, and only live pointers are freed.

### Xhci

`pc` and `stage` follow `run()` and the eight requests of `setup_keyboard`;
`isr` follows `handle_interrupt`, which may start at any step of `run()` once
the message has arrived. The driver's rings keep the cycle bit of every entry.
The controller is external: it posts events, follows rings by cycle bit, and
keeps EHB, IP, IE and INTE as the driver relies on them. It may complete a
request at any time, fail it, or never complete it; ports change; transfers
fail. A poll may time out at any moment. The default control ring never wraps
within one enumeration (it has 256 entries and five requests use 12), so
it is the queue of its requests.

`FastDevice` and `LateEvents` say what may happen between the last request and
the end of `run()`. Both are FALSE in the passing runs; each alone breaks
`ReadyMeansArmed` (see Findings).

### Vmm

Addresses count pages, a table has `Fan` entries, so a "2 MB" page spans `Fan`
pages. A call takes one step per table it looks at and per write: a frame is
taken, cleared, linked, the leaf written, the TLB flushed. The processor may
fill its TLB for a watched page between any two of these; its walk is
`Translate`. Frames hold junk until they are cleared. `AddressSpace` has a
single kind of step, a request takes effect on all its pages at once; the calls
implement it, a silent return being a stutter. `MCVmm` fills the TLB only while
single pages are mapped: a huge page over a table is flushed for one address
only, so that `TlbCoherent` would not hold, but it has no callers.

### Traps

The stack is a sequence of named words. Processor and stub each push their
part, `iretq` takes what is on top. Registers that a stub saves and restores in
pairs are left out. The PIC holds requests, mask and lines in service; the LAPIC
vectors in service. A spurious request is one that is gone when the PIC is
asked. `kernel_main` runs through `BootOrder`; from `sti` on, interrupts come in
between. An entry from ring 3 starts at `rsp0`. Vectors without a gate reset
the machine, which `TypeOK` rules out. `pic_remap` begins with ICW1, which drops
what the lines have requested so far: a key pressed before it is lost, and
`KeyServed` speaks of the time from there on. `KeyInput` begins there too, with
the 8042's buffer empty.

### LapicTimer

Time is counted in steps of the LAPIC's counter. Each step of the code takes up
to `Delay` of them, `hlt` any number, until the next tick of the PIT.

### Effects

`struct sys_info` is an array of characters, so that a field that runs over
changes the next one. Vendor, board and brand are strings of the machine, or
missing. `done` is a ghost: what the kernel did. Shutdown, reboot and exit do
not come back.

### Terminal, Readline, Shell, Printf

`vram` has one cell per pixel, with the padding that the pitch gives, or one
cell per VGA character. A pixel holds the piece of the glyph that was drawn
there: `RefinesTextScreen` therefore notices a glyph that is cut, misplaced or
drawn over. `Readline` extends `Terminal` and sends its echo one character at a
time. `Shell` starts from a line as `readline` leaves it in the buffer, with
earlier contents behind the terminator. In `Printf` an argument is a number
below `LongSize`, an `int` its low part; two's complement is modelled with its
width. `PrintsMeaning` compares with a recursive definition of what the format
means, which does not use `itoa`.

### Parsers: Acpi, Smbios, Multiboot, HidDescriptor, Elf, PciScan

Each has the input both as structured data (terms of byte code, structures,
tags, descriptors, program headers, functions) and, where the layout matters, as
bytes; an assumption on the constant says what the bytes of well-formed data are
(`FirmwaresAssumption`, `PlatformsAssumption`, `LoadersAssumption`,
`DevicesAssumption`). The code's walk reads the bytes, the properties read the
structured data. `HidDescriptor` takes the total length from `ctrl_buf`, which
holds the device descriptor behind the bytes received; of a device that sends
fewer than four bytes it is stale. `Elf` reads the headers from the memory that it
writes: each has its places in the image, and when a segment has changed one of
them before it is read, the behaviour ends in `astray`. The encoders that produce bytes for TLC are in `MCBootInputs`;
TLC checks the assumptions for what they produce. Sizes and counters in the
code's conditions are kept; names and texts are numbers. A table whose length
cuts its byte code off is in `Acpi` an input too, of which only the reads are
claimed to stay in bounds. `Acpi` also has `acpi_shutdown` and `acpi_reboot` with
the machine they act on.

### KeyReports

A keyboard reports the keys that are down in any of its places, or the rollover
code in all of them; a failed transfer leaves the cleared buffer. `got` and
`plain` are ghosts: characters pushed for a key since it went down, and keys
seen only through plain reports.

### MCBoot, MCUser

The parsers, the calibration, terminal, shell, system calls, `printf` and key
reports share no state with one another, except where a module composes two of
them (`Readline`, `KeyboardSearch`, `Firmware`). One run checks several of them:
`part` says which one a behaviour is about, that part takes all steps, and the
variables of the others stay where they begin. `MCBoot` and `MCUser` extend the
modules they run, so that the properties are those of the modules, which the
theorems state, and hold whichever part runs; only `Shell`, `Printf` and a
terminal without `readline` are instances, and `PrintsMeaning` says for which part
it speaks. A property joins what a part promises: `LoaderRead` is `WalksTags`,
`MapFaithful` and `RamCounted` of `Multiboot`, and so on. Each of these conjuncts
has a mutant of its own. The inputs are in `MCBootInputs` and `MCUserInputs`.

## Runs

| Run | Instance | Checks |
|---|---|---|
| `key_input` | ring of 3, two characters, reports of up to 2 keys, reads of 0, 1, 2 | type, lost wake-up, exclusive access, non-empty reads, refinement of `CharQueue`, a sleeping reader is served |
| `pmm` | 4-byte pages, 4-bit words, 64 addresses, 14 memory maps | type, hint, conservation of pages, refinement of `PageAllocator` |
| `heap` | all sizes of the code divided by 4 (granularity 2, header 6, split 4), heaps of 40, 20, 17 and 0 bytes, requests 0, 1, 4, 9, 12 | type, list = heap, live blocks, leaks, merging, growth, every call returns |
| `xhci` | rings of 3 entries, one key, one port change | `RingsInSync` (type, event ring), `OwnCompletion`, `ReportsInStep` (one transfer, keys), `ReadyMeansArmed`; `run()` ends, reports are processed |
| `xhci_fast_device`, `xhci_late_event` | the same | counterexamples, see Findings |
| `vmm` | tables of 4 entries, 3 "GB", windows of 4 pages at 3 places, 0, 2 or 3 free frames; then small pages with a TLB of three pages, or calls of all three sizes, aligned and not | `TablesSound` (type, tree of tables, ring 3 confined), `MappingInEffect` (TLB, registers mapped uncached), refinement of `AddressSpace` |
| `traps` | lines 0, 1 and a spurious 7, USB, all 32 exceptions, six `int n`, two requests each | `FramesRight` (type, frames, stack), `InterruptsServed` (counts, nothing in service), a key reaches its handler from `pic_remap` on |
| `boot` | see the next table | |
| `user` | see the next table | |
| `effects_error`, `lapic_ticks` | as in `user` and `boot` | counterexamples, see Findings |

| Part | Instance | Checks |
|---|---|---|
| `boot`: loader | all sequences of up to 3 of 14 tags, a map of 4 | `LoaderRead`: tags, map, RAM |
| `boot`: smbios | two structures out of 23 and the end marker, counts 1, 3, 5, four decoys | `FirmwareRead`: field, reads |
| `boot`: acpi | 23 bodies of byte code in two tables, every cut up to 12 bytes, stuck and late controllers | `FirmwareRead`: sleep types, reads; `CallsEnd`: reset, power off |
| `boot`: timer | period 7, delays up to 3 | `CalibrationBounds`; `CallsEnd` |
| `boot`: elf | 14 addresses, an image of 5 bytes, up to 3 headers of 33, over one another and over the image | `ProgramLoaded`: image, no header overwritten if the segments lie apart, nothing else written |
| `boot`: usb | 2 buses of 2 slots of 3 functions: 16 kinds of first function, 5 of the last, 4 in two other slots, five searches; behind one controller, up to 4 descriptors of 8 kinds; with two, any stated length up to 27, or 0, 2, 3 or 12 bytes sent of more | `KeyboardFound`: first match, base address, first suitable endpoint, reads; `CallsEnd` |
| `user`: terminal | characters of 2 by 2 pixels, three framebuffers and two VGA screens | `RefinesTextScreen` |
| `user`: line | line of 6, VGA 4 by 3, framebuffer 13 by 5 | `EchoShowsLine`: limits, cursor, echo; `RefinesTextScreen` |
| `user`: shell | line of 6, 3 places in `argv`, all lines over three characters | `PrintsMeaning`: limits, words, echo |
| `user`: call | fields of 8, 5 and 3 characters, vendor cut at 3, 210 machines | `CallsAnswered`: fields right, done or refused |
| `user`: printf | 8-bit longs, 4-bit ints, nine values, pairs of conversions, both libraries | `PrintsMeaning` |
| `user`: reports | 4 keys, 3 places | `PushedOnce` |

Why the bounds are enough. A ring of 3 cells wraps, is full with 2 characters
and can be filled by one report; 2 characters suffice to see an order. Words of
4 bits and up to 16 pages give several words, a partial last word and a hint in
each; the maps have unaligned ends on every residue. The small heaps hold up to
five blocks, so that runs of three free blocks merge, splits succeed and just
fail, and `sbrk` fails. Rings of 3 entries wrap in every position, and the
enumeration itself already wraps the event ring several times.

Tables of 4 entries and 3 gigabytes have a user, a kernel and a register zone and
room for addresses that the identity map does not reach; the windows lie inside
the map, across its end and across two tables. The screens have a remainder in
one or both directions, padding, and just two rows, so that every second line
scrolls. The line of 6 wraps on both displays and scrolls when it is entered on
the last row. For system calls every limit is met from below, exactly and from
above; in the loader's tags three maps of three entries overfill a map of four.
8-bit longs and 4-bit ints have the sign bit and the high part of an argument
independent of each other. Parsers are run on all combinations of a few kinds
of parts: what can go wrong at one part depends on the one before.

Deadlock is not checked where the system may stop: in `traps` (exit, shutdown,
reboot, an exception), in `boot` and `user` (most of their parts are one call,
which ends), in `pmm` (the kernel halts after its panic) and in the `xhci` runs
(the USB part stops when there is no device or enumeration fails).

### Fairness

* `KeyInput`: the running handler executes (weak fairness). Interrupts are
  finitely frequent (PIT ticks are 10 ms apart, reports a polling interval), so
  the task executes its next instruction, and a PS/2 request that is acceptable
  again and again is accepted (strong fairness). Nothing is assumed of devices
  or of the user program.
* `Heap`: the code between call and return runs.
* `Xhci`: `run()` and the handler run; polling loops end by their counter.
  Nothing is assumed of controller and device.
* `Traps`: the processor executes (weak fairness of the kernel's steps), and a
  request that the interrupt controllers can deliver again and again is
  delivered (strong fairness). Devices and program need do nothing.
* `LapicTimer`: the code runs, the PIT ticks, the counter counts.
* `Acpi`: `acpi_shutdown` and `acpi_reboot` go on once begun.
* `KeyboardSearch`: the loop over the descriptors runs.

## Findings

Two are single lines:

* `effects_error`: `exception_handler` copies `e.result` and not `e.error`
  (`arch/x86_64/idt.c:37`), so that a refused call returns 0. The shell's test of
  `get_sys_info` (`programs/shell/main.c:12`) cannot see a refusal.
* `lapic_ticks`: the timer's LVT entry is written with the mask bit
  (`arch/x86_64/lapic.c:65`), then `LAPIC: timer at %d Hz` is printed (70). It
  never interrupts.

The other two concern the last lines of `run()` in `drivers/usb.cpp`, which end with the
message `USB: keyboard ready (IRQ %d)` (line 687). `ReadyMeansArmed` states what
the message says: the controller has a transfer to execute, or an interrupt is
on its way.

* `xhci_fast_device`: `queue_interrupt_in_async` rings the doorbell (443) before
  it advances `intr_idx` (446). If the first report completes in between, the
  handler queues the next transfer with the old index; both increments follow
  and one entry is skipped. The controller waits at the skipped entry.
* `xhci_late_event`: `enable_interrupter` clears IP (619) but not EHB. An event
  posted after the last one that the enumeration consumed has set EHB, and the
  controller sends no message while it is set, so nothing ever clears it.

With neither, all properties hold (`xhci`). `ReadyMeansArmed` makes one exception,
which its comment names: after a transfer error the controller halts the
endpoint, `handle_interrupt` counts the code, queues another transfer
(`drivers/usb.cpp:711`) and resets nothing, and the keyboard stays silent. No
message or comment of the code says otherwise.

## Proofs

All theorems are proved from the named assumptions on the constants (sizes are
positive naturals, model values are distinct, memory maps and base addresses lie
in the address space); TLC evaluates the assumptions in every run. The invariants
below were run through TLC before they were proved.

**KeyInputProofs.** `SafetySpec => []IInv`, where `IInv` is `TypeOK` with
`FrameInv` (a handler is active exactly when it is on the CPU, and it
interrupted the task with IF set, so handlers do not nest), `FlagInv` (where IF
is set), `ReadInv` and `PushInv` (what the reader or a producer learnt about the
ring is still true). The properties alone are not inductive: that a sleeping
reader has an empty ring needs that no handler runs between its test and `hlt`,
which is `FlagInv`; that a push keeps the order needs that `next` and `head`
did not change since they were read. `Refinement` maps each step to a step of
`CharQueue` or a stutter; lemmas `PublishAccepts`, `AdvanceTakes` and
`StoreInvisible` say what a step does to `Contents` across the wrap.

**PmmProofs.** `IInv` adds `TailSet` (bits past the last page are set) and
`PageInv` (page 0 is never free, handed-out pages are not free) to `TypeOK` and
`HintSound`. `Refinement` shows that the first pass finds the lowest free page;
the second pass therefore never finds any. `PagesAlwaysConserved` follows each
region of the map through `align_up` and the loops to the bits it sets and
clears. It assumes that no region begins in the last page of the address space,
where `align_up` would wrap to page 0; physical addresses have 52 bits at most.

**HeapProofs.** `IInv` adds `CursorInv` (blocks that a loop has passed do not
fit, or cannot merge; `last` precedes `current`) and `EndInv` (all blocks end
at or below `heap_end`) to `BlocksTile`, `LiveProtected` and `NothingLeaked`.
`BlocksTile` is local, next pointer by next pointer, plus disjointness of any two blocks, which
makes it inductive without following the list.

**VmmProofs.** `TreeInv` gives each table a level, 4 at the root, and a number
among the tables of its level: an entry that points to a table points to one of
the level below whose number tells its parent and slot. So no table is linked
twice, no way comes back to its start, and two virtual addresses meet only where
their leading digits agree. `InCall` says where a call stands: on the way to its
page, the entry it found absent still absent, a frame that it links still
cleared. From this, `TablesAlwaysSound`; and `Refinement`, since a write changes
what the walk of no page finds but the last one of a call, which maps them all.
`MappingAlwaysInEffect` adds `TlbInv` (the TLB holds what the tables say, except
for the page whose call has still to flush) and `WindowAt` (before the current
page of a window all are mapped). It assumes `SmallCalls`: after `usb_init` no
call maps a huge page. That is the code as it stands, which has no such call.
Without it the statement is false: a huge page that takes the place of a table
leaves up to 512 stale pages in the TLB, and `vmm_flush` invalidates one.

**XhciProofs.** `EventInv` tells by its cycle bit and the lap of the ring whether
an entry holds an event that the driver has not seen, and that those form one
run from the driver's index to the controller's. By `EnumInv` the last
command on its ring either is under way, with no completion on the event ring,
or is done, with at most one. `XferInv` says where the
one transfer is (before the queue, on the ring, announced by an event, being
processed, processed, lost with its event), so that queueing another needs the
first to be processed. `ReadyUntilHalted` holds under the conditions that the
device is not faster than `run()` and no event is late, which the two
counterexamples in Findings show to be needed, and until a transfer error halts
the endpoint.

**TrapsProofs.** `StackInv` gives the stack for each `pc`: empty, the frame of a
system call, that of an interrupt, or the second on the first. Its depth is
bounded because only the wait of `EFF_READ`, with one frame, opens interrupts.
`ServiceInv` says that the vector in service is that of the running stub and
that all others were counted as often as accepted.

**UserProofs.** For displays and characters of any size and lines of any length.
`ScreenInv` says that the pixels of every cell are the glyph of one character,
so that a step of `terminal.c` is a step of a text screen (`RefinesTextScreen`,
of `Terminal` alone and under `Readline`): the lemmas go from an address in
video memory to a pixel, from the pixel to its cell, from cells to rows that
move up. `EchoKept` numbers the cells in reading order. Its invariant says for
every number of characters still to be written where prompt, line and cursor
are, also between the three characters that rub one out; a line that fits VGA
may wrap and scroll, and one on the framebuffer is shown as long as it has not
reached the right edge, behind which its backspace does not go back. For
`KeyReports`: between reports the keys that were down through plain reports are
all in `prev_keys` and have been pushed once; within a report a key that is new
has been pushed when the loop is past its one place (`KeysInv`). For `Effects`:
each field of `struct sys_info` is filled character by character and ends before
the next begins, so that later copies leave the earlier ones alone.

**BootProofs.** One section each, for inputs of any length.

* `LapicTimer`: time and elapsed count differ by where in a period each began
  (`InPhase`); so the sixth tick ends the wait, and each interrupt is at most a
  delay late.
* `Elf`: what the loops have copied so far is in its place, since no later byte
  falls on it, nor on bytes of the file that are still to be copied; outside the
  segments memory is as it was. So the headers of an image that lies apart from
  its segments are what they were when they are read (`HeadersIntact`).
* `KeyboardSearch`: the functions before the current one do not match, or are
  not there; the walk over the configuration stands at the start of a
  descriptor, and knows the last interface before it. What it reads of `ctrl_buf`
  up to the total length there are the device's own bytes, if as many came
  (`OwnBytes`).
* `Multiboot`: after k tags the map buffer and the structure are what the first k
  tags say, entries beyond the buffer left out (`Converted`); then the sum goes
  over the map.
* `Smbios`: the walk stands at the start of a structure, since the first double
  zero behind its formatted part is that behind its strings, and no structure
  before holds the field. The names of the board are those of the table, and
  nothing behind the table is read.
* `Acpi`: where byte code means its terms, the occurrences of the name that yield
  types are exactly the packages of two integers, in order, so that `find_s5`
  returns the first (`FoundS5`, from one lemma per encoding). `AcpiInv` says that
  before table e the first table that states the types has given them and the
  last FACP the DSDT. That at most one byte behind a table is read needs no
  assumption on the code.

Statements about every position of an input are proved from the least one that
would be an exception, which exists as `<` on the naturals is well-founded
(`Minimum`); this stands in for induction, whose theorem takes an operator that the
provers cannot instantiate.

Out of the prover's reach, hence TLC only:

* liveness (`ReaderServed`, `CallReturns`, `RunTerminates`, `ReportProcessed`,
  `KeyServed`, `CallsEnd`);
* `PrintsMeaning`: its reference for `printf` is a recursive operator; its part
  about the shell is within reach and not proved.

## Not modelled

* Register and memory layouts, message texts, colours, the names in the PCI
  tables, SSE state and the spurious APIC vector.
* Functions without callers: `input_flush`, `irq_unregister`,
  `terminal_setcolor`, `terminal_putentryat`, `fb_put_pixel`, the wrappers of
  `lib/syscall.c`.
* The switch to long mode in `boot.s` and `lapic_enable`: straight lines of
  register writes, before what they prepare is used.
* Events of types the driver does not know, which would stop its polls
  (`drivers/usb.cpp:718`); wrapping sizes in `malloc` and double frees
  (`lib/malloc.cpp:50`); frees of pages that were not handed out
  (`kernel/memory/pmm.c:163`, without callers).
* What the code takes for granted and no caller or standard breaks: table
  addresses below 4 GB, which `acpi.c:193` cuts to 32 bits; an entry size other
  than 0 in the loader's map (`kernel/kernel.c:104`); numbers below 2^63 for
  `%lu` (`lib/stdio.c:37`); formats that do not end in `%` (`lib/stdio.c:16`).
* A key pressed before `pic_remap`, whose request is dropped and whose byte nothing
  reads; the keyboard would keep its line high from then on.
* What `find_hid_keyboard` makes of the device descriptor's bytes when the total
  length in `ctrl_buf` is more than what was received (`drivers/usb.cpp:523`): the
  walk over them is in the model and ends, nothing is claimed of its result.
* What `elf_load` does after it has read a header that a segment has overwritten
  (`kernel/elf.c:22-40`); the shell is linked at 4 MB, its image into the kernel.
* `acpi_shutdown` on a machine whose control block is at none of the three ports
  it writes: it halts without powering off (`EmulatorsPowerOff` is about the
  machines that it knows).
* Kernel image, bitmap, heap, user image and page allocator in one memory.
  Whether they overlap depends on the addresses of a build and on the memory
  map; the code has no checks that a model could show sufficient.

Exceptions that a property makes are named in the comment above it.

## Plan

All components have models, and every safety property of the passing runs but
`PrintsMeaning` has a proof. What is left:

1. `Shell`: that `tokenize` finds the words of a line of any length, as a theorem of
   its own.
2. `Printf`: the reference as a recursive function of the position, and the digits
   of `itoa` by the least digit that would be wrong.
3. One memory for kernel image, bitmap, heap and user image, once the code checks
   that they do not overlap.
