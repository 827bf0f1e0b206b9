# lizaOS: models, checks and proofs

lizaOS is a 32-bit x86 hobby kernel: GRUB loads it, `asm/boot.asm` turns paging
on and calls `kmain`, which sets up an early heap, descriptor tables, its own
page directory, the interrupt controllers and the timer, mounts a ramdisk, lists
its files, enables interrupts and halts for ever. There is one processor, no
processes and no user mode. What is hard about it is not an algorithm but the
order of things: memory that is handed out, mapped and remapped while the tables
that map it are being built, and interrupts that may arrive between any two
instructions once `sti` has run.

Paths below are relative to the repository (`src/mm/paging.c` is in its `src`
directory).

## 1. Inventory

| Part | State | Operations | Interacts with | Hard behaviour | Correct when |
|---|---|---|---|---|---|
| Early allocator (`mm/alloc.c`) | `initialized`, `initialBase`, `currentBase`, `maxBase` | `kmalloc_early_init`, `kmalloc_early`, `kmalloc_early_align` | called by paging, `kmain`, ramdisk | limit and alignment, 32-bit sums | blocks are fresh, disjoint, inside the section; aligned blocks own the start of their page |
| Boot (`asm/boot.asm`, `config/linker.ld`) | `page_directory`, `lowmem_pt`, `kernel_pt`, CR3 | `_start` | linker symbols, `kmain` | index wrap of the single table | every kernel page is mapped to its load address |
| Paging (`mm/paging.c`) | `pageDirectory`, `ptPhysToVirt`, `kernelPagingEnabled`, tables in the heap, CR3, TLB | `page_map`, `virt_to_phys`, `page_ident_map(_range)`, `init_paging`, page fault handler | allocator, MMU, `kmain` | tables built under other tables; no `invlpg`; two copies of "where is the table" | directory, reverse map, TLB and `virt_to_phys` agree; nothing in use moves |
| IDT, ISR, stubs (`kernel/idt.c`, `kernel/isr.c`, `asm/irq.asm`, `asm/exceptions.asm`) | gates, `g_interrupt_handlers`, the stack of frames, IF | entry stubs, dispatch, registration | CPU, PIC, timer, panic | `sti` before `iret`, exceptions inside handlers | interrupts do not nest; every vector has a gate |
| PIC driver (`drivers/8259_pic.c`) | the chips' IRR, ISR, IMR and vector bases | `pic8259_init`, `pic8259_eoi` | ISR dispatch | cascade, spurious interrupts, non-specific EOI | an EOI retires exactly the interrupt handled |
| Timer (`kernel/timer.c`) | `g_ticks`, `g_freq_hz`, timer functions | `timer_init`, `timer_handler`, `sleep` | PIC, ISR | wrap of `g_ticks`, waiting for an interrupt | `sleep` is not early, and returns |
| Panic (`libc/kerror.c`) | - | `panic` | everyone | - | nothing runs afterwards |
| `kmain` (`kernel.c`) | `new_location`, `mod_new_addr` | the boot sequence, the file listing | everyone | order of set-up; boot data read after the exchange of the directory | boot ends idle or in a panic |
| Ramdisk, VFS (`drivers/ramdisk.c`, `fs/vfs.c`, `misc/initrd.c`) | headers, inodes, one shared `dentry` | `ramdisk_init`, `readdir`, `finddir`, `read` and the `_fs` wrappers | allocator, `kmain` | file data beyond the one mapped page, shared result buffer, 32-bit sums | what is read is what the image holds |
| Console (`kernel/screen.c`, `drivers/vga.c`) | `vga.x/y/pos`, the buffer | `screen_put(_text)`, `vga_newline`, `scroll`, `vga_clear` | printf | scroll, long lines, 8-bit coordinates | the cursor and the write position agree; writes stay in the buffer |
| Printf (`libc/stdio.c`) | - | `k_printf`, `k_printfln`, `vprintf` | console | number conversion, padding | output equals the value |
| Strings (`libc/string.c`) | - | `memset`, `memcpy`, `memmove`, `strcpy`, `strlen`, `strcmp` | ramdisk, paging | overlap, terminators | the usual contracts |
| GDT (`kernel/gdt.c`, `asm/load_gdt.asm`) | `g_gdt`, GDTR, segment registers | `gdt_init`, `gdt_set_entry`, `load_gdt` | IDT (selector 8) | fields in pieces, 16-bit limits, a panic at one address | segments are flat, gates lead to their stubs |
| Port I/O (`kernel/io.c`) | - | `inb`, `outb` | PIC, cursor | none | - |

`PROJECT.json` lists the same parts with their modelling status, and under
`hazards` what can go wrong and where.

## 2. Modules

| Module | Stands for |
|---|---|
| `Heap` | abstract: a heap hands out fresh blocks of a section until it fails |
| `EarlyAlloc` | `mm/alloc.c`; refines `Heap` |
| `EarlyAllocProofs` | its theorems |
| `AddressSpace` | abstract: an address space that is switched on, exchanged without moving what is in use, and remapped one page at a time |
| `Paging` | `asm/boot.asm`, `config/linker.ld`, `mm/paging.c`, the memory side of `kmain` and of `ramdisk_init`; extends `EarlyAlloc`, refines `AddressSpace` |
| `PagingProofs` | its theorems; extends `EarlyAllocProofs` |
| `Interrupts` | `kernel/idt.c`, `kernel/isr.c`, `asm/irq.asm`, `asm/exceptions.asm`, `drivers/8259_pic.c`, `kernel/timer.c`, `libc/kerror.c`, the interrupt side of `kmain` |
| `InterruptsProofs` | its theorems |
| `Ramdisk` | `misc/initrd.c`, `drivers/ramdisk.c`, `fs/vfs.c`, the listing in `kmain` |
| `RamdiskProofs` | its theorems |
| `Console` | `drivers/vga.c`, `kernel/screen.c` |
| `ConsoleProofs` | its theorems |
| `Printf` | `libc/stdio.c`, `stdarg.h` |
| `PrintfProofs` | its theorems |
| `Strings` | `libc/string.c` |
| `StringsProofs` | its theorems |
| `Descriptors` | `kernel/gdt.c`, the fields of `kernel/idt.c`, `asm/load_gdt.asm`, `asm/load_idt.asm` |
| `DescriptorsProofs` | its theorems |
| `MCEarlyAlloc`, `MCPaging`, `MCInterrupts`, `MCRamdisk`, `MCConsole`, `MCPrintf`, `MCStrings`, `MCDescriptors` | the instances for TLC |

Definitions whose comment starts with `Bug:` are not part of any specification:
each is a plausible mistake in the definition that follows it, used to make sure
that the property it is paired with in `PROJECT.json` would notice.

### EarlyAlloc

The four statics are the four variables; `blocks` is a history of what the
callers received. Sums are taken modulo `WORD` (2^32). `kmalloc_early_align` is
the alignment and then the call of `kmalloc_early`, in one action because
nothing runs concurrently; when the limit check fails the alignment has already
been stored, as in the code. A request for zero bytes returns `NULL` before
anything is aligned, a request before `kmalloc_early_init` panics.

### Paging

A page is its number, a word of a table the record of its upper 20 bits and its
flags. `mem` holds the frames that are ever used as tables: the three of
`boot.asm` and the heap's, which contain junk at first. The MMU is external:
`Walk` follows CR3, `Touch` remembers every translation used, and loading CR3
forgets them all. Because the code never executes `invlpg` the TLB is the
interesting half of the MMU. A real TLB may forget entries at any time; keeping
all of them is the worst case for staleness.

All pointers the code dereferences are translated: a table is read and written
through `Translate`, never directly, so a pointer that is not mapped (or mapped
to something else) shows. `init_paging` is one action per stage and one per
iteration of its two loops; `page_map` is one operator with its ASSERTs, the
allocation of a missing table, its `memset`, the two entries and the PTE.
`kmain` goes on with the module list and the module, `ramdisk_init` with its
three allocations; `page_ident_map_range`, which has no caller yet, is offered
from the idle loop on.

Interrupts are off until the end of `kmain`, so this module is sequential; its
nondeterminism is what the boot loader leaves (`Loaders`), what unused memory
holds (`Junk`) and the arguments of `page_ident_map_range`.

### Interrupts

The CPU executes `kmain` while `stack` is empty and otherwise the handler of the
last frame. A frame records the vector, the in-service bits it set, the IF it
saved and how far its handler is: stub, dispatch, EOI, `sti`, `iret`. `sti` sets
`shadow`, which keeps interrupts out for one more instruction. All gates are
interrupt gates (0x8E), so entry clears IF.

The PICs are external: fully nested priorities with the slave on input 2,
requests that are latched once, in-service bits on both chips for a line of the
slave, non-specific EOIs that retire the highest bit, and the spurious vectors 7
and 15. `pic8259_init` is split at its initialization words, since the chips are
not usable in between. Exceptions may arrive anywhere after `load_idt`, also in
a handler; every path of `isr_exception_handler` ends in `panic`. Before
`load_idt` an exception resets the machine, which is not modelled.

`sleep` has no caller in the repository; it is allowed from the idle loop on,
where a caller would have to be. The build passes no `-O`, so its loop reads
`g_ticks` each time.

### Ramdisk

Memory is modelled by where a byte comes from. `kmain` maps the first page of
the module and no other, and the heap goes on behind it: its next page is the
root inode, allocated with `kmalloc_early_align`. The table of 64 headers takes
4868 bytes, so the headers from the 54th on are not the image's but words of
that inode (`root`), zero where `ramdisk_init` has not written them (the section
is part of the loaded image and filled with zeros). Relocating such a header
adds the module's address to a word of the inode, and the properties ask what
that does to the listing. `ramdisk_init` is one action for the directories and
one per iteration of its loop, the listing one action per call of `readdir_fs`
and `finddir_fs` and one per outcome. `dentry` is the one static result buffer.
`read` is compared with its reference in every state of the listing, for
offsets and sizes on both sides of every border.

The heap ends at `HEAP_END`, the end of the kernel and of what `init_paging` maps.
An image may be larger than what is left of the heap behind the module's address,
and the `memcpy` of a file that lies there is a page fault: `Present` is what it
needs, `kmain_page_fault` the panic of the handler. `Show` stands for the bytes
`read` puts into `buf`. `kmain` prints `buf` with `%s` and nothing terminates it, so
the text runs on to the next zero on the stack; that rest is left out.

### Console

`buff` is the memory at `VGA_ADDRESS` as far as the driver clears it, which is
more than is displayed. `lines` is a history of what was written on the rows,
with nothing about positions in it; the properties compare it with the display,
the position and the cursor. `char_process` is split into its cases. `VGA_HEIGHT` is
the number of the last row, as in `vga.h`. Nothing in the driver ends a line that
does not fit, so a text without a newline walks out of the buffer; `MaxLine` bounds
a line to what the buffer behind the last row holds, and `ConsoleTypeOK` says that
up to it every write is inside.

### Printf

`print` reads the format a character at a time; characters and arguments are
chosen when they are read, so a run covers all formats up to a length. Numbers
are words of two halves, because `va_arg` of an `int16` steps over half a slot:
`rest` is what is left of the slot. `prints` and `printi` are operators on
sequences of characters. The end of the format is an action of its own: inside
a directive the code takes the NUL for a conversion and reads on.

### Strings

One call, chosen with its operands and the contents of the memory in `Init`, and
then one action per byte, so that overlapping operands see each other's writes
in the order of the loops. `strcpy` stops before the terminator, as the code
does, and what was behind the copy stays there. `CopiesSource` says nothing of it:
its contract in `string.h`, `StringCopied`, has the run `strings_copy`.

### Descriptors

32-bit numbers are pairs of halves, so that TLC can calculate with them.
`gdt_set_entry` and `idt_set_entry` put base and limit into fields, `SegmentBase`,
`SegmentLimit`, `Accepted` and `Target` are how the processor (external) takes
them out. `gdt_set_entry` compares the address of the entry with a constant and
panics there, so the addresses of the linker are inputs. Gates that the code
does not set stay zero and lead to a general protection fault.

## 3. Runs

| Run | Asks | Result |
|---|---|---|
| `early_alloc` | every order and alignment of requests until the heap is exhausted | passes, 4193 states |
| `paging` | the whole boot for every loader, and remapping afterwards, up to the last page of memory | passes, 6044 states |
| `paging_permissions` | does `page_map` give the permissions requested? | no: flags of an earlier mapping stay |
| `paging_three_mb` | is every kernel the linker accepts mapped by `boot.asm`? | no: the table index wraps |
| `interrupts` | interrupts from boot to idle, under any interleaving; the timer is served, `sleep` returns | passes, about 390 000 states |
| `ramdisk` | is every file listed, found and read to its length, for images up to a full table and up to the heap's end; does the root inode survive | passes, 2415 states |
| `ramdisk_contents` | is what is shown of a file its contents? | no: the data is not mapped |
| `console` | display, position and cursor against the lines written, under any output | passes, 73 602 states |
| `printf` | does a number read back, is the field as wide as asked, does a conversion get its argument | passes, about 245 000 states |
| `strings` | every call on every memory, against the contracts of `string.h` but for `strcpy` | passes, 355 048 states |
| `strings_copy` | does `strcpy` copy the NULL-terminated string? | no: the terminator stays behind |
| `descriptors` | are the segments flat, does every vector arrive at its stub, for stubs on both sides of a 64 KB border | passes, 634 states |

What the less obvious properties say. `RangeMapped`: after
`page_ident_map_range` every page of the range is mapped to itself, except for a
range that ends in the last page of memory, whose end rounds up to 0 and of
which nothing is mapped. `MaskKept`: a line the BIOS left masked
never comes into service, although ICW1 opens all lines for a while. `ListingInOrder` is restricted to headers in the
mapped page and names that occur once: `finddir` takes the first of equal names,
and a file named `dev` is hidden by the directory; it also says when `kmain` may
panic (at an empty file) or fault (at a file of which a byte
that `read` copies lies behind the heap) and that a listing of `dev` is empty. `RootSurvives`: of the fields
the virtual file system uses, relocation overwrites only `read` of the root,
with more than 55 files, and nobody reads the root. `ScreenShowsLines` allows a
line longer than a row to spill into the next, until that row is written.
`NumberReadsBack` holds for the least integer too, whose negation is itself.

**Bounds.** `MCEarlyAlloc`: pages of 4 bytes, a section of two pages and three
bytes so that the limit is not a page boundary, requests of 0, 1, 3 and 6 bytes:
exact fits, misses by one, and alignments past the limit all occur.
`MCPaging`: everything is scaled by the number of entries of a table, 32 in
place of 1024, which keeps the ratios of the layout (a megabyte is a quarter of
what one table maps, the kernel starts at three quarters of the address space).
The heap has eleven pages, enough for the boot and for two more tables, and is
exhausted in the longest behaviours. Loaders put the multiboot structure inside
and above the first megabyte, and the module list on and off a page boundary.
`MCInterrupts`: lines 0, 1 and 8 (the timer, another of the master, and the first of
the slave, from which on two EOIs are sent), both spurious vectors, three BIOS masks, exceptions 0
and 14, `g_ticks` that wraps after five ticks, sleeps of one and two ticks;
`MaxDepth` bounds nested exceptions to an exception inside a handler. The other lines add
nothing but states: the safety properties are proved for every set of lines, and
line 0 waits for nothing of the others but that their handlers end.
`MCRamdisk`: the sizes of the source (a page of 4096, 64 headers of 76 bytes, a
buffer of 256), words of 2^20 values so that offset plus size wraps within TLC's
integers; every image of up to two files of 0, 3 or 300 bytes with equal names
and `dev` among them, and images of 53 to 56 and 64 files, where headers leave
the page, reach `read` of the root, and fill the table; the heap ends four pages behind
the module's first byte, and two images have a file of which the last byte read is the
last one of the heap, two one byte more. `MCConsole`: three rows
of two columns, lines of up to two rows, a column counter that wraps after four;
`scroll` moves more cells than are displayed, as its 2200 does. Nothing in the
driver depends on the number of rows beyond the last and the ones before.
`MCPrintf`: words of 8 bits, slots at the borders of the signed and unsigned
ranges, formats of up to six characters (two conversions with a modifier each,
or one with four flags or modifiers), widths up to 12. `MCStrings`: five bytes of
three values. `MCDescriptors`: all sizes real, stubs within 64 KB and across such
a border, a GDT at the address of the panic and 64 KB behind it.

**Fairness.** In `Paging`, weak fairness of the boot code: the processor goes on
executing. In `Interrupts`, weak fairness of the handlers and of `kmain` for the
same reason; weak fairness of the PIT's request, which is periodic; strong
fairness of accepting line 0, the line of highest priority, which the processor
does as soon as IF is set, though IF is cleared again and again by other
handlers; strong fairness of leaving `sleep`, whose loop runs many times per
tick, so that a condition that holds during one tick of every round is seen. In
`Ramdisk` and `Descriptors`, weak fairness of the sequential code, which runs
with interrupts off. `Console`, `Printf` and `Strings` assume none. No fairness is assumed of other devices, spurious interrupts or exceptions.

**Deadlock** is checked in every run; halting is modelled as a stuttering step
that only `hlt` loops may take.

## 4. What the checks found

* `page_map` promises the requested permissions and `page_map_pte` only adds
  flags. In the kernel as it stands every mapping is `PAGE_ENTRY_RW`, so nothing
  depends on it yet.
* The 3 MB limit in `linker.ld` and `boot.asm` is not the limit of the code: the
  kernel starts above 1 MB plus the early sections, and one table ends at 4 MB.
  With a kernel between the two limits the end of the early heap is unmapped
  until the kernel's own directory replaces the boot tables, and the wrapped
  index fills the table's first entries, which belong to other addresses.
* `kmain` maps one page of the module, and the contents of every file start at
  least 772 bytes behind it: what the listing prints of a file is the heap.
* `strcpy` does not copy the terminator, and has no return statement, against
  `string.h` ("Copy the NULL-terminated string src into dest, and return dest"). An
  empty string is copied on into what follows it. `ramdisk.c` copies into zeroed
  memory or adds the terminator itself.

The first two are about the source's own words and do not affect the kernel at
its present size, and the last one is made up for by its callers; the third one
shows in every boot with a module.

Seen while modelling, and true of the models as of the code, without a run of
their own:

* `%hd` and its like advance `va_arg` by two bytes of a slot of four; the
  conversions that follow get halves of two arguments. `ArgumentsInStep` is
  restricted to what comes before the first `h`. No caller uses `h`.
* A format that ends inside a directive (`%5`) is read past its end (`Overrun`).
* The limits of the IDT and the GDT are larger than the tables: 0xF800 for 2048
  bytes (the product is cut to 16 bits), 160 for 40. Every vector is covered.
* `print_registers` has five labels and four values on its last line: from `cs` on
  each value stands under the label of its neighbour.

## 5. Proofs

`tlapm` checks eight modules. Each has one inductive invariant (`PrintfProofs` two),
a conjunction of named parts that was checked with TLC before it was proved; the
theorems about single properties follow from it. `AllocInv` and `InterruptInv` are
properties of runs and stand in their modules, the others in the modules of the
proofs. Every safety property of the passing runs is proved.

Some of the properties are about what a loop computes for every input: where
`initrd.c` puts a file, where a string ends, the digits of a number. The library's
induction theorems have an operator as parameter, which the provers cannot
instantiate. These proofs use `WFMin` and `NatLessThanWellFounded` instead, which
speak of sets only: a nonempty set of naturals has a least element (`Least`,
`LeastElement`), from which induction over a set of numbers follows
(`CourseOfValues`, `Induction`). A recursive function is first shown to exist, by
induction over its domain; then it satisfies its defining equation.

**EarlyAllocProofs.** For every section, page size, word size and set of request
sizes that satisfies `AllocAssumption` (the section plus a page plus a request
does not wrap around 2^32, which holds for a section in the first megabytes above
0xC0000000 and for the fixed sizes of the call sites):

* `AllocInvariant`: `AllocSpec => []AllocInv`. `BlocksDisjoint` alone is not
  inductive; what makes a new block disjoint is `BumpIsFrontier`, that
  `currentBase` is past the end of every block, and `HeapIsSection`, which ties
  `maxBase` to the section. After a panic `currentBase` may lie past `maxBase`
  (the alignment is stored before the check), so the upper bound holds only
  while the kernel runs.
* `AllocTypeCorrect`, `AlignedBlocksAreFresh` follow from it.
* `AllocRefinesHeap`: every step is `Allocate`, `Fail` or a stutter of `Heap`.

**InterruptsProofs.** For every set of lines (without the cascade), masks,
exceptions, frequencies, counter width and nesting depth:

* `InterruptInvariant`: `Safety => []InterruptInv`. The properties need each
  other: `NoNesting` depends on IF being clear in handlers (`OpenWindow`), that
  depends on which frames can reach their `iret` (`FramesOK`), and an EOI
  retires the right bits only because nothing else is in service
  (`ServiceExact`). `Prepared` says how far `kmain` is, so that no interrupt
  finds the machine unready.
* `NeverNested`, `AlwaysRetired`, `AlwaysRemapped` and the action property
  `EoiIsOwn` follow from it.
* `MasksAreKept`: `MaskKept`, with `MaskRestored` (from the end of `pic8259_init`
  on the chips have the masks it found; nothing is accepted before).
* `SleepsLongEnough`: the action property `SleepNotEarly`, with `SleepCounts` (while
  `sleep` waits, `g_ticks` is the start plus the ticks that have passed, as long as
  the end lies before the wrap).

**PagingProofs.** For every size of the tables, layout, loader, contents of unused
memory and set of ranges that satisfies `PagingAssumption`, under two hypotheses.
`KernelFits`: image and heap end within what one table maps; the present kernel is
far smaller, but the linker's limit does not imply it, and without it
`BootMapsKernel` is false (run `paging_three_mb`). `RangesApart`:
`page_ident_map_range`, which has no caller, is not asked for pages of the kernel,
which it would move. Both hold on the instance of the run `paging` (an `ASSUME`
of `MCPaging`). `PagingAssumption` also says that the sizes requested of the
allocator by `paging.c`, `kernel.c` and `ramdisk.c` are among those for which
`AllocAssumption` rules out wrapping sums.

* `PagingInvariant`: `PagingInv` is the allocator's invariant, the types and six
  parts. `StageOK` ties CR3 and `kernelPagingEnabled` to how far `kmain` is.
  `BootTables` says that the tables of `boot.asm` stay as they were built, since it
  is through them that the new ones are written. `Tables`: every table of the kernel's
  directory is a heap page of its own, handed out, and the reverse mapping knows
  it, so that a write into one table changes no other. `Mapping`: what the new directory
  maps after each iteration of the two loops and of `page_ident_map_range`.
  `Cache` and `TLBCoherent`: only pages in use have been touched since CR3
  was loaded, and no page already touched is remapped; that is why the missing
  `invlpg` does no harm. None of the parts is inductive alone: the writes go
  through translations (`TLBCoherent`), the translations through tables
  (`Mapping`), and tables are kept apart by the allocator (`Tables`, `AllocInv`).
* `PagingTypes`, `NeverStale` (`TLBCoherent`), `BootMapIsRight` (`BootMapsKernel`),
  `ReverseMapIsRight` (`ReverseMapSound`), `VirtToPhysIsRight` (`VirtToPhysAgrees`),
  `ModulesStayVisible` (`ModulesVisible`) and the action property `RangeIsMapped`
  (`RangeMapped`).
* `PagingRefinesAddressSpace`: every step is a step or a stutter of `AddressSpace`;
  in particular loading the new directory moves no page in use.

**ConsoleProofs.** For every size of the display and of the memory behind it,
`ConsoleInvariant`, and from it `ConsoleTypes`, `PositionIsRight`, `DisplayIsRight`
and `CursorIsRight`. `ScreenShowsLines` is not inductive: `scroll` moves up what lies
below the display, so the invariant has `BlankBelow`, that everything below the row
being written is blank. For `ConsoleTypes` the lemma `InBuffer` shows that a line of
fewer than `MaxLine` characters on any row of the display ends inside the buffer.

**StringsProofs.** For every memory, operands and length, `StringsInvariant`, and
from it `CopiesAreRight` (`CopiesSource`) and `ResultsAreRight` (`ResultRight`). The
invariant says for each loop what its first `i` iterations have done; for `memmove`
backwards (`CopiedBack`) from the end. Of `strcpy`, whose contract does not hold, only
that its operands are strings is kept. That a string has a first terminator is
obtained from the lemma `Least`, a smallest counterexample.

**DescriptorsProofs.** For every placement of the tables and stubs,
`DescriptorsInvariant`, and from it `AlwaysFlat` (`SegmentsFlat`) and `AlwaysArrives`
(`VectorsArrive`): what `gdt_set_entry` and `idt_set_entry` take apart the processor
puts together again, and the tables hold the filled entries before they are loaded.

**RamdiskProofs.** For every image of up to 64 files, every module address and
every set of arguments of `read`, with the sizes of the source (a page of 4096
bytes, 64 headers of 76 bytes: which headers are mapped and which word of the inode
each of the others hits is arithmetic on these numbers). `ImagesFit` assumes that the
image lies in memory below 2^32, so that no relocated offset wraps. Nothing is
assumed of its size against the heap's.

* `RamdiskInvariant`: `NodesMade` and `HeadersHeld` say how far the loop of
  `ramdisk_init` has come, `RootHeld` what the writes through unmapped headers have
  done to the root inode (words 1, 20, 39, 58 and so on, of which only 39, `read`, is
  among the ones the file system uses), `ListingMade` where the loop of `kmain` is.
  `ListingInOrder` is not inductive: that the panic happens at an empty file needs,
  when names occur twice, that the first file of a name which `kmain` has passed was
  not empty; that the page fault happens at a file behind the heap needs the same of
  where the first one lies.
* `RamdiskTypes`, `ListingIsRight` (`ListingInOrder`), `FilesStayApart` (`FilesApart`),
  `RootIsSpared` (`RootSurvives`), `ReadsStayWithin` (`ReadWithinFile`).
* The offsets of `image` are a recursive function. `StartsExist` shows, with `Least`,
  that a function with its defining equation exists, `StartsGrow` that it increases.

**PrintfProofs.** For every format, all arguments, flags and widths, and every size of
the words. `PrintfAssumption` says that a half has more than one value and that a
pointer other than NULL leads to a string.

* `ArgumentsStayInStep` (`ArgumentsInStep`): as long as no `h` was seen nothing is
  left over of a slot (`SlotsConsumed`), and a word is the sum of its halves.
* `NumbersReadBack` (`NumberReadsBack`) and `FieldsAreWide` (`FieldWidth`), from
  `PrintfInv`. Both are about the conversion that was just made; what makes them
  inductive is that the next conversion finds a natural width and at most one half of
  a slot left over (`RestOK`), so that `va_arg` yields a word also after an `h`
  (`Loads`). The work is in `PrintiShows`, about `printi` alone. Its parts: the
  digits written by the loop have as many places as the number needs
  (`NumeralLength`) and read back as the number (`NumeralReads`), both by induction
  over the quotients; `prints` puts only fill characters before a string and only
  spaces behind it (`PrintsLayout`), neither of which changes the value read
  (`BlanksReadAsZero`, `BlanksKeepValue`); the sign stands before the zeros or
  before the digits (`SignsInFront`, `SignsInside`); and `-num` is the magnitude of
  every negative word, the least one included (`MagnitudeShown`).
* `NumeralsFit`: a number below `base^d` has at most `d` digits. With words of 32 bits
  these are ten in base 10 and eight in base 16, so that digits, sign and NUL stay
  inside the 65 bytes of `buffer` in `printi`.

Only model-checked: liveness (`BootEnds`, `TimerServed`, `SleepReturns`, `ListingEnds`,
`TablesLoaded`), which needs fairness and is out of the prover's reach.

## 6. Not modelled

* Port I/O: single `in` and `out` instructions, modelled at their callers.
* `sprintf` and `vsprintf`: not declared in a header, never called, and equal to
  the others but for `outchar`. The newline of `k_printfln`.
* Colours of the console, the texts of messages (the exception report among
  them), logging.
* `write_fs`, `open_fs`, `close_fs`: declared, not defined.
* The message of vector 128, for which `exception_messages` has no entry: no
  instruction of the kernel raises it.
* Requests to the allocator close to 2^32 (`alloc.c:41`): the sum wraps and passes
  the limit check. The call sites ask for fixed sizes, and `AllocAssumption`
  excludes the case.
* What `%s` prints of `buf` behind the bytes read, the rest of `kmain`'s stack.
* The PIT beyond its periodic request; an exception before `load_idt`, which
  resets the machine.

## 7. Plan

Done: `EarlyAlloc` with `Heap`, `Paging` with `AddressSpace`, `Interrupts`,
`Ramdisk`, `Console`, `Printf`, `Strings` and `Descriptors`; the proofs of all their
safety properties.

Left:

1. A composition of memory and interrupts, in which the exceptions of
   `Interrupts` are the page faults of `Paging`. Nothing maps memory once
   interrupts are on, so little is expected of it.
