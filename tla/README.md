# A TLA+ model of Linux2.4Mechanisms

The program is the boot part of Linux 2.4, cut down to what one processor
needs from the multiboot entry to the end of `mem_init`. It is C with interrupts
never enabled and spin locks that are empty; `start_kernel` is the only thread.
So what is hard here is seldom a race. It is state kept in two places that must
agree (a bitmap and a list, a cached mask and a chip), arithmetic at the borders
of pages, zones and tables, calls whose order is a convention nobody checks, and
memory that changes owner four times before it is free.

Contents: [the system](#the-system) · [the modules](#the-modules) ·
[the runs](#the-runs) · [the proofs](#the-proofs) ·
[findings](#findings) · [not modelled](#not-modelled) · [plan](#plan)

## The system

`start_kernel` (`init/main.c:77-106`) calls, in this order, `setup_arch`,
`trap_init`, `init_IRQ`, `sched_init`, `time_init`, `softirq_init`,
`kmem_cache_init`, `mem_init`, and then loops for ever. `BUG()`
(`include/asm-i386/page.h:35`) prints and executes `ud2`: the machine stops.

| component | state | operations | interacts with | what is hard | what makes it correct |
|---|---|---|---|---|---|
| Memory map (`setup.c:48-165`) | `e820.map`, `nr_map` | `add_memory_region`, `copy_multiboot_mmap`, `setup_memory_region` | read by everything below | the 640K-1M hole, 64-bit wrap-around, a full table, falling back after a partial copy | no RAM in the hole; all other RAM kept; nothing listed twice that was not |
| Boot allocator (`bootmem.c`) | a bit per page, `last_pos`, `last_offset` | `init/free/reserve_bootmem`, `__alloc_bootmem`, `free_all_bootmem` | called by `setup_arch`, `paging_init`, `free_area_init`; feeds the buddy system | small allocations share a page that is already marked; the scan restarts; a failed scan falls back on page 0 | allocations are disjoint, aligned, in free RAM; the bitmap marks exactly what is used |
| Page tables (`init.c:36-198`, `head.S:66-82,204-218`) | `swapper_pg_dir` and its tables; the TLB | `pagetable_init`, `fixrange_init`, `zap_low_mappings` | allocates from bootmem; the kernel runs on them | a live entry is replaced by an empty table before it is filled; stale translations | what the kernel touches is always mapped; the direct mapping is exact; null pointers fault |
| Zones (`page_alloc.c:68-271`) | `mem_map`, `zone_t`, zone lists, watermarks | `free_area_init_core`, `build_zonelists` | allocates from bootmem | switch that falls through, empty zones | each page is in one zone; every list names the non-empty zones that fit, in falling order |
| Buddy system (`page_alloc.c:274-412`) | a free list and a bitmap per order, `free_pages` | `__free_pages`, `__free_pages_ok`, `nr_free_pages` | called by `free_all_bootmem` | one bit stands for two blocks; ragged end of the zone; the top order has no buddy | lists, bits and counter agree; no page free twice; blocks as large as can be |
| Handing over memory (`setup.c:309-492`, `init.c:132-244`, `bootmem.c:281`) | where `start_kernel` is | the calls above in their order | joins the four above | the same page passes from BIOS to bootmem to an owner or to the buddy system | nothing owned is released, nothing released twice, nothing lost |
| Resources (`resource.c`, `setup.c:224-297,446-491`) | two trees of `struct resource` | `request_resource`, `probe_roms` | resources come from bootmem | failures are ignored; `MAXROMS` slots; children of a resource that was never inserted | siblings sorted and disjoint, children inside parents |
| Interrupt controller (`i8259.c`) | `cached_irq_mask`, the chips' mask and in-service registers | `init_8259A`, enable, disable, `mask_and_ack_8259A` | `setup_irq`, `time_init` | mask cached in memory and in two chips; spurious interrupts | cache equals hardware; every real interrupt gets its EOI |
| Interrupt descriptors (`irq.c`) | `irq_desc[]` | `setup_irq` | starts lines on the 8259A | sharing | an enabled line has an action |
| Log (`printk.c`) | `log_buf` ring, `msg_level` | `printk` | serial line (`print_str`) | wrap-around; a line's level outlives the call | the ring holds the last bytes written |
| Serial console (`serial.c`) | the UART's registers | `serial_console_write` | not called | time-out while waiting for the transmitter | always ends, restores the enable register; bytes go out once, in order, and are lost only where a wait was given up |
| Slab (`slab.c`) | `cache_cache` | `kmem_cache_estimate`, `kmem_cache_init` | - | arithmetic of objects and descriptors per slab | what is counted fits |
| Traps (`traps.c`, `head.S:133-147`, `hw_irq.h`, `i8259.c:172-206`) | `idt_table` | `setup_idt`, `trap_init`, `set_intr_gate` | gates lead to the stubs of the lines, which call `do_IRQ` | three writers of one table; the gate of system calls lies among those of the lines | an interrupt reaches the stub of its line; user mode may use four gates |
| Timers, softirqs, scheduler, delay (`timer.c`, `softirq.c`, `sched.c`, `delay.c`, `main.c:33`) | tables filled once | `*_init`, `calibrate_delay` (not called) | - | `calibrate_delay` spins on `jiffies` | - |
| Formatting (`vsprintf.c`, `string.c`, `div64.h`) | position in the format and in the arguments | `vsprintf`, `number`, `skip_atoi` | called by `printk` | flags, width, precision and qualifier interact; one counter pads in three places; numbers at the borders of their types | the text is what the format means; no character or argument is skipped or taken twice |
| headers, assembly, linker script | - | - | - | - | - |

## The modules

| module | models | role |
|---|---|---|
| `PagePool` | what the page allocator promises | abstract specification |
| `Buddy` | `__free_pages`, `__free_pages_ok` and the state of a zone | one zone of the buddy system |
| `Bootmem` | `mm/bootmem.c` up to `free_all_bootmem` | the boot allocator |
| `E820Table` | `struct e820map` | the table that the next two share |
| `E820` | `setup_memory_region` and what it calls | fills the table |
| `MemInit` | `setup_arch`, `paging_init`, `free_area_init_core`, `mem_init`, `free_all_bootmem_core` | reads the table; composes `Bootmem` and `Buddy` |
| `BootMemory` | `setup_arch` with its call of `setup_memory_region` | composes `E820` and `MemInit` |
| `ResourceClaims` | what `request_resource` promises | abstract specification |
| `Resource` | `kernel/resource.c` | a tree of resources |
| `SetupResources` | `probe_roms` and the last third of `setup_arch` | composes a `Resource` |
| `Zones` | `free_area_init_core`, `build_zonelists` without the bitmaps | zones and their lists |
| `Paging` | `paging_init`, `zap_low_mappings` | page tables; composes `Zones` |
| `Traps` | `setup_idt`, `trap_init`, the gates of `init_IRQ` | the descriptor table |
| `I8259A` | `i8259.c`, `irq.c`, `time_init` | the interrupt controllers and the lines' descriptors; composes `Traps` |
| `KernelLog`, `LogMarks` | what `printk` promises of the log | abstract specification |
| `Printk` | `kernel/printk.c` | the log |
| `Vsprintf` | `vsprintf.c` with `do_div` and `strnlen` | formatting |
| `Serial` | `driver/char/serial.c` | the serial console |
| `BuddyProofs`, `BootmemProofs`, `MemInitProofs`, `ResourceProofs`, `SetupResourcesProofs`, `I8259AProofs`, `PagingProofs`, `PrintkProofs` | - | theorems about the module each is named after; `PagingProofs` also about `Zones` and `E820`, `PrintkProofs` about `Serial` and `Vsprintf` |
| `MCBuddy`, `MCBootmem`, `MCBootMemory`, `MCMemInit`, `MCResource`, `MCSetupResources`, `MCI8259A`, `MCPrintk`, `MCVsprintf`, `MCPaging`, `MCSerial` | - | instances for TLC |

`PROJECT.json` gives for every definition the lines it stands for. Definitions
whose comment begins with *Fault* are not part of a model: each is a slip the code
could have, and stands just before the definition it distorts, so that one can see
that a property is able to fail.

**Buddy.** A block of order `o` is written by its number `b`, the page index
divided by the size of the block. Then `page_idx ^ -mask` is the other block of the
pair, and `page_idx >> (1 + order)`, the index of the pair's bit, is `b \div 2`.
`BlockSize[o]` is `1 << o`. `FreePages` is `__free_pages` and the entry of
`__free_pages_ok` as far as the loop; each turn of the loop is a step: `Merge` if
`test_and_change_bit` finds a one, `StopAtBuddyInUse` if it finds a zero,
`StopAtTopOrder` if the loop's condition ends it. The last two include
`memlist_add_head` and the update of `memory_pressure`. `PreparePage` is
what the caller does first (`ClearPageReserved`, `set_page_count`). The auxiliary
variable `held` remembers the pages nobody has released yet, to say what a caller of
a block of several pages vouches for. Nothing in this kernel allocates
pages yet (`__alloc_pages` is absent from `src`), so blocks are only merged.
The entry checks of flags that no code sets (`page_alloc.c:292-323`) are left out,
but for `VALID_PAGE`. That a page index is a multiple of its block's size (`334`)
is the representation.

**Bootmem.** One step per call: the calls are straight-line code in one thread.
`node_bootmem_map` is the set of pages whose bit is 1. `StartPage` is the scan with
its goal and its restart; `Placement` is the merge of `199-228`.
An allocation that finds nothing runs on with `start = 0` as in the
code, and ends in the `BUG()` of line 234 because page 0 is marked. `ram`,
`taken` and `allocs` are auxiliary. The order of calls in `Next` is that of
`setup_arch`: frees, then reservations (page 0 always), then allocations. A
`free_bootmem` after an allocation would leave `last_pos` and `last_offset` stale;
no code in `src` does that.

**E820.** One step per entry of the multiboot map. `unsigned long long`
arithmetic is modulo `ULLMax`. A bad entry leaves the table half filled until
`FallBack` resets it.

**BootMemory.** First `setup_memory_region` runs, while nobody has any memory, then
`MemInit` on the table that it left. What is read of the boot loader's map is thus followed as far as
the free lists: a page that an error in the table adds or drops shows in who owns it.
The machine's size is a constant, so maps that yield another stop there.

**MemInit.** `at` and `i` say which call the thread is in and the counter of its
loop. Every step that touches an allocator is an action of the `Bootmem` or `Buddy`
instance. Each of these has guards that the code does not have, as they say what its
callers see to. `BootSpec` says that the calls of the boot allocator come in an order and with
arguments that `Bootmem` assumes. Of the zone's guards the same is not a
property: a release that broke one would be no step, and the boot would end there, so what says
that none is broken is `BootFinishes`, and for all sizes `NeverReleasedTwice`. `BitmapsFit` relates
two formulas of `page_alloc.c`: the size of an order's bitmap (`242-260`; a comment there says it is
not known what comes of rounding a size that has been rounded) and the places of the bits that
`__free_pages_ok` changes without a look at that size. The bitmap's last use is in the step to `"done"`,
after which the code sets it to `NULL`. `mem_map` and the zone exist from
`free_area_init` on; the model has them from the start in the state that
`free_area_init_core` gives them, and nothing looks at them before. The machine has
less than 16 MB, so there is one zone and the goal of `alloc_bootmem_node` lies
past the end of memory.

**Resource.** `tmp` and `p` of `__request_resource` are `tmp` and `prev`: `p` is
`&root->child` while `prev` is `NULL`, then `&prev->sibling`. Each turn of the loop is
a step: `Insert`, `Advance` or `Refuse`. `Request` and `Describe` are what the code does, whoever
calls. `Next` is a caller that the lists can rely on: it describes no resource that is in the tree
(`Loose`), and requests one again only where it is out of range (`MayRequest`). The code checks neither.
`SetupResources` calls `Request` and `Describe` without these conditions.

**SetupResources.** `at` and `i` say what the thread is about to do. What is in the
ROMs is abstracted to a length and a checksum for each address where one may begin.
`rom_resources` is `Rom(0)`, `Rom(1)`, ...; the slots of extensions get their range when one is
found. Any map is allowed. `setup_arch` requests the kernel's code and data in each RAM entry, whether the
tree took the entry or not (`setup.c:474-483`). An empty entry at address 0, which
`setup.c:160` makes when there is no low memory, becomes a resource of all addresses, since
`start + size - 1` wraps around; the root refuses it because of the system ROM, and then it is given
the code and the data. If the right entry comes behind it, the request there links them a
second time, over the pointers of the first; if it came before, they are taken away from it.
`KernelListed` says what remains: the right entry has both in its list, in order, and their `parent` may
name the other, which is in no tree. (Nothing in this repository reads `parent`; `release_resource` of later
versions would.) Two RAM entries that both hold the code, of which only
one holds the data, are in the instance too; there `RootsInOrder` still holds, as the kernel is never requested in a root.

**I8259A.** Registers are sets of lines; `cached_21` and `cached_A1` are the parts of
`cached_irq_mask` that belong to a chip. The functions hold `i8259A_lock` with
interrupts off, and a request that comes up meanwhile shows at the next interrupt only: each
function is one step, `setup_irq` with the `startup` it calls included. The chips are modelled
as far as the driver can tell: requests may be withdrawn up to the moment the chip
is asked for its vector, and then it answers with its last line and nothing in
service. `src` does not turn interrupts on yet (`main.c:96`) and `do_IRQ` is a stub, so who
calls `ack` and `end` is external: `Handle`, `Skip` and `Finish` do what the flags of
`irq.h` and the check in `end_8259A_irq` suppose. The counter and the message of
spurious interrupts are left out: nothing reads the one, and both branches go on with
`handle_real_irq`. Also left out is the mode with automatic EOI (`init_8259A` is only called with
0). Drivers give `setup_irq` an action that is in no list; the code does not check it.

**Traps** (part of `I8259A`). The thread goes through `setup_idt`, `trap_init`,
`init_ISA_irqs`, the loop of `init_IRQ` and the two `setup_irq`. A gate is its type,
level and handler. The handlers of exceptions are `NULL` in this kernel, and so is
`interrupt[i]` from 16 on: `init_IRQ` thereby puts `NULL` where `setup_idt` had put
`ignore_int`, in all gates from 0x30 to 0xFF but 0x80. In the instance an interrupt
never comes by one of those, as no chip has the line.

**Zones, Paging.** A virtual page `v` has the directory entry `v \div PTRS_PER_PTE`;
an entry of either level is a page and whether user mode may pass. Every turn of the
loops of `pagetable_init` is a step, and so is each entry of `zap_low_mappings`. `tlb`
is the processor's: a step that touches pages leaves their translations there, while
all others may go at any time or stay until a flush (`Access`). `Accessed` names what the next
step touches: the code and stack, the directory, the bitmap and the new table while it is
allocated and cleared, the table that is filled. The tables that `alloc_bootmem_low_pages` gives
lie in the first two boot tables' reach (`PagingAssumption`): `Bootmem` takes the lowest free page,
and the code has no other way to clear it. Between the replacement of an entry in use
and the filling of the new table's entries the kernel lives on the translations that
the step before left in the TLB; `KernelReachable` says that this is enough as long as nothing is
flushed in between and a translation lives for the two steps it is in use. A processor that drops the
translation of the code it executes would fault; Linux 2.4 makes the same assumption.
The comment at `init.c:129-131` says that `paging_init` also unmaps virtual page 0;
it does not, `zap_low_mappings` does so at the end of `mem_init`, which is what `MappingExact` asks for.
`Stray` is any reference through a null pointer before that. `__end_of_fixed_addresses`
is 0, so `fixrange_init` makes one table, for the last directory entry. `InitZone` is a turn of
the loop of `free_area_init_core` but for the bitmaps, which `MemInit` allocates; the zone of
high memory is always empty here.

**Vsprintf.** What is asked for is a list of items, each a character or a conversion
with its parts; `FormatOf` and `ArgumentsOf` write it down (`%n` has an argument too, the pointer to store through),
`Meaning` says what text it stands for, and `TextOf` says where `vsprintf` makes another one of it.
`vsprintf` sees only the characters and the arguments. Each phase of its loop is an action. `number` is
modelled with the counter `size` that its three padding loops share, with `do_div` in its
two steps, and with the digits that the division yields last first; `Meaning` computes
the same text from widths and digits by arithmetic. Widths and precisions lie within a quarter of
an `int` (`Amounts`): `int` arithmetic does not overflow then, and no field beyond fits in this
machine's memory. `skip_atoi` and the digits of `number` are recursive functions. `Meaning` is what
the comments of `vsprintf.c` say, and where they say nothing what the code does, also where it
departs from the C library: `+` and blank only for signed conversions, `#` gives a zero its prefix, a number
with precision 0 still shows its 0, `0` is not ignored with a precision. `TextOf` is `Meaning` but for a
string with a negative precision, of which nothing is shown (finding 3). `%lld` is two items, `%l`,
which is unknown, and the text `d` (finding 4). What the comments at 234-243 say of `t`, `j`, `L` and floating point is that of
the C library's manual; `vsprintf` has no floating point, takes `L` for a `long long`, and does not know `t` and `j`.

**Serial.** One step per access to the UART. The UART has a holding and a shift
register, and a byte written over another replaces it. `broken` and `forced` are auxiliary: a break
came in; a wait was given up. The driver's interrupt may come at any moment at which the
enable register lets it, also between the read and the write of `serial.c:122-123`.

**Printk.** Characters are strings, a newline is `"newline"`, a level is its
digit. `p` and `buf_end` are indices of `buf`, as the mark of the default level is
written in place in front of the line (`53-56`), over what has been copied. `Format` is
`vsprintf` into `buf`; what earlier, longer messages left behind the new text stays there.
In `Log` the text still to come is that from `p` on with its marks, so the refinement
says that writing marks in place loses nothing. What `print_str` shows is left out: it
stands in for the consoles that are commented out. (It shows a message of two lines
once whole and then its second line again; no caller has one.)

## The runs

| run | instance | shows |
|---|---|---|
| `buddy` | a zone of 7 pages at offset 4, three orders, one stale put per page; blocks of all orders are released in every order | bits, lists and counter agree; no block lies outside the zone, none overlaps; merging is never missed; refines `PagePool` |
| `bootmem` | 6 pages of 4 bytes, up to 6 allocations below, at and above page size | allocations disjoint, aligned, in free RAM; bitmap exact; tail unused; a request for something fails only when there is no room |
| `boot_memory` | 23 pages of 8 bytes, a hole in bytes 17-23; 43 multiboot maps of up to 6 entries, with RAM that ends before, in and behind the hole, holes in the RAM in various places, RAM past the limit, RAM listed twice, a full table, and maps that are of no use at once or from an entry on | no RAM in the hole, none lost or new; who owns what page; all is released; the numbers add up; no bitmap is too small; the boot ends |
| `resource` | 4 resources over 3 addresses, ranges of 1 and 2 that may wrap around, requested within each other | the list is sorted; refines `ResourceClaims` |
| `setup_resources` | 32 addresses, 4 ROM slots, every set of ROMs at 5 addresses with 4 kinds of contents, 9 memory maps with overlaps, empty RAM at 0, in the middle and at the end, and two RAM entries with the code | the table's bound; kernel and extensions listed; the roots' lists sorted |
| `i8259a` | two chips of 3 lines, two drivers that share on any line, besides timer and cascade; more vectors than lines | cache and chips agree; all is ended; nothing runs twice; open lines have handlers; gates lead where they should |
| `printk` | a ring of 6, counters modulo 12, 9 messages in any order | the marked text is in the ring; each call returns |
| `vsprintf` | `short` of 3 bits, `int` of 6, `long long` of 12; 32 sets of flags, 6 widths, 6 precisions, 5 qualifiers, 13 numbers, `%n`, formats of one to three items | the text is right, no character or argument is lost |
| `vsprintf_comments` | the format `%.*s%lld` with -1, `"ab"` and 5 | violation, see findings |
| `paging` | 8 directory entries, tables of 8, DMA up to page 12; 14 machines of one to five tables that end inside and at the end of a table and of that zone, with and without the first pages taken | the kernel never loses a page it touches; the mapping is exact; zones and lists |
| `serial` | 3 polls, texts of up to 3 bytes with line feeds in all places, a driver that sends | bytes once and in order; the call returns |
| `boot_leak` | 33 pages of 4 bytes, 8 bitmap bits to a byte | violation, see findings |

Why the bounds are enough. In `buddy` the interesting cases are a pair that
merges through all orders, a pair cut by the end of the zone (page 6 has no buddy),
a block of the top order (which has no bit), and a put of a page that is free
already; with three orders every branch of the loop is taken at the bottom, middle and top.
In `bootmem` a request is smaller than, equal to and larger than the tail that is
left, with and without pages free behind it, and holes and reservations cut
pages in two. `boot_memory` is deterministic after the choice of the map, so the maps
are what matters: entries begin and end below, in, above and at the borders of the hole, one is split
when the table is full, one wraps around after others have been copied, and there are holes
before, in and behind each allocation and ends inside a page.
In `resource` a list of two or three has a place before, between and behind, ranges that touch,
overlap and contain each other, and an improper range (one that wraps around). In
`setup_resources` there are more ROMs than slots, extensions that overlap the next, the
mainboard's or the system's ROM, and RAM entries that are refused, split, empty, or past the last
address, before and behind the one that holds the kernel. In `i8259a` each chip has a line above, at and below the one that matters (the cascade,
the line of spurious interrupts), and handlers nest to the full depth. In `printk` messages
end in a line, go on, have marks at the start, after a newline or cut off; the ring and the counters wrap
around without bound, as the state space is finite. In `vsprintf` each flag
meets each other with widths and precisions below, at and above what the number needs, all
qualifiers meet numbers at both borders of their types, and a conversion that goes wrong shows in the one
behind it. In `paging` the directory has entries in use, free ones that are needed, and free ones
that are not. In `serial` the number of polls is smaller and larger than the UART's need.

`CHECK_DEADLOCK FALSE` stands in every configuration: `start_kernel` ends in an empty
loop and `BUG()` stops the machine.

**Fairness.** `BootMemorySpec` assumes weak fairness of the next step. The code is one
thread with interrupts off that waits for nothing, so it takes its next step. Only
`BootFinishes` depends on it.
`Printk!FairSpec` assumes it of the steps of a call in progress only, not that
anybody calls: `CallReturns` depends on it. `I8259A` assumes none: lines with low
priority may starve. `SerialSpec` assumes weak fairness of the processor's own steps, which run with
nothing to wait for but a counter, and none of the UART's: `WriteReturns` holds with a UART that is dead.

## The proofs

TLAPS checks every theorem below, for all values of the constants that meet the named
assumptions. These are about constants only, and TLC evaluates them in every run.

| theorem | states | in |
|---|---|---|
| `TypeCorrect`, `NeverBug`, `BitmapCorrect`, `NoPageTwice`, `CountExact`, `ListsAreLargest` | `TypeOK`, `NoBug`, `BitTellsPairState`, `BlocksDisjoint`, `FreePagesExact`, `LargestBlocks` | `BuddyProofs` |
| `ImplementsPool` | `Spec => PoolSpec`: the lists and bits implement a pool of pages | `BuddyProofs` |
| `NoByteTwice`, `OnlyFreeRam`, `MapExactAlways`, `TailFree`, `FailsOnlyIfFull` | `AllocsDisjoint`, `AllocsInFreeRam`, `MapExact`, `TailUnused`, `FailsOnlyWhenFull` | `BootmemProofs` |
| `UsesBootAllocator` | `Spec => BootSpec`: the calls of the boot are ones that `Bootmem` assumes | `MemInitProofs` |
| `BitsStayInside` | `BitmapsFit` | `MemInitProofs` |
| `OwnersKeepTheirs`, `RamAccounted`, `AllReleased` | `PoolNeverOwned`, `MemoryAccounted`, `RestReleased` | `MemInitProofs` |
| `NeverReleasedTwice` | `StillHeld`: a page that is due has not been released before | `MemInitProofs` |
| `SiblingsSorted`, `ImplementsClaims` | `SiblingsInOrder`, `Spec => ClaimsSpec` | `ResourceProofs` |
| `KernelIsListed`, `ExtensionsAreListed`, `RootsStayInOrder` | `KernelListed`, `ExtensionsListed`, `RootsInOrder` | `SetupResourcesProofs` |
| `AgreeAlways`, `EndsAlways`, `OnceAlways`, `ServedAlways`, `GatesAlways` | `MasksAgree`, `ServiceEnds`, `HandledOnce`, `OpenLinesServed`, `GatesRight` | `I8259AProofs` |
| `KernelStaysMapped`, `MappingIsExact`, `ZonesAreRight` | `KernelReachable`, `MappingExact`, `ZonesRight` | `PagingProofs` |
| `HoleIsKept`, `MapIsCopied`, `StaysDisjoint`, `MapStaysGood` | `NoRamInHole`, `RamKnown`, `KeepsDisjoint`, `GoodMap` | `PagingProofs` |
| `LinesAreMarked`, `ImplementsLog` | `LinesMarked`, `Spec => LogSpec` | `PrintkProofs` |
| `ConsoleIsExact` | `ConsoleExact` | `PrintkProofs` |
| `TextIsRight` | `TextRight` | `PrintkProofs` |
| `ReadsWithin` | `StaysWithin`: at every step, also within a conversion, the position is in the format or at its NUL, and an argument that is taken is there and of the right type | `PrintkProofs` |
| `NumberRight`, `TmpIs`, `NumberRead`, `DoDiv` | what `number`, its loop over the digits, `skip_atoi` and `do_div` compute, for all their arguments | `PrintkProofs` |

Facts about quotients and multiples are stated where they are used, at the head of each module.

**Buddy.** Assumed: `OrderAssumption` (there is an order; callers use orders there are),
`BlockSizeAssumption` (`BlockSize[o]` doubles with each order and
`BlockSize[i + j] = BlockSize[i] * BlockSize[j]`, which is what powers of two do; it
is assumed since deriving it takes induction), `ZoneAssumption` (the zone is not
empty and ends below `max_mapnr`).
The inductive invariant `IInv` is `TypeOK`, `NoBug`, `BitTellsPairState` and
`BlocksDisjoint` with three facts they need: a free block lies in the zone
(`BlocksInZone`), a page that nobody has released is in no free block (`HeldApart`),
and a released page that is not reserved has a count of 0 or less (`PutOnce`). Without the
last a stale put could release a page a second time; without the first a merge could
reach past the zone's end. `NoBug` rests on the bit: a one means that the buddy is
listed, since the moving block is not, and a listed block is in the zone.
`LargestBlocks` has a further invariant (`Canonical`) that says what the loop has
established about the moving block so far. `CountExact` and `ImplementsPool` come from the
same step: a put adds a block none of whose pages were free, a merge and a listing
leave the set of free pages as it is.

**Bootmem.** Assumed (`BootmemAssumption`): pages and the node are not empty, and an
alignment divides the page size or is a multiple of it. Neither `AllocsDisjoint` nor `MapExact`
is inductive: an allocation may begin in a page whose bit is set already. `IInv` adds `Tail`: if
`last_offset` is not 0, `last_pos` is a page of an allocation, and no allocation reaches
into its bytes from `last_offset` on. `MapExact` then shows that whole pages are
disjoint, `Tail` that the shared one is. `FailsOnlyIfFull` needs no invariant but that page
0 is marked, since a scan from a goal that finds nothing is repeated from the start. The scan counts pages by the alignment
rounded down to pages, and what has to be proved is that no aligned place lies between its steps
(the lemmas about multiples at the head of `BootmemProofs`). It is stated of
requests for something: an empty request takes no page, yet the scan wants a clear bit.

**E820.** Assumed (`E820Assumption`): room for two entries, `LOWMEMSIZE` below the hole, the
hole below the end of the address space, and what the boot loader says of upper memory fits in
it. `Copied` says how far the copy has come: all entries up to `nr` end below `ULLMax`, and the
RAM in `e820` is that of these entries outside the hole, or part of it if the table is full.
`FellBack` says what stands in the table after a bad entry. `KeepsDisjoint` is inductive with them.

The definitions of `E820` have names of their own (`MapSpec`, `mapVars`), as `PagingProofs` extends
it beside `Paging`.

**MemInit.** Assumed (`MemInitAssumption`): sizes are not 0, the kernel lies above
`HIGH_MEMORY`, a cache line divides a page, a map has at most `E820MAX` entries, and the pages of the
bitmap lie in RAM, which `setup_arch` takes for granted and never checks; and `OrderSizes`, which is
`BlockSizeAssumption` of `Buddy`. `IInv` is the invariants of both allocators with what the
thread has done: `Reservations` says which pages are reserved at each call, `Budget` how many
allocations have been made (so that they stay within what `Bootmem` counts), `RamOnly` that all RAM
handed over is below the limit, `Pools` which pages the loops have released up to `i`, `Flags` which
pages are reserved still, and `Counted` what the counters say. A step keeps the allocators' parts by the
lemmas of `BootmemProofs` and `BuddyProofs`, since it is one of theirs: this is shown for each call
from its place in the boot, and for the boot allocator is what `UsesBootAllocator` states.
That no page is both owned and free follows from `Pools`: only pages with a clear bit are
released, and then those of the bitmap, which nobody is told of after. `AllReleased` is proved with the
hypothesis `BitmapPages = PFN_UP(bootmap_size)`, that the two formulas for the bitmap's size agree;
where they do not, finding 1 shows what is lost. A guard of the zone that is false would
stop the model and hide an error; `NeverReleasedTwice` shows that it never is: the page that
is due is still held. `BitsStayInside` needs of the zone only that its blocks and bits lie in
it (`TypeOK`, `BlocksInZone`): the pair of the last block then has a bit below the size that was rounded up.

**Resource.** Assumed (`ResourceAssumption`): the types of the constants. `__request_resource`
compares a new range with two neighbours only. That the others are no conflict rests on two parts of
`IInv`: the children of a resource are proper, disjoint ranges (`ChildrenApart`) and their list
is sorted (`SiblingsInOrder`). `Call` says of the walk that everything up to `prev` ends before the new range
starts, and that what is asked for is in no list unless it will be refused. The refinement
maps an answer to the step that links or refuses.

**SetupResources.** Assumed (`SetupAssumption`): three slots at least (the first two are the system's and the
video ROM; that two would be too few the proof has found), static ranges that are proper and lie where
`setup.c` puts them, the code before the data, and that maps have at most `MaxEntries` entries, natural numbers of any value.
The code and the data are requested while they are in a list, which `ResourceProofs` excludes, and some requests do take them
from one list to another. But they never come into a root's. So the proof looks at the tree without
them and without the requests for them (`outParent`, `outChild`, `outSibling`, `outPc`): that one is a `Resource`
as `ResourceProofs` has it, whose invariant is carried over step by step (`OuterSteps`). What the callers must see to, that nothing is
described or requested while it is in the tree, is shown for each call (`DescribedLoose`, `AskedLoose`); since the model has no such guard, a call
that broke it would have to be proved harmless. `SInv` says
what may hang on what (`Requests`), which ranges the resources have (`Ranges`), which slots are taken (`Slots`), and of each
request that it is in the tree, was refused because its range is improper or overlaps one
that is, or is under way (`RomClaims`, `EntryClaims`). `KInv` says where the code and the data are: each entry that has taken
them lists them, the code first (`Lists`); their parent is the last of those (`Owners`); the data follows the code except while both are linked anew
(`Follows`, `Half`), provided that no entry takes only one of them (`Whole`). The walk in an entry's list meets nothing but the code
(`WalkInEntry`). From these
`KernelListed`, `ExtensionsListed` and `RootsInOrder` follow.

**I8259A.** Assumed: `I8259AAssumption` (a chip has lines; the cascade and the timer are two
lines of the master; the lines' gates end below that of the system calls) and `TrapsAssumption` (the
gates of the lines fit in the table, behind those of the exceptions). `IInv` ties the invariants
together: the line of a handler stays masked because of the flags of the line (`LineStates`), the flags are what
they are because of its list of actions, and the cascade stays open (`CascadeOpen`) because the
processor never gets the cascade's vector (the slave answers instead), so that no handler masks it. `Gates` follows the table
through its three writers.

**Paging.** Assumed (`PagingAssumption`): the kernel is in RAM and in reach of the two boot
tables, which are different pages; the directory has room for the direct mapping between user space and
the fixed addresses; and the boot mapping reaches enough free pages to hold all the
tables. `IInv` says of each directory entry whether it is still the boot's, an own new table's, or gone, and of
the table in work that it is filled up to `k` (`DirectMapping`, `FixedMapping`, `LowMapping`); that no
two entries share a table (`TablesApart`); that the free pages in reach are as many as the
tables still needed (`Thread`); and that the TLB holds no wrong translation of a kernel address and all those
that are needed while a table is filled (`Tlb`).

**Zones.** Its assumptions are those of `Paging`. `ZonesInv` follows the loops: the
sizes are those of the two parts of memory (`SizesSet`), each page that has been initialised has the
zone of its number and its address in `mem_map` (`PagesMapped`), the watermarks of all memory are the
sums over the zones (`MarksSummed`), and each list that `build_zonelists` has left
holds the zones that fit in falling order (`ListsBuilt`).

**Printk.** Assumed (`PrintkAssumption`): the counters' range is a multiple of the ring's size, as for
powers of two, and a message and its mark fit in `buf`, which nothing in the code
ensures (the hazard at `printk.c:42`). `IInv` says what lies in `buf` (`TextInBuf`), when the level of the
line is known (`LevelKnown`), and where the mark of a line is (`MarksKept`): all of it in the
ring, or its first characters there and the others next to be copied. `LinesMarked` alone is not inductive,
as it says nothing of a mark that is copied half. Overwriting the
oldest character moves every position in the log by one (`LogCharMarks`), which is harmless because
a line whose beginning is gone is not looked at. The refinement maps `todo` to
the text in `buf` with the marks to come. Each step takes the front off `todo`:
the lemmas about `Marked` say what the marked text begins with at the start of a line (a mark, the text's own or
the default) and inside one. `FlattenSeq` is a recursive function; the fact about it that is needed here, that
it can be taken apart at its front, is proved by the least counterexample.

**Serial.** `ConsoleInv` adds to `ConsoleExact` why the driver cannot get in between. Until the console
has turned its interrupts off, nothing but the driver's bytes are on their way (`DriverOnly`);
while it writes the enable register is 0, so those stay in front (`DriverFirst`), and only behind the
whole text can there be more. A wait ends with both registers empty or is given up: in the first case
the byte that is written is appended to `Flow`, in the second it may replace the one before it.
Then what is on its way is a subsequence of what was written, which is kept when its last
byte is dropped and when both grow by the same byte (`SubFront`, `SubSnoc`). That the
text sent grows by one byte at a time is a fact about `FlattenSeq` at its end (`FlattenSnoc`),
proved by the least counterexample, like that at its front.

**Vsprintf.** Assumed (`VsprintfAssumption`): the widths of the types are not 0 and `short` is no
wider than `int`; the characters that mean something to `vsprintf` are characters; NUL is none; a
conversion that is cut off by the format's end is the last. `TextRight` only speaks of the head of the loop.
The inductive invariant `ItemsRead` says of every step that the first `k` items are done and how far the next one has been
read: its first flags, or its width too, and so on, each with the arguments that are left then
(`Between`, `Within`, `Reading`). Each step moves on by one part of an item, or ends it. Three
groups of lemmas carry this.

- What stands in the format at an item: `ItemAt`, `PlacesAre`, and `MeetsWidth`, `MeetsPrecision`,
  `MeetsQualifier`, `MeetsConversion`. The first characters behind a part never belong to it: digits
  behind a width would, and `0` is a flag and a digit, which is why the items are what `FormatItems`
  allows. `NumberRead` shows that `skip_atoi` reads back what `Decimal` writes.
- What a number becomes: `DoDiv` divides a `long long` in two steps, by which `TmpIs` shows each digit
  to be that of the numeral (so `tmp[66]` suffices), `NumberIs` lays out sign, prefix, zeros and
  blanks case by case, `WidenedIs` follows a number through the types, and `NumberRight` puts them
  together with the flags as `vsprintf` sets them.
- What the lists of the items flatten to, one item more at a time (`FormatToIs`, `TextToIs`, `CountsToIs`,
  `ArgumentsFromIs`).

That functions defined by recursion exist, and facts about them for all numbers, are proved by the
least counterexample (`Recursion`, `LeastNat`). `ReadsWithin` follows from the same invariant. The proof found two
places where `Meaning` was ambiguous, guards of a `CASE` that could hold together (`NumberMeant`,
`NumberText`); they exclude each other now.

Only model-checked: liveness (`BootFinishes`, `CallReturns`, `WriteReturns`), which is out of TLAPS's
reach, as `ENABLED` is; and that `E820` leaves `MemInit` a table as its theorems assume it (`BootMemory`). Every
invariant, action property and refinement that a passing run checks is proved of the module that defines it.

## Findings

The first two end in one place: with 33 pages the last state of `boot_leak` has two pages that
are RAM, in no allocation, in no image, and still reserved (6, the second page of the bitmap, and 7, behind it).
The other two are in one trace of `vsprintf_comments`: where the comments promise `ab5`, `str` is `%ld`.

1. *The bitmap's last page can be lost.* The comments on
   `free_all_bootmem` (`bootmem.c:276-277` and `322`) say that the bitmap itself is
   released. The number of its pages is computed as `(pages / 8 + PAGE_SIZE - 1) /
   PAGE_SIZE` (`309`), rounding the bytes down, while `init_bootmem_core` rounds
   them up (`26`, `32`). With 128 MB and one to seven pages, or a multiple, the bitmap has a
   page that is never released.
2. *One page too many is reserved.* The comment at `setup.c:434`
   says that the image and the bitmap are reserved. The size passed in line 435 is
   rounded up by `PAGE_SIZE - 1`, and `reserve_bootmem_core` rounds up again
   (`bootmem.c:79`): as the bitmap is never one byte long, the page behind it is always
   reserved too, and nothing ever releases it.
3. *A negative precision shows nothing.* The comment at `vsprintf.c:229` says that a negative precision
   is set to 0, which means no limit. For a number it does mean that; but `%s` asks
   `strnlen` for at most 0 characters (`270`), so that `%.*s` with a negative argument shows none.
4. *`%lld` is not a conversion.* The comment at `vsprintf.c:244` says that `%lld` formats a `long long`. One
   qualifier is read (`245-250`); the second `l` is an unknown conversion, so `%ld` is written out and no argument is
   taken. `L` is the qualifier that the code has for a `long long` (`349`).

Seen while modelling, without a run of its own: the comments at `setup.c:235`
and `241` say that ROMs in C0000-C7FFF are looked for and that a signature proves
that this area is the video ROM. The loop runs on to 0xE0000, so without a video
ROM the first extension makes it request 0xC0000-0xC7FFF.

## Not modelled

- The linker script, build files, `tmp_*`, `memset`, and the assembly but for the
  boot tables and `setup_idt`: no state of interest, or pure output.
- Machines with two zones in `MemInit` (they are in `Paging`): the second is another instance of
  `Buddy` and shares only `memory_pressure` with the first.
- `sched_init`, `softirq_init`, `init_timervecs`, `kmem_cache_init`: they fill tables with
  constants, once, and nothing in `src` reads these or adds to them.
- `calibrate_delay` and `delay.c`: the call is commented out (`main.c:99`), as is `sti` (`96`); what they would
  wait for, the clock's handler, is empty.
- `cpu_init` and the descriptors of TSS and LDT: written once, read by the processor only.

## Plan

Order of work, most important first. All of it is done.

1. `Buddy`, `PagePool`, their proofs (done).
2. `Bootmem` (done, with proofs).
3. `MemInit` (done, with proofs).
4. `E820`, `BootMemory` (done, with proofs; what `BootMemory` adds is only model-checked).
5. `Resource`, `ResourceClaims`, `SetupResources` (done, with proofs).
6. `I8259A`, `Traps` (done, with proofs).
7. `Paging`, `Zones` (done, with proofs).
8. `Printk`, `KernelLog` (done, with proofs).
9. `Serial`, `Vsprintf` (done, with proofs).
