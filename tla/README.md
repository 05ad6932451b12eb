# A TLA+ model of JakelynnOS

JakelynnOS is a small 32-bit x86 kernel in C. This directory holds TLA+ models of
its parts, the TLC configurations that check them, and TLAPS proofs about them.
`PROJECT.json` says, for each definition, which lines of the source it models.

Check one run with `tlc -config KernelMemory.cfg MCKernelMemory`, one proof with
`tlapm KernelMemory_proofs.tla`.

## 1. The system

| Part | Source | State | Operations | Who calls it |
|---|---|---|---|---|
| boot | arch/i386/boot.S | first page tables, saved multiboot pointer | `_start` | boot loader |
| kernel_main | source/kernel.c | command buffer | start-up in order, command loop | boot |
| physical memory manager | libkrnl/source/pmm.c | a status byte per frame, first/last/next frame, the trimmed boot tables | `initPMM`, `pmmAlloc`, `pmmFree`, `pmmAllocRsvd`, `pmmFreeRsvd`, `pmmAllocRsvdRange`, `pmmFreeRsvdRange` | kernel_main, tests; later VMM and heap |
| keyboard driver | libkbd/source/ps2kbd.c | ring of keys, head, tail, modifiers, error count | `ps2kbd_handler` (interrupt), `kbdGetKey`, `kbdBufferEmpty` | processor, line input |
| line input | libkbd/source/kbd.c | caller's buffer, index | `kbdInput` | command loop |
| cursor | libtty/source/80x25cursor.c | row and column | up, down, left, right, begin of line, conversions | tty, vga, line input |
| terminal, VGA text | libtty/source/tty.c, vga.c | video memory, colour | put, write, scroll, clear | printf, from the main thread and from interrupt handlers |
| page directory | libkrnl/source/pgdir.c | property array beside the page directory, the two pointers in use | set, clear, change, evaluate, fix, sync, swap, init | VMM, tests |
| virtual memory manager | libkrnl/source/vmm.c | a flag per page | index arithmetic, is/set kernel or user, init | kernel_main, tests |
| heap | heap.c, heaptree.c | a search tree of the addresses given out, its free nodes | `kmalloc`, `kfree` | tests (not linked yet) |
| slab allocator | slaballoc.c, bitarray.c | for each block size a chain of slabs with bit maps | init, `alloc4` to `alloc2048`, `free4` to `free2048` | heap (not linked yet) |
| page allocation tree | pagealloctree.c | a tree of page runs, its free nodes | `allocPage`, `freePage` | heap (not linked yet) |
| multiboot information | multiboot.c | the structure the tags are copied into | `loadMultibootInfo` | kernel_main |
| kernel command line | krnlcmdline.c | heap size, video or not | `processCommandLine` | kernel_main |
| interrupts and faults | libintr, kbd_handler.S | descriptor table, both controllers, tick counter | `loadIDT`, `initAPIC`, `initAPICtimer`, stubs, handlers | kernel_main, processor |
| kernel commands | libcmd/source/docmd.c | none | `doCommand` | command loop |
| libc, libtests | | | strings, formatting, tests | everyone |

Interaction. There is one thread, kernel_main, and interrupt handlers that run to
their end with interrupts off. The keyboard handler shares two things with the main
thread, without any lock: the ring of keys, and the console, because it prints when
it refuses a key. Both handlers share the interrupt controller. The memory managers
are called by the main thread only, and the paging code by it and by the kernel's
own tests.

What is hard here: the handler coming between any two instructions of `kbdGetKey`
and of the cursor moves; scan codes of several bytes that arrive late or run into
the next key; modifiers released in any order; page arithmetic at the edges of
regions that share a page, above 4 GiB and at the top of the address space; partly
done range calls that must be undone; scans that must end; attributes kept in two
places; stubs that set the interrupt flag while their frame is still there; and tags
and options in any order. `PROJECT.json`
"hazards" lists each at its line, with the properties that watch it.

What makes each part correct:

- memory manager: a frame has one owner; what the kernel runs from is never handed
  out; nothing is lost; what is available is what the memory map says;
- keyboard driver: no key is overwritten, invented or read twice, whatever is
  interrupted; modifiers follow what the keys sent; errors decide when it is off;
- line input: never past the buffer, returns a string of the length it says, edits
  only at the end of the line, returns when enter is typed and it is asked again;
- console: behaves as a teletype; the cursor stays on the screen whoever prints;
- heap: a block has one owner; what is held is found in the tree; a page is given
  back only when none of its blocks is held; no node of the tree is in two places;
- paging: the kernel's half stays mapped whatever is called; a sync ends;
- interrupts: handlers of lines do not nest, each open line has its gate, what returns
  finds its frame, a fault is reported as it happened, no open line is silenced for ever;
- start-up: the kernel believes what the tags say, and hears the options it was given.

## 2. Modules

| Module | Role |
|---|---|
| `PMM` | pmm.c: frames as three sets (exists, available, in use), one action per call and return path |
| `KernelMemory` | `PMM` with clients that keep to pmm.h (each frees once, with the matching call, what it was given) |
| `FrameOwnership` | abstract: exclusive ownership of frames |
| `MemoryMaps`, `MCKernelMemory` | small maps and boot tables for TLC; `MCKernelMemory` boots on all of them and runs on from seven |
| `Ps2Kbd` | ps2kbd.c: user and keyboard, wire, interrupt handler, ring, `kbdGetKey` in three steps |
| `KeyMailbox` | abstract: a box for one key |
| `Keyboards`, `MCPs2Kbd`, `MCKbdInput` | what the keys of a keyboard send |
| `MCDesks` | four users with different keys, for one run |
| `KbdInput` | kbd.c and the command loop, on top of `Ps2Kbd` |
| `LineEditor` | abstract: a line edited at its end |
| `Cursor` | 80x25cursor.c as operators on a cursor, in `size_t` arithmetic |
| `Screen` | vga.c, tty.c and the echo of kbd.c, without interrupts |
| `Teletype` | abstract: a page of paper and a print head |
| `Console` | the cursor moves of the main thread, one load or store at a time, with the handler printing in between |
| `HeapBase` | what the heap's parts share: kinds of block, pages left (external) |
| `HeapTree` | heaptree.c: the tree, its rotations, its free list |
| `AddressSet` | abstract: a set of addresses, until the kernel stops |
| `SlabAlloc` | slaballoc.c, with the block size as an argument; `SSpec` is the allocators alone, given any address |
| `Heap` | heap.c over both, with callers that may free twice; the same `FrameOwnership` is its abstract specification |
| `PageAllocTree` | pagealloctree.c: the same tree code (the file is a copy of heaptree.c with other names), and what `allocPage` and `freePage` do with it |
| `MCHeap`, `MCHeapTree` | small pages, block sizes and address sets; `MCHeapTree` runs the tree for either of its users |
| `PageDir` | pgdir.c: a directory and its property array, each call that reads or changes them, the fix |
| `VMM` | vmm.c on top of `PageDir`: indices, flags, `initVMM` |
| `Paging`, `MCPaging` | the order of calls: `initVMM`, vmmtests.c call by call, then any caller |
| `Pic` | the two interrupt controllers (external), driven by `initAPIC` |
| `Interrupts`, `MCInterrupts` | libintr: kernel_main's start, the stubs and handlers as little programs, the processor's stack |
| `CStrings` | the string functions that start-up and the commands use |
| `BootInfo` | multiboot.c: the tags, one by one, into memory |
| `CommandLine`, `MCStartup` | krnlcmdline.c and docmd.c after it; many loaders, command lines and typed lines |
| `*_proofs` | theorems: `KernelMemory_proofs`, `KbdInput_proofs` (with the driver), `Screen_proofs`, `Console_proofs`, `Heap_proofs` (with the tree, its second user and the slab allocators), `Paging_proofs`, `Interrupts_proofs`, `CommandLine_proofs` |

### How the state corresponds

`PMM`. The status byte's three bits are the sets `exists`, `avail`, `inuse`; the
static offsets are `first`, `last`, `next`. `pt[d]` is the set of frames mapped
through page-directory slot d. `ret` is the last call's answer. A call is one
action, because no handler calls the manager; a call that never returns is the
phase "hung". Addresses are numbers below `NumPages * PageSize`; `Uint32` is the cut
of a 64-bit map address to the address space, and `PageAlignUp` wraps as the code's
does. The page tables' own frames are taken to exist: they are part of the kernel's
image, which is running.

`Ps2Kbd`. A key in the ring is what distinguishes it (extended or not, code, which
of its two meanings) and the alt and control flags it was put with; the table of
ASCII values is left out. `kbdBuffer[kbdTail++]` is a store of the tail, then a read
of the slot, and the roll-over of the tail is a third step: `GetKeyCheck`,
`GetKeyRead`, `GetKeyRoll`. `Late` says whether the next byte of a multi-byte code
may not have arrived when the handler polls for it. A key that is held repeats
(`Repeat`, `Typematic`): a keyboard repeats the key pressed last, the model any key
that is held. `capsOn` counts the codes of caps lock, the repeats of a held one
among them, because the driver toggles at each (ps2kbd.c:651).

`KbdInput`. `pc` walks through prompt, wait, get, read, roll, got: the busy waits,
`kbdGetKey`'s steps and the switch of kbdInput. At the prompt kernel_main compares the
buffer with `Exit` (kernel.c:174): it asks for another line (`Call`) or spins for ever
(`Leave`, "exited"), and then what is typed stays in the ring. Before the first line the
buffer holds any member of `Residue`, since it is not initialised. `kbdInput` is called
again whatever it returned; `doCommand`, which only a non-empty line reaches
(kernel.c:176), touches nothing of this and is `CommandLine`'s. No key the driver puts has the
characters 0 to 7, so that branch of the switch is only the empty answer.

`Cursor`, `Screen`, `Console`. Cursor fields are modulo `Word`. `Screen` runs whole
calls; `Console` splits the same calls into the loads and stores an unoptimised
build makes (for a cursor passed by value, the column before the row), because that
is where a handler can come in. The handler's message, "Keyboard buffer full\n\r",
is `MsgLen` characters, a newline and a carriage return, printed when a key arrives
while another is queued.

`HeapTree`, `SlabAlloc`, `Heap`. A tree is a nested record, so a node that is copied
over another (heaptree.c:251) keeps its place in memory as the field `node`. The
pointers of the free list are a sequence and a mark for what its end is: null, or
"wild" once a word was read through null. That word is whatever the first page of
memory holds (it is mapped), so it may be null or point to nowhere; following such a
pointer, or rotating about null, ends the model (`status = "faulted"`), as running out
of nodes does ("nomemory", `abort`). Heights are stored, not computed, as in the code,
and go stale when a deletion does not mend them. `Subtrees` of a tree are found level by
level, at most as many levels as there are addresses. `HeapAssumption` says that
`Addresses` has every block of every page, so that whatever an allocator gives can be
put in the tree. The ten copies of each function in slaballoc.c
differ in their sizes only and are one operator; `SlabsPerPage` is how many slabs the
loop really chains (for 8 and 128 bytes the code uses another size's constant, which
ends the chain early). `deallocVirtKrnlMem` may refuse; kmalloc above 2048 bytes is
always refused, because `allocPage` takes pages and is given bytes.

`PageAllocTree`. The number of pages in a node takes the place of the heap's kind of
block, so that one set of operators stands for the code of both files. A number of
pages is an `unsigned char`, so the largest block is a node of zero pages. The
virtual-memory calls that hand out the pages themselves have no body in the
repository; they are taken to give any free page or block, by its address, which is
how heaptree.c:41, slaballoc.c:61 and pagealloctree.c:54 take it. allocPage shifts that
address for a single page (pagealloctree.c:353, `Shifted`), so what it returns is
another page's address, perhaps one that is in use, or null. `live` counts who holds
an address, and `shared` says which of them two held at once, until nobody
holds it. An insertion of
an address that is in the tree makes no node (`htInsertNodeInternal` with none), but
heights are computed anew and the tree is rotated on the way back, as in the code.

`PageDir`, `VMM`, `Paging`. An entry is the set of its attributes and its frame. Where
the code indexes the pointer instead of the array (pgdir.c:406 and its kin), the
access is in the array for entry 0 only; otherwise a read is any answer and a write
sets `astray`, after which nothing is claimed. `Masked` is the mask of pgdir.c:562: it
takes attributes away, never sets them, and clears the lowest bit of the frame. The
flag table is the set of index pairs whose flag says kernel. `tested` and `at` are
vmmtests.c's progress: each of its calls is a step, because what it tests is shared.

`Interrupts`. A routine is a sequence of instructions or statements and `Code` is all
of them; the stack is a sequence of words with the last one first, so that a handler's
frame pointer is a distance in it, and a stub that leaves a word or pushes one too many
shifts what the handler and `iret` read. `shadow` is the processor's delay of one
instruction after `sti`. `ledger` is a history variable: what was interrupted, from
which the properties are stated. The mask boot.S loads is the byte at address 0xFF
(the `$` is missing), so its value is unknown.

`BootInfo`, `CStrings`, `CommandLine`. The strings of the structure and the fields
behind them lie in memory cell by cell, because `strncpy` may write one past its
destination; the other fields are a record. Tokens are found in the code's way, with
the start compared with the length of the token's buffer. What `kernel_main`'s
`command` holds before anything was typed is a constant set, since it is not
initialised. `loadMultibootInfo`'s first line, which gives up on a null address
(multiboot.c:183), is left out: a loader that left no information has no tags to say
anything of, and kernel_main stops.

## 3. Runs

Bounds are in the `.cfg` files. A passing run is exhaustive for its bounds.

| Run | Shows | Bounds and why they are enough |
|---|---|---|
| `KernelMemory` | `initPMM` against the map; ownership, mapped frames, leaks, frame 0, frees accepted, `RefinesOwnership` | 8 frames of 4 bytes. `initPMM` on every map of two or three regions with ends at the first, last and inner bytes of frames (about 19 000 maps). Then 2 clients on 8 maps: a PC's, ranges in the middle, none usable, first frame unmapped, a region above the address space, none, reserved first, a usable and a reserved region meeting in the last frame. Two clients suffice for exclusion; eight frames hold a one-frame and a two-frame range, a hole and a wrap-around of the scan |
| `Ps2Kbd` | `RefinesMailbox`, error count, `ShiftFollowsKeys` | ring of 3; four users (`MCDesks`): a key that puts two keys when shifted, with shift and errors (2 bytes on the wire, so that a byte is always waiting); an extended key, and right control, whose second byte may be late, with an ordinary key behind (3 bytes, so that a byte of the next key follows a whole code); both shifts, caps lock and print screen (4 bytes, print screen's longest code). Every key that is held may repeat whenever the wire has room |
| `KbdInput` | buffer, string, editor, liveness | buffer of 4 (two characters), ring of 2, a letter, backspace, enter, escape; the line of one letter stands for "exit" (`MCExit`), and the first buffer holds that line or characters without an end (`MCResidue`) |
| `Screen` | `RefinesTeletype` | 3 x 2 screen, 2 letters and blank: a first, a middle and a last line |
| `Console` | cursor and row under interrupts | 3 x 3 screen, message of 2 characters; characters, enter and backspace |
| `HeapTree` | the tree stands for the set of addresses, search order, nodes in one place, pages that one caller holds in the tree | 3 pages of 2 nodes. For the heap 5 addresses (`MaxHeapAddress` leaves out the sixth): three levels, every rotation and both double ones, a rotation about null after fourteen calls, a free list that runs empty and pages added twice. For pages 6 addresses in a memory of 16 bytes, five pages of 2 bytes in blocks of 1, 2 and 3 (`Requests`), the last being kept as zero, shifted to 12, 0, 4, 8 and 12; three allocations at once (`MaxHolders`), four nodes. That is enough for an address that two callers hold, for a page that is lost as null, for one freed from under the other, and for an insertion of what is there that rotates the tree |
| `Heap` | exclusive blocks, held blocks in the tree and in a slab's page, slab books | 2 callers, blocks of 2 and 4 bytes in pages of 8, two pages left after `initHeap`: a page is given back and taken again by the other size, and memory runs out |
| `Paging` | the kernel's half, the kernel's own tests, syncs | 2 entries of 2 pages, a user's and a kernel's in an odd frame (so that the lost bit shows), the kernel's directory and one other; each behaviour is about two attributes, or one and the flags, because attributes meet only in a sync, which treats them alike; an index past the end is among those asked for |
| `Interrupts` | nesting, gates, returns, reports, lines served | both lines, all the vectors with a gate, two interrupts or faults in each other; the tick counter counts to 2. Each behaviour is about one fault, or the double and the page fault, which may meet |
| `Startup` | the structure against the tags; options; commands | loaders with two or three variable tags in every order, strings that fit, fill and overrun their fields, one region more than is kept; 370 command lines of up to three words with a blank or several; 10 typed lines, one longer than doCommand's buffer for a word |

The properties say what the code as it is does guarantee, where it is less than one
would want: `OptionsHeard` names the options that are heard, `CommandIsItsWords` the commands
that fit the buffer, `SaysTheTags` the strings
that arrive whole, `KernelHalfKept` stops at the first access outside the arrays.

The two other runs expect a violation: each shows one sentence of a comment or header
that the code does not keep.

| Run | The code |
|---|---|
| `PMMHang` | `pmmAlloc`'s scan from the start never advances |
| `HeapDuplicate` | freeing marks another block available, and `kmalloc` stops the kernel when it is given it |

More disagreements between the code and what it says of itself came up while
modelling. The modules have them as the code does; no run is spent on them:

- `initPMM` never returns unless region 0 is available (`InitHangs`; pmm.c:182-184
  against the `return false` after it);
- `pmmFreeRsvdRange` never frees the last frame of a range (`FreedPages`; pmm.c:573
  against the inclusive loop at pmm.c:550);
- a reserved range in the last page of memory is reported but cannot be allocated
  (`PageAlignUp`; pmm.h:106), unless the page is usable memory's too, and then it
  leaks (`NoAvailableLeak` names it);
- a usable region that begins inside the last page aligns up to address 0 and takes
  every page there is (`PageAlignUp`; pmm.c:208; `UsableInSpace` leaves it out);
- the ring is "full" with one key queued, of 32 entries (`IsFull`; ps2kbd.c:67 against
  ps2kbd.c:122, "only put it there if the buffer isn't full");
- right alt is never released: its code is E0 B8, the driver waits for E0 8B
  (`ExtModified`; ps2kbd.c:212);
- right control with a key close behind is taken for pause (`HandlePause`;
  ps2kbd.c:150-153);
- extended keys do not lower the error count (`GoodCodes`; ps2kbd.c:114);
- escape empties the line but returns its old count (`KbdInput`; kbd.c:87 and 38);
- backspace does not cross a line break (`blankPriorChar`; kbd.c:22);
- scrolling up from a row loses the row above it (`ttyScrollUpFrom`; tty.c:125);
- a lineal offset that is too big gives a cursor off the screen (`LinealToPos`;
  80x25cursor.c:252);
- a move down interrupted by the handler loses the handler's moves (`MoveDown`);
- the "self balancing tree" (heaptree.c:1) is not balanced after deletions: one that
  goes to the left computes no heights and rotates nothing (`Deleted`; heaptree.c:238,
  where the rest is in the else), and a right child in balance is left alone
  (`RebalanceDeleted`; heaptree.c:275-277). A later insertion finds the old imbalance,
  picks the rotation by the new address and rotates about null: in 3, 4, 5, 1, 2, out
  1, in 6, out 2, in 1 is enough (`KeepsTrack` states it; the run `HeapTree` reaches it
  too, and its properties speak of the time before);
- a node with two children keeps its own memory stack for its successor's address
  (`WithAddress`; heaptree.c:257-259 against heaptree.h:29), so that kfree asks the
  wrong allocator and refuses to free;
- a node put on the free list drops the second one there (`htPutNodeInFreeList`;
  heaptree.c:111, "put this at the beginning of the list");
- kmalloc of more than 2048 bytes always fails (`KmallocRefused`; heap.c:82);
- a failed `pmmFreeRsvdRange` is not undone: the loop under "undo it" (pmm.c:575)
  clears from frame 0 instead of setting, and returns after the first frame
  (`pmmFreeRsvdRange`);
- releasing left control calls `setAlt`, so control stays set (`Modified`;
  ps2kbd.c:852);
- a backspace interrupted by the handler's carriage return takes the column from 0 to
  the end of `size_t`, and nothing is printed any more (`Console`; kbd.c:23 against
  80x25cursor.h:2, "cursor is 0 based");
- a sync never sets an attribute and clears the lowest bit of a frame's number
  (`Masked`; pgdir.c:562, against "sync should ensure a true return", pgdir.c:596);
- `pgdirSetReadOnly` and its kin index the pointer, not the array (`AtFirst`;
  pgdir.c:406), and `pgdirChgUserPage` changes the array, not the directory
  (pgdir.c:327-331);
- vmmtests.c leaves entry 0 of the array marked as a user's (`Chains`);
- the index in a page table is computed with the directory's divisor
  (`PteFromAddress`; vmm.c:92), so that the addresses of a table have one flag
  (`FlagOf`; against vmm.h:56 and vmm.c:125, which speak of the address);
- the third initialisation word of the controllers is meant as a mask and taken for
  the cascade, and the second controller never gets its fourth (`initAPIC`;
  apic.c:34-40), so that every line is open after `initAPIC`;
- boot.S loads the mask from address 0xFF instead of the number (`Init`);
- the gate of the non-maskable interrupt has a user's selector, so that it becomes a
  protection fault and `NMI_handler` never runs (`LoadedGates`, `Enter`);
- the double fault's stub pushes the flags once more, which shifts its report
  (`int8_handler`; `ReportsTheFault` names it);
- the stubs of vectors with an error code leave it on the stack; they get away with it
  because their handlers never return (`ReturnsToInterrupted`);
- a key typed before `initAPIC` blocks the keyboard: its request is forgotten, and the
  full buffer raises no other (`KeyRead` leaves it out);
- options that begin past character 16 of the command line are not seen, and words of
  more than 14 characters are cut (`strtokbuf`; strtokbuf.c:33);
- `strncpy` writes one past a destination that its source fills (`CopyLen`;
  strncpy.c:10-13 against 25), and a memory map is cut at ten regions though the
  structure has room for twenty (`buildMMAP`);
- a heap size may have more equals signs, and anything behind its digits but before
  its letter is skipped: `-kheap==512x2P` asks for 512 pages (`processKernelOpt`,
  strtokbuf.c and `processHeapSize`; `Ordinary` leaves such words out);
- on a line of 80 characters or more, blanks that reach the end of doCommand's buffer
  hide the word behind them, and `print` prints nothing (`CommandIsItsWords` leaves
  such lines out; docmd.c:23);
- a tag of size 0 would be read for ever, and a region of length 0 ends below its base
  (`ReadTag`, `buildMMAP`);
- kernel_main compares its command with "exit" before anything was typed into it
  (`Residue`), and may leave its loop at once (`Leave`);
- a held caps lock toggles the driver's caps lock at every repeat (`Repeat`;
  ps2kbd.c:651-654);
- allocPage shifts the address of a single page as if it were a page's number, so it
  returns null for a page that it took, or the same address to two callers, of whom
  the first to free it takes the page from the other (`allocOnePage`;
  pagealloctree.c:353);
- a block of 256 pages is kept as one of none, so that freeing it gives nothing back;
  nodes of single pages are never deleted, and a longer block at the same address
  later finds the old node and length (`numpages`, `ptInsertTreeNode`, `freePage`;
  pagealloctree.c:389).

Read but not modelled, since nothing above depends on them: `memset`'s arguments are
swapped (idt.c:42); the page fault's report decodes the flags instead of the error
code; a cleared bit of a bit array cannot be toggled and an index equal to its length
is accepted (bitarray.c:55); `memmove` backwards is off by one cell; `snprintf` may
write the cell behind its buffer and steps over the terminator after a last `%`;
`toHex64` writes an eighteenth cell; `strtoi` and `strtol` read a negative number as 0.

Consequences stated as properties rather than repeated as findings: because the
ring is full with one key, the driver implements a *one-key* mailbox
(`RefinesMailbox`), and because of the last frame and the frame-0 undo, leaks are
bounded to last frames (`LeaksOnlyLastPages`) and a client that keeps to pmm.h never
triggers the undo (`NullNeverFree`).

Deadlock is checked except where the system may really stop: the memory manager once
a scan hangs (or boot has nothing left to do), the keyboard alone, whose wire is
bounded by `MaxWire` and whose user may have nothing left to press, and the heap,
whose `abort` stops the kernel.

Every property of a passing run has a mutant, a fault defined next to the definition
it replaces (`..._Again`, `..._Late`, ...), under which TLC finds the property violated.

### Fairness

`KbdInput` and `Interrupts` have liveness properties. `KbdInput` assumes weak fairness of the main
thread's steps, `WF_ivars(Main)`: an interrupt handler returns, so the main thread
always goes on. It goes on to spin outside the loop once the line is "exit", so
`EnterReturns` and `KeysAreRead` promise nothing from then on (kernel.c:189). Nothing is assumed of the user, the keyboard or the handler. Enter
typed by the user may be refused by a full ring; what is shown is that an enter that
is *in* the ring ends the call.

`Interrupts` assumes weak fairness of the processor (`Run`: it executes instructions
and takes interrupts), but not that the set-up in the middle of kernel_main ends
(`Endless`): a tag of size 0 (multiboot.c:191) or a map whose first region is not
available (pmm.c:182, `InitHangs` of `PMM`) keeps it there for ever, with interrupts
on. `LinesServed` says what is left then: the timer is counted all the same, and a key is
read unless kernel_main is still setting up (`SettingUp`), since only `initKbd` behind
it opens the keyboard's line. It further assumes strong fairness of two things: the keyboard's interrupt
being taken when it is offered again and again (`KeyTurn`), and an instruction of
kernel_main while interrupts come and go (`MainTurn`). Without them a timer whose
period is shorter than its handler could take all the time; `initAPICtimer` leaves
the timer at its default of 18 ticks a second (nothing programs it), and its handler is a dozen
instructions. Nothing is assumed of the devices or of faults.

## 4. Proofs

All for every value of the constants that meets the named assumptions
(`PMMAssumption`, `KbdAssumption`, `KbdInputAssumption`, `CursorAssumption`,
`ScreenAssumption`, `ConsoleAssumption`, `SlabAssumption`, `HeapTreeAssumption`,
`HeapAssumption`, `PageAllocAssumption`, `PageDirAssumption`, `FirstEntryAssumption`,
`VMMAssumption`, `InterruptsAssumption`, `BootInfoAssumption`,
`BootTagsAssumption`, `TypedAssumption`), all of which TLC evaluates in a run. One
theorem, `ShiftAlwaysFollows`, has a hypothesis of its own, `Layout(PhysKeys, Late)`:
shift keys and caps lock send their codes, when pressed and when they repeat, and no
other key does, and the second byte
that may be late is none of those codes. `DeskLayouts` has TLC evaluate it on every
desk of the run `Ps2Kbd`. The second part is no formality: print screen sends E0 2A,
and if the 2A is late the driver takes it for left shift, which is why the desk with
print screen has no late bytes.

- **`KernelMemory_proofs`**. The inductive invariant `IInv` adds to the checked
  invariants: the clients' ranges are reserved ranges of the map (so that freeing is
  not refused), nothing is in use or owned during boot, a kernel without a map has no
  frames, and frame 0 is mapped by slot 0 once booted. The last one carries the
  argument for frame 0: what is mapped stays in use, so `NullNeverFree` and the safe
  reading of address 0 as failure follow. From it: `TypeCorrect`,
  `ExclusiveOwnership`, `MappedFramesSafe`, `NullSafe`, `LeakBounded`,
  `FreesAreAccepted`, and `ImplementsOwnership` (every step is a take, a give or a
  stutter). Giving back a range is a give of the whole range even though the code
  leaves its last frame in use: the client has lost it, and nobody can be given it.
  Its second part is about the map that boot leaves. What is available is `MapAvail`
  of the map at all times (`BootFacts`), so the rest is about maps: lemmas on division and the two alignments,
  what a region's loop visits, and the order of regions. A reserved frame is not
  available because the region that made it so would come later, hence begin behind
  it, and takes whole frames only (`ReservedKeptOut`); a usable frame is kept because
  a later reserved region does not reach back to it (`UsableKept`). `NoAvailableLeak`
  follows with `LeaksOnlyLastPages`: a leaked frame holds its range's last byte. The
  two conditions on the last frame of the address space came out of these proofs;
  `TopMap` and the region 29..31 of `MemoryMaps` show both cases to TLC.
- **`KbdInput_proofs`, the driver**. `IInv` says that the ring holds at most one key, wherever the
  tail is in its roll-over (`RingOK`): from the weak test for "full", head and tail
  can never be more than one apart. `ImplementsMailbox` follows with the refinement
  mapping of `Ps2Kbd`, where a key counts as taken when the tail is stored, though
  it is read later: nothing overwrites the slot in between because the next key goes
  to the next slot. `ShiftAlwaysFollows` needs an invariant of its own, since
  `ShiftFollowsKeys` speaks of an empty wire only and the driver lags behind the user
  by what is on it. `ShiftInv` relates the two by a path (`Leads`): from the shift
  keys the driver has heard of to those the user holds, one step for each byte on the
  wire. A key pressed, repeated or released adds its steps at the end, the handler takes steps off the front,
  one for a code and two for an extended one, which change nothing (`WholeCodes`). An
  empty wire is a path of no steps, so both ends agree. It stops at a keyboard
  disabled by errors, whose bytes are thrown away.
- **`KbdInput_proofs`, line input**. `LInv` adds that a waiting reader finds a key (`KeyAtHand`),
  that every place below the index holds a character, and that what was returned
  still stands while the caller has it. The main thread alone takes keys, which is
  why the wait's answer still holds in `kbdGetKey`. `ImplementsEditor` maps the line to
  the first `cmdidx` cells of the buffer while a call runs.
- **`Console_proofs`**. `RowInv` bounds the row by the screen except inside a move
  down, where it may be one more; it needs that the register never holds a row past
  the last when it is incremented. `ColInv` adds what is known of the column at each
  label until a backspace erases a character (`erased` is a history variable that
  says so); the handler can only move the cursor to a valid place or leave an invalid
  one alone. After an erasure the statement is false: the handler's carriage return
  between the test of the column and its decrement (kbd.c:23-24) makes it wrap.
- **`Screen_proofs`**. `RefinesTeletype` for every screen of more than one column and
  every text. The loops of vga.c and printf are recursive functions on the numbers.
  That one exists with the values its equation says is shown by giving it in closed
  form, and that it has no others by the least number at which it could differ
  (`Least`). Copying rows upwards one after the other in place is then a move of the
  whole page, because each row is read before it is written; printing is by
  the same argument what the teletype prints, character by character. The invariant
  (`AlwaysTyped`) is that the screen is full of characters and the cursor on it.
- **`Heap_proofs`**. In five steps.
  *Trees.* The library's induction takes an operator as its parameter, which the prover
  cannot instantiate, so induction is proved here for *sets*: `Level(K, n)` are the
  trees with at most n levels, each built from the one below, and a set that has null,
  and each node whose children it has, has every tree (`TreeInduction`), as there is no
  least level with one outside. A recursive function on the subtrees is obtained as
  the least set of pairs that is closed under its equation (`TreeRecursion`), which is
  shown by the same induction to be a function and the only one. So the model's insertion,
  deletion, search and minimum are known for every tree, and `SubtreesAre` says
  that its level by level walk finds all of it.
  *Operations.* A tree is `Sound` when it is in search order and has no node
  twice. Every rotation of a sound tree is `Lost` or sound with the same addresses and
  nodes (`RotatesRight` to `RotatesRightLeft`), whatever the stored heights are, so an
  insertion adds one address and one node (`InsertMade`) and a deletion takes out one
  address and the node it frees, which is not always the one that had the address
  (`DeleteMade`). That the heights may be anything is why the wrong balancing above does
  no harm to the order.
  *The tree with its free list.* `Books` says that the list has no node twice and none
  of the tree's, that no node lies on a page that is left, and that `size` counts the
  nodes. From it, for heap.c and for pagealloctree.c: `TreeSearched`, `TreeNodesOnce`,
  `TreeImplementsRegistry`, `PagesSearched`, `PagesTracked`, `PagesImplementRegistry`.
  For pages it takes one more lemma: an insertion that finds its address may rotate the
  tree or lose it, but a tree that is not lost has the addresses and the nodes it had
  (`InsertKept`). The invariant there is `PagesOK`: an address that more than one caller
  holds is in `shared` (`HoldersOK`), so that a free takes from the tree only what
  nobody else holds alone.
  A node that is lost (heaptree.c:111) is in neither place, which `Books` allows.
  *Slabs.* The invariant `Good` is stated of any chains and any pages
  left, because one allocation may chain a page of slabs and then serve from it. It
  says of each slab that its count is that of its bits and that, without a page, all
  its bits are set; and of two slabs that they never share a page, nor one that is
  left. The freed block's number is only known to be *some* block of the page, which
  is all the books need: that it is the wrong one is the heap's trouble, not the slab's.
  From it: `SlabsAlwaysOK` and `PagesAlwaysOnce`, whatever address any free is given.
  *Heap.* `HeapOK` joins the two while the kernel runs. `Accounts` is the crux: of each
  slab's page, as many addresses are in the tree as the slab has blocks that are not
  available. The bits may be the wrong ones, since a free marks another block than the
  one it is given, but the *numbers* agree; so a page that is given back, with all its
  blocks available, has no address in the tree, and nothing that is held lies on it.
  It needs that kfree takes an address out of the tree exactly when a block became
  available, and that kmalloc stops at an address that is there already. From it:
  `HeapKeepsHeld`, `HeapImplementsOwnership`, `HeapImplementsSlabs`
  (every step of the heap is one of `SSpec`), and with the last `HeapSlabsOK`. What is
  *not* true is that the kernel goes on: `HeapDuplicate`.
  The module extends both users of the tree, so the assumptions of both are in its
  scope; each leaf cites those it uses.
- **`Paging_proofs`**. The invariant `KInv` says of the kernel's half of the directory
  what `KernelHalfKept` says, and of the kernel's *array* that it asks for the same:
  present and write, as long as nothing was written astray. It needs the
  array because a sync makes the directory follow it, and the array's part needs that
  the two pointers always go together (`PTypeOK`), or a sync could hold the kernel's
  directory against another array. `SyncsSettle` rests on the mask alone: a second cut
  by the same attributes does nothing, and a frame without its lowest bit has none to
  lose (`EvenFrame`). `TestInv` follows vmmtests.c through its chains: for each call
  that is next, which attributes entry 0 has at this moment in the directory
  (`DirAt`) and in the array (`ArrayAt`). The chains change one of the two at a time
  and put it back, except that the last leave the array marked as a user's; that all
  answers are the expected ones (`TestsAlwaysPass`) follows, because boot leaves
  entry 0 present and writable (`FirstEntryAssumption`).
- **`Interrupts_proofs`**. What is on the stack is known from three sides, and the
  invariant says how they agree. `Levels`: of the routines in progress (the history
  `ledger`), only the first may be one that returns, because a fault's handler never
  does, so that no frame is ever needed below a stub that leaves words on the stack.
  `Started`: what gates, masks and bases are at each place of kernel_main. `Inside`: for
  each vector, where its stub or handler may be, how many of its own words lie on the
  frame there, and what the flag is. The delay of `sti` is the crux: at `iret` the
  flag may be set only with `shadow`, and then the processor takes no line, which is
  why lines do not nest. `IInv` was checked by TLC with two and with three levels
  before it was proved, for any number. From it: `LinesDoNotNestHolds`,
  `UnmaskedHasGateHolds`, `ReturnsToInterruptedHolds` and `ReportsTheFaultHolds`; the
  last leaves out the double fault, as the property does.
- **`CommandLine_proofs`**. `SaysTheTags` is reached by an invariant over the tags read
  so far (`TagsRead`): of each kind, what the structure holds is what the last tag of it
  said, because a tag that is read writes its own part only. The exception is the
  strings, which lie in memory one behind the other: an overlong one writes its
  terminator into the first cell of its neighbour, so a string is only claimed while
  the one before it fits. `BootTagsAssumption` says what a boot loader leaves: tags one
  behind the other at multiples of eight, the end tag last, strings without
  terminators inside, a memory map as long as its size says. `OptionsAlwaysHeard`
  holds of every command line that is `Ordinary`: its words fit the buffer, and
  kernel options that have a value are heap sizes as grub.cfg:3 writes them. Its
  invariant, `LineInv`, says which words begin before the place where strtokbuf goes
  on, and that they are those found (`Splitting`; an empty one may be among them when
  the blanks reach the end of the buffer's length), then what the words processed so
  far have done (`Effect`). What a loop over characters computes is a least number
  with some property in `CStrings`, and that there is one is the well-ordering of
  the natural numbers (`Least`): so the walk through a text needs no induction
  theorem. The first form of the property was false, which came out of the proof: it
  did not ask how a refused kernel option is written, and the code accepts some that
  look wrong. `CommandAlwaysItsWords` rests on the same lemma about the next word
  (`NextWord`), for a buffer of any length, and on trimming: what is cut off both ends
  is in no word, so the words are the same, only nearer to the start (`SameWords`).
  The property had to be told of the buffer here too; the run had no line that long,
  and has one now.

Every safety property, action property and refinement that a passing run checks is a
theorem. Only model-checked, and why:

- the liveness of `KbdInput` and `Interrupts` (`EnterReturns`, `KeysAreRead`,
  `LinesServed`): fairness and ENABLED are beyond the prover;
- the two properties that do not hold (`HangsOnlyWhenFull`, `NoInternalError`): a
  counterexample needs no proof.

## 5. Not modelled, and the plan

Left out of the modelled parts: the statistics in `PhysMemInfo`, `pmmIsPageRsvd`,
`kbdPeekKey` (no caller), ASCII values, colours and cursor shapes, scrolling down and
clearing single rows (no caller), the text the fault handlers print, the handler's
other message, "keyboard disabled", which is printed the same way, the bits of a
directory entry that the processor sets, `haveAvailPages` of pagealloctree.c.

Not modelled at all: time.c (kernel.c:62 calls it once at the start, only to print the
time, although its object is in a comment of libkrnl/Makefile:49; a torn reading depends
on how long a read of the hardware takes, which no source says), gdt.c, registers.c, ports.c
and getselectortext.c (processor and port access without logic of their own),
pagetable.c (not linked), number formatting (it only prints), what the kernel's
commands print.

The order of the plan, most important behaviour first:

1. *Done*: `PMM` and `KernelMemory` with `FrameOwnership`; `Ps2Kbd` and `KbdInput`
   with `KeyMailbox` and `LineEditor`; `Cursor`, `Screen` and `Console` with
   `Teletype`; their proofs.
2. *Done*: `PageDir`, `VMM` and `Paging`, with proofs.
3. *Done*: `HeapTree`, `SlabAlloc`, `Heap`, `PageAllocTree`.
4. *Done*: `BootInfo`, `CommandLine` and `CStrings`. Left: bit arrays, `memmove`,
   `snprintf` at the end of its buffer.
5. *Done*: the start as far as interrupts go, in `Interrupts`.
6. *Done*: the proofs of `Interrupts`, of vmmtests.c's chains and of shift.
7. *Done*: the proofs of `SaysTheTags`, `OptionsHeard` and `CommandIsItsWords`.
8. *Done*: the proofs of the screen, the trees, the slab allocators and the heap. Left:
   the liveness properties, which wait for a prover that knows fairness.
