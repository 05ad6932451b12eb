------------------------------ MODULE BootInfo ------------------------------
(***************************************************************************)
(* loadMultibootInfo (libkrnl/source/multiboot.c): the boot loader's tags, *)
(* read one by one in the order it left them, into multiboot_info.  The    *)
(* strings and their neighbours in the structure lie in memory cell by     *)
(* cell, since strncpy may write past a field; the rest of the structure   *)
(* is a record.                                                            *)
(***************************************************************************)
EXTENDS CStrings

CONSTANTS
  CmdSize, LoaderSize, ModSize,   \* the sizes of the structure's strings
  MaxRegions,                     \* regions of the memory map that are kept (10)
  Word, Wide,                     \* 2^32 and 2^64
  BootTags                        \* what the boot loader may leave: tags by address

ASSUME BootInfoAssumption ==
  {CmdSize, LoaderSize, ModSize, MaxRegions, Word, Wide} \subseteq Nat \ {0}

VARIABLES
  tags,     \* the boot loader's tags by their addresses (MULTIBOOT_INFO_ADDRESS)
  tag,      \* the address of the next one
  mem,      \* the strings of multiboot_info and the fields next to them
  info      \* its other fields
bvars == <<tags, tag, mem, info>>

\* Cells: cmdline, bootloadername, modules.start, .end, .string, meminfo.lower,
\* .upper; a number takes two, its lowest byte and the rest.
Cmd == 0
Loader == Cmd + CmdSize
ModStart == Loader + LoaderSize
ModEnd == ModStart + 2
ModString == ModEnd + 2
Lower == ModString + ModSize
Upper == Lower + 2
Cells == 0..(Upper + 1)
Put(m, a, v) == [m EXCEPT ![a] = v % 256, ![a + 1] = v \div 256]

END_TAG == 0
CMDLINE_TAG == 1
BOOT_LOADER_TAG == 2
MODULES_TAG == 3
MEMORY_SIZES_TAG == 4
BIOS_BOOT_DEV_TAG == 5
MMAP_TAG == 6
FRAMEBUFFER_TAG == 8
POWER_MGMT_TAG == 10
ACPI_OLD_RDSP_TAG == 14
ACPI_NEW_RDSP_TAG == 15
IMAGE_LOAD_BASE_TAG == 21

\* A tag as a boot loader fills it in: strings without their terminators, a memory
\* map as long as it says, an ACPI table that is somewhere.
WellFormed(t) ==
  /\ t.type \in Nat /\ t.size \in Nat \ {0}
  /\ t.type \in {CMDLINE_TAG, BOOT_LOADER_TAG, MODULES_TAG} => t.string \in Seq(1..255)
  /\ t.type = MMAP_TAG =>
       /\ t.entry \in Seq([base : 0..(Wide - 1), len : 0..(Wide - 1), type : Nat])
       /\ t.size = 16 + (24 * Len(t.entry))
  /\ t.type = ACPI_NEW_RDSP_TAG => t.value # 0
\* The first tag is at 8, each other at the first multiple of eight behind the one
\* before it, and the end tag is the last.
Follows(tab, a, b) ==
  /\ b >= a + tab[a].size /\ b < a + tab[a].size + 8
  /\ \A c \in DOMAIN tab : c <= a \/ c >= b
Placed(tab) ==
  /\ DOMAIN tab \subseteq {a \in Nat : a % 8 = 0} /\ 8 \in DOMAIN tab
  /\ \A a \in DOMAIN tab :
       /\ a >= 8
       /\ IF tab[a].type = END_TAG THEN \A c \in DOMAIN tab : c <= a
          ELSE \E b \in DOMAIN tab : Follows(tab, a, b)

ASSUME BootTagsAssumption ==
  \A tab \in BootTags : Placed(tab) /\ \A a \in DOMAIN tab : WellFormed(tab[a])

align8(x) == x + 7 - ((x + 7) % 8)

NoInfo == [bootdev |-> 0, mmap |-> <<>>, framebuf |-> <<>>, acpi |-> 0, base |-> 0, apm |-> 0]
BInit ==
  /\ tags \in BootTags
  /\ tag = 8
  /\ mem = [a \in Cells |-> NUL] /\ info = NoInfo

-----------------------------------------------------------------------------
\* The number of entries, from a header that is four words and counted as three;
\* a region's last address is its base and length less one, as 64-bit numbers.
Entries(t) == (t.size - 12) \div 24
buildMMAP(t) ==
  [i \in 1..Min({Entries(t), MaxRegions}) |->
     [base |-> t.entry[i].base, end |-> (t.entry[i].base + t.entry[i].len - 1) % Wide,
      type |-> t.entry[i].type]]

\* The palette is kept for the two kinds of colour that have one.
Framebuffer(t) == [address |-> t.value, palette |-> IF t.kind \in {0, 1} THEN t.kind ELSE 2]

StringTag(t) ==
  CASE t.type = CMDLINE_TAG     -> strncpy(mem, Cmd, t.string, CmdSize)
    [] t.type = BOOT_LOADER_TAG -> strncpy(mem, Loader, t.string, LoaderSize)
    [] t.type = MODULES_TAG     ->
         strncpy(Put(Put(mem, ModStart, t.start), ModEnd, t.end), ModString, t.string, ModSize)
    [] t.type = MEMORY_SIZES_TAG ->
         Put(Put(mem, Lower, (t.lower * 1024) % Word), Upper, (t.upper * 1024) % Word)
    [] OTHER -> mem

\* Fault: an old ACPI tag replaces a new one that came first.
OldAcpi_Always(t) == [info EXCEPT !.acpi = t.value]
OldAcpi(t) == IF info.acpi = 0 THEN [info EXCEPT !.acpi = t.value] ELSE info
OtherTag(t) ==
  CASE t.type = BIOS_BOOT_DEV_TAG   -> [info EXCEPT !.bootdev = t.value]
    [] t.type = MMAP_TAG            -> [info EXCEPT !.mmap = buildMMAP(t)]
    [] t.type = FRAMEBUFFER_TAG     -> [info EXCEPT !.framebuf = Framebuffer(t)]
    [] t.type = ACPI_OLD_RDSP_TAG   -> OldAcpi(t)
    [] t.type = ACPI_NEW_RDSP_TAG   -> [info EXCEPT !.acpi = t.value]
    [] t.type = IMAGE_LOAD_BASE_TAG -> [info EXCEPT !.base = t.value]
    [] t.type = POWER_MGMT_TAG      -> [info EXCEPT !.apm = t.value]
    [] OTHER -> info

Loaded == tags[tag].type = END_TAG
ReadTag ==
  /\ ~Loaded
  /\ mem' = StringTag(tags[tag]) /\ info' = OtherTag(tags[tag])
  /\ tag' = tag + align8(tags[tag].size)
  /\ UNCHANGED tags

-----------------------------------------------------------------------------
(* What the boot loader said.                                              *)

Said(type) == {a \in DOMAIN tags : tags[a].type = type}
\* The last tag of a kind: a later one replaces an earlier one.
LastSaid(type) == tags[Max(Said(type))]
Text(a) == [i \in 1..strlen(mem, a) |-> mem[a + i - 1]]
Fits(t, size) == Len(t.string) < size

\* The structure says what the tags say, whatever their order.  A string that
\* fits is there; one that does not is cut, and strncpy's terminator falls on the
\* field behind it, so that a string behind an overlong one may be lost when its
\* own tag came first.  An ACPI table of version 2 wins over one of version 1
\* in either order, and the first regions of the memory map are kept as they are.
StringSaid(type, at, size, before, sizeBefore) ==
  Said(type) # {} /\ Fits(LastSaid(type), size)
    /\ (\A a \in before : Fits(tags[a], sizeBefore) \/ a < Max(Said(type)))
  => Text(at) = LastSaid(type).string
RegionsSaid ==
  Said(MMAP_TAG) # {} =>
    LET e == LastSaid(MMAP_TAG).entry
    IN /\ Len(info.mmap) = Min({Len(e), MaxRegions})
       /\ \A i \in DOMAIN info.mmap :
            /\ info.mmap[i].base = e[i].base
            /\ e[i].len > 0 /\ e[i].base + e[i].len <= Wide =>
                 info.mmap[i].end - info.mmap[i].base + 1 = e[i].len
AcpiSaid ==
  LET New == Said(ACPI_NEW_RDSP_TAG) IN
  New # {} => info.acpi = LastSaid(ACPI_NEW_RDSP_TAG).value
SaysTheTags ==
  tag \in DOMAIN tags /\ (Loaded =>
    /\ StringSaid(CMDLINE_TAG, Cmd, CmdSize, {}, 0)
    /\ StringSaid(BOOT_LOADER_TAG, Loader, LoaderSize, Said(CMDLINE_TAG), CmdSize)
    /\ StringSaid(MODULES_TAG, ModString, ModSize, {}, 0)
    /\ RegionsSaid /\ AcpiSaid)
=============================================================================
