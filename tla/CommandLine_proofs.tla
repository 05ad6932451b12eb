------------------------- MODULE CommandLine_proofs -------------------------
(***************************************************************************)
(* Proofs about what kernel_main reads.  For every boot loader, whatever   *)
(* tags it leaves and in whatever order, the structure says what they say; *)
(* and of every command line that is written as it should be, the options  *)
(* that are heard take effect.                                             *)
(***************************************************************************)
EXTENDS CommandLine, WellFoundedInduction, FiniteSetTheorems, SequenceTheorems, TLAPS

-----------------------------------------------------------------------------
(* The inductive invariant: the structure says what the tags read so far   *)
(* said.                                                                   *)

\* The tags of a kind that were read, and the last of them.
ReadOf(type) == {a \in Said(type) : a < tag}
IsLast(a, type) == a \in ReadOf(type) /\ \A b \in ReadOf(type) : b <= a

\* A string and its terminator are in memory.
Holds(m, at, s) == (\A i \in 1..Len(s) : m[at + i - 1] = s[i]) /\ m[at + Len(s)] = NUL

\* The last string read is there, but for those that do not fit or were cut.
StringKept(type, at, size, before, sizeBefore) ==
  \A a : IsLast(a, type) /\ Fits(tags[a], size)
           /\ (\A b \in before : Fits(tags[b], sizeBefore) \/ b < a)
         => Holds(mem, at, tags[a].string)

Fields == {"bootdev", "mmap", "framebuf", "acpi", "base", "apm"}
Kinds == {tags[a].type : a \in DOMAIN tags}
TagsRead ==
  /\ tags \in BootTags /\ tag \in DOMAIN tags
  /\ DOMAIN mem = Cells /\ DOMAIN info = Fields
  /\ \A type \in Kinds : ReadOf(type) # {} => \E a \in ReadOf(type) : IsLast(a, type)
  /\ StringKept(CMDLINE_TAG, Cmd, CmdSize, {}, 0)
  /\ StringKept(BOOT_LOADER_TAG, Loader, LoaderSize, ReadOf(CMDLINE_TAG), CmdSize)
  /\ StringKept(MODULES_TAG, ModString, ModSize, {}, 0)
  /\ \A a : IsLast(a, MMAP_TAG) => info.mmap = buildMMAP(tags[a])
  /\ \A a : IsLast(a, ACPI_NEW_RDSP_TAG) => info.acpi = tags[a].value

-----------------------------------------------------------------------------
(* Writing a string into memory.                                           *)

\* The fields, one behind the other.
LEMMA FieldsInOrder ==
  /\ CmdSize \in Nat \ {0} /\ LoaderSize \in Nat \ {0} /\ ModSize \in Nat \ {0}
  /\ Cmd \in Nat /\ Loader \in Nat /\ ModStart \in Nat /\ ModEnd \in Nat /\ ModString \in Nat
  /\ Lower \in Nat /\ Upper \in Nat
  /\ Cmd = 0 /\ Loader = CmdSize /\ ModStart = Loader + LoaderSize
  /\ ModEnd = ModStart + 2 /\ ModString = ModEnd + 2
  /\ Lower = ModString + ModSize /\ Upper = Lower + 2
BY BootInfoAssumption DEF Cmd, Loader, ModStart, ModEnd, ModString, Lower, Upper

LEMMA CellsAre == \A c : c \in Cells <=> c \in Nat /\ c <= Upper + 1
BY FieldsInOrder DEF Cells

LEMMA Element == ASSUME NEW S, NEW q \in Seq(S), NEW k \in 1..Len(q) PROVE q[k] \in S
OBVIOUS

\* No more is copied than the destination holds, and all of a string that fits.
LEMMA Copied ==
  ASSUME NEW s \in Seq(1..255), NEW size \in Nat \ {0}
  PROVE  /\ CopyLen(s, size) \in 0..size /\ CopyLen(s, size) <= Len(s)
         /\ Len(s) < size => CopyLen(s, size) = Len(s)
<1>1. Len(s) \in Nat
  OBVIOUS
<1>2. Min({Len(s), size}) = IF Len(s) < size THEN Len(s) ELSE size
  BY <1>1 DEF Min
<1> QED BY <1>1, <1>2 DEF CopyLen

\* strncpy changes its destination only, and the cell behind it when the source does
\* not fit; a source that fits is there afterwards.
LEMMA StrncpyDoes ==
  ASSUME NEW m, DOMAIN m = Cells, NEW s \in Seq(1..255), NEW size \in Nat \ {0},
         NEW at \in Nat, at + size <= Upper
  PROVE  LET r == strncpy(m, at, s, size)
         IN  /\ DOMAIN r = Cells
             /\ \A c \in Cells : c < at \/ c > at + size => r[c] = m[c]
             /\ Len(s) < size => r[at + size] = m[at + size]
             /\ Len(s) < size => Holds(r, at, s)
<1> DEFINE n == CopyLen(s, size)
           r == strncpy(m, at, s, size)
<1>1. n \in 0..size /\ n <= Len(s) /\ (Len(s) < size => n = Len(s)) /\ Len(s) \in Nat
  BY Copied
<1>2. r = [a \in Cells |-> IF a \in at..(at + n - 1) THEN s[a - at + 1]
                           ELSE IF a = at + n THEN NUL ELSE m[a]]
  BY DEF strncpy
<1> HIDE DEF n, r
<1>3. DOMAIN r = Cells
  BY <1>2
<1>4. \A c \in Cells : c < at \/ c > at + size => r[c] = m[c]
  BY <1>1, <1>2, FieldsInOrder, CellsAre
<1>5. ASSUME Len(s) < size PROVE r[at + size] = m[at + size]
  BY <1>1, <1>2, <1>5, FieldsInOrder, CellsAre
<1>6. ASSUME Len(s) < size PROVE Holds(r, at, s)
  <2>1. ASSUME NEW i \in 1..Len(s) PROVE r[at + i - 1] = s[i]
    <3>1. at + i - 1 \in Cells /\ at + i - 1 \in at..(at + n - 1) /\ (at + i - 1) - at + 1 = i
      BY <1>1, <1>6, FieldsInOrder, CellsAre
    <3> QED BY <1>2, <3>1
  <2>2. r[at + Len(s)] = NUL
    <3>1. at + n \in Cells /\ at + n \notin at..(at + n - 1)
      BY <1>1, FieldsInOrder, CellsAre
    <3> QED BY <1>1, <1>2, <1>6, <3>1
  <2> QED BY <2>1, <2>2 DEF Holds
<1> QED BY <1>3, <1>4, <1>5, <1>6 DEF r

\* A string stays as long as the cells of its field do.
LEMMA HoldsOn ==
  ASSUME NEW m, NEW r, NEW s \in Seq(1..255), NEW size \in Nat, NEW at \in Nat, Len(s) < size,
         Holds(m, at, s), \A c \in at..(at + size - 1) : r[c] = m[c]
  PROVE  Holds(r, at, s)
<1>1. ASSUME NEW i \in 1..Len(s) PROVE at + i - 1 \in at..(at + size - 1)
  OBVIOUS
<1>2. at + Len(s) \in at..(at + size - 1)
  OBVIOUS
<1> QED BY <1>1, <1>2 DEF Holds

\* A number takes two cells.
LEMMA PutDoes ==
  ASSUME NEW m, DOMAIN m = Cells, NEW a \in Nat, NEW v
  PROVE  /\ DOMAIN Put(m, a, v) = Cells
         /\ \A c \in Cells : c # a /\ c # a + 1 => Put(m, a, v)[c] = m[c]
BY DEF Put

\* What a tag writes of the strings: its own, and the cell behind it if it does not
\* fit.
SameOn(r, at, size) == \A c \in at..(at + size - 1) : r[c] = mem[c]
StringTypes == {CMDLINE_TAG, BOOT_LOADER_TAG, MODULES_TAG}
LEMMA StringTagDoes ==
  ASSUME NEW t, WellFormed(t), DOMAIN mem = Cells
  PROVE  LET r == StringTag(t)
         IN  /\ DOMAIN r = Cells
             /\ t.type # CMDLINE_TAG => SameOn(r, Cmd, CmdSize)
             /\ t.type # BOOT_LOADER_TAG /\ (t.type = CMDLINE_TAG => Fits(t, CmdSize)) =>
                  SameOn(r, Loader, LoaderSize)
             /\ t.type # MODULES_TAG => SameOn(r, ModString, ModSize)
             /\ t.type = CMDLINE_TAG /\ Fits(t, CmdSize) => Holds(r, Cmd, t.string)
             /\ t.type = BOOT_LOADER_TAG /\ Fits(t, LoaderSize) => Holds(r, Loader, t.string)
             /\ t.type = MODULES_TAG /\ Fits(t, ModSize) => Holds(r, ModString, t.string)
<1> DEFINE r == StringTag(t)
<1>0. /\ CMDLINE_TAG = 1 /\ BOOT_LOADER_TAG = 2 /\ MODULES_TAG = 3 /\ MEMORY_SIZES_TAG = 4
  BY DEF CMDLINE_TAG, BOOT_LOADER_TAG, MODULES_TAG, MEMORY_SIZES_TAG
<1>1. CASE t.type = CMDLINE_TAG
  <2>1. r = strncpy(mem, Cmd, t.string, CmdSize) /\ t.string \in Seq(1..255)
    BY <1>0, <1>1 DEF StringTag, WellFormed
  <2>2. /\ DOMAIN r = Cells
        /\ \A c \in Cells : c < Cmd \/ c > Cmd + CmdSize => r[c] = mem[c]
        /\ Fits(t, CmdSize) => r[Cmd + CmdSize] = mem[Cmd + CmdSize]
        /\ Fits(t, CmdSize) => Holds(r, Cmd, t.string)
    BY <2>1, StrncpyDoes, FieldsInOrder DEF Fits
  <2> HIDE DEF r
  <2>3. SameOn(r, ModString, ModSize)
    BY <2>2, FieldsInOrder, CellsAre DEF SameOn
  <2>4. Fits(t, CmdSize) => SameOn(r, Loader, LoaderSize)
    BY <2>2, FieldsInOrder, CellsAre DEF SameOn
  <2>5. t.type # BOOT_LOADER_TAG /\ t.type # MODULES_TAG
    BY <1>0, <1>1
  <2> QED BY <1>1, <2>2, <2>3, <2>4, <2>5 DEF r
<1>2. CASE t.type = BOOT_LOADER_TAG
  <2>1. r = strncpy(mem, Loader, t.string, LoaderSize) /\ t.string \in Seq(1..255)
    BY <1>0, <1>2 DEF StringTag, WellFormed
  <2>2. /\ DOMAIN r = Cells
        /\ \A c \in Cells : c < Loader \/ c > Loader + LoaderSize => r[c] = mem[c]
        /\ Fits(t, LoaderSize) => Holds(r, Loader, t.string)
    <3>1. Loader \in Nat /\ LoaderSize \in Nat \ {0} /\ Loader + LoaderSize <= Upper
      BY FieldsInOrder
    <3> HIDE DEF r
    <3> QED BY <2>1, <3>1, StrncpyDoes DEF Fits
  <2> HIDE DEF r
  <2>3. SameOn(r, ModString, ModSize) /\ SameOn(r, Cmd, CmdSize)
    BY <2>2, FieldsInOrder, CellsAre DEF SameOn
  <2>5. t.type # CMDLINE_TAG /\ t.type # MODULES_TAG
    BY <1>0, <1>2
  <2> QED BY <1>2, <2>2, <2>3, <2>5 DEF r
<1>3. CASE t.type = MODULES_TAG
  <2> DEFINE p == Put(Put(mem, ModStart, t.start), ModEnd, t.end)
  <2>0. DOMAIN p = Cells /\ \A c \in Cells : c < ModStart \/ c >= ModString => p[c] = mem[c]
    <3>1. DOMAIN Put(mem, ModStart, t.start) = Cells
      BY PutDoes, FieldsInOrder, CellsAre
    <3>2. DOMAIN p = Cells
      BY <3>1, PutDoes, FieldsInOrder, CellsAre
    <3>3. ASSUME NEW c \in Cells, c < ModStart \/ c >= ModString PROVE p[c] = mem[c]
      <4>1. c # ModStart /\ c # ModStart + 1 /\ c # ModEnd /\ c # ModEnd + 1
        BY <3>3, FieldsInOrder, CellsAre
      <4>2. Put(mem, ModStart, t.start)[c] = mem[c]
        BY <4>1, PutDoes, FieldsInOrder, CellsAre
      <4>3. p[c] = Put(mem, ModStart, t.start)[c]
        BY <3>1, <4>1, PutDoes, FieldsInOrder, CellsAre
      <4> QED BY <4>2, <4>3
    <3> QED BY <3>2, <3>3
  <2>1. r = strncpy(p, ModString, t.string, ModSize) /\ t.string \in Seq(1..255)
    BY <1>0, <1>3 DEF StringTag, WellFormed
  <2> HIDE DEF p
  <2>2. /\ DOMAIN r = Cells
        /\ \A c \in Cells : c < ModString \/ c > ModString + ModSize => r[c] = p[c]
        /\ Fits(t, ModSize) => Holds(r, ModString, t.string)
    <3>1. ModString \in Nat /\ ModSize \in Nat \ {0} /\ ModString + ModSize <= Upper
      BY FieldsInOrder
    <3> HIDE DEF r
    <3> QED BY <2>0, <2>1, <3>1, StrncpyDoes DEF Fits
  <2> HIDE DEF r
  <2>3. SameOn(r, Cmd, CmdSize) /\ SameOn(r, Loader, LoaderSize)
    BY <2>0, <2>2, FieldsInOrder, CellsAre DEF SameOn
  <2>5. t.type # CMDLINE_TAG /\ t.type # BOOT_LOADER_TAG
    BY <1>0, <1>3
  <2> QED BY <1>3, <2>2, <2>3, <2>5 DEF r
<1>4. CASE t.type = MEMORY_SIZES_TAG
  <2> DEFINE l == (t.lower * 1024) % Word
             u == (t.upper * 1024) % Word
  <2>1. r = Put(Put(mem, Lower, l), Upper, u)
    BY <1>0, <1>4 DEF StringTag
  <2> HIDE DEF r, l, u
  <2>2. DOMAIN Put(mem, Lower, l) = Cells
    BY PutDoes, FieldsInOrder, CellsAre
  <2>3. DOMAIN r = Cells
    BY <2>1, <2>2, PutDoes, FieldsInOrder, CellsAre
  <2>4. ASSUME NEW c \in Cells, c < Lower PROVE r[c] = mem[c]
    <3>1. c # Lower /\ c # Lower + 1 /\ c # Upper /\ c # Upper + 1
      BY <2>4, FieldsInOrder, CellsAre
    <3>2. Put(mem, Lower, l)[c] = mem[c]
      BY <3>1, PutDoes, FieldsInOrder, CellsAre
    <3>3. r[c] = Put(mem, Lower, l)[c]
      BY <2>1, <2>2, <3>1, PutDoes, FieldsInOrder, CellsAre
    <3> QED BY <3>2, <3>3
  <2>5. SameOn(r, Cmd, CmdSize) /\ SameOn(r, Loader, LoaderSize) /\ SameOn(r, ModString, ModSize)
    BY <2>4, FieldsInOrder, CellsAre DEF SameOn
  <2>6. t.type \notin StringTypes
    BY <1>0, <1>4 DEF StringTypes
  <2> QED BY <2>3, <2>5, <2>6 DEF r, StringTypes
<1>5. CASE t.type \notin StringTypes \cup {MEMORY_SIZES_TAG}
  <2>1. r = mem
    BY <1>0, <1>5 DEF StringTag, StringTypes
  <2> QED BY <1>5, <2>1 DEF SameOn, StringTypes
<1> QED BY <1>1, <1>2, <1>3, <1>4, <1>5 DEF StringTypes

-----------------------------------------------------------------------------
(* A tag is read.                                                          *)

\* The address of a tag's neighbour is where align8 finds it.
LEMMA NextTag ==
  ASSUME NEW tab, Placed(tab), NEW a \in DOMAIN tab, tab[a].size \in Nat \ {0},
         tab[a].type # END_TAG
  PROVE  /\ a + align8(tab[a].size) \in DOMAIN tab /\ a + align8(tab[a].size) \in Nat
         /\ a \in Nat /\ a < a + align8(tab[a].size)
         /\ \A c \in DOMAIN tab : c \in Nat /\ (c < a + align8(tab[a].size) <=> c <= a)
<1>1. PICK b \in DOMAIN tab : Follows(tab, a, b)
  BY DEF Placed
<1>2. a \in Nat /\ a % 8 = 0 /\ b \in Nat /\ b % 8 = 0 /\ \A c \in DOMAIN tab : c \in Nat
  BY DEF Placed
<1>3. PICK n : n = tab[a].size
  OBVIOUS
<1>4. n \in Nat \ {0} /\ b >= a + n /\ b < a + n + 8 /\ \A c \in DOMAIN tab : c <= a \/ c >= b
  BY <1>1, <1>3 DEF Follows
<1>5. a + align8(n) = b
  <2>1. align8(n) = n + 7 - ((n + 7) % 8)
    BY DEF align8
  <2>2. PICK p \in Int, q \in Int : a = 8 * p /\ b = 8 * q
    <3>1. a = 8 * (a \div 8) /\ a \div 8 \in Int /\ b = 8 * (b \div 8) /\ b \div 8 \in Int
      BY <1>2
    <3> QED BY <3>1
  <2>3. PICK k \in Int, r \in 0..7 : n + 7 = 8 * k + r /\ r = (n + 7) % 8
    BY <1>4
  <2>4. 8 * q >= 8 * p + n /\ 8 * q < 8 * p + n + 8
    BY <1>4, <2>2
  <2>5. q = p + k
    BY ONLY <2>2, <2>3, <2>4, <1>4
  <2> QED BY ONLY <2>1, <2>2, <2>3, <2>5, <1>4
<1> QED BY <1>2, <1>3, <1>4, <1>5

\* One more tag of its kind is read, and is the last of them.
LEMMA OneMore ==
  ASSUME TagsRead, ReadTag
  PROVE  /\ tags' = tags /\ tag' \in DOMAIN tags /\ WellFormed(tags[tag])
         /\ tag \in Nat /\ tag \notin ReadOf(tags[tag].type)
         /\ \A type : type = tags[tag].type => ReadOf(type)' = ReadOf(type) \cup {tag}
         /\ \A type : type # tags[tag].type => ReadOf(type)' = ReadOf(type)
         /\ \A type : \A a \in ReadOf(type) : a \in Nat /\ a < tag
<1>1. /\ tags' = tags /\ tag' = tag + align8(tags[tag].size) /\ tags[tag].type # END_TAG
      /\ tags \in BootTags /\ tag \in DOMAIN tags
  BY DEF ReadTag, TagsRead, Loaded
<1>2. Placed(tags) /\ WellFormed(tags[tag])
  BY <1>1, BootTagsAssumption
<1>3. tags[tag].size \in Nat \ {0}
  BY <1>2 DEF WellFormed
<1>4. /\ tag' \in DOMAIN tags /\ tag \in Nat
      /\ \A c \in DOMAIN tags : c \in Nat /\ (c < tag' <=> c <= tag)
  BY <1>1, <1>2, <1>3, NextTag
<1>5. ASSUME NEW type PROVE ReadOf(type)' = {a \in Said(type) : a <= tag}
  BY <1>1, <1>4 DEF ReadOf, Said
<1>6. ASSUME NEW type PROVE \A a \in ReadOf(type) : a \in Nat /\ a < tag
  BY <1>4 DEF ReadOf, Said
<1>7. tag \notin ReadOf(tags[tag].type)
  BY <1>4 DEF ReadOf
<1>8. ASSUME NEW type, type = tags[tag].type PROVE ReadOf(type)' = ReadOf(type) \cup {tag}
  BY <1>1, <1>4, <1>5, <1>8 DEF ReadOf, Said
<1>9. ASSUME NEW type, type # tags[tag].type PROVE ReadOf(type)' = ReadOf(type)
  BY <1>1, <1>4, <1>5, <1>9 DEF ReadOf, Said
<1> QED BY <1>1, <1>2, <1>4, <1>6, <1>7, <1>8, <1>9

\* The last of the kind read is the tag, of the others what it was.
LEMMA LastOfKind ==
  ASSUME TagsRead, ReadTag, NEW a, NEW type, IsLast(a, type)'
  PROVE  IF tags[tag].type = type THEN a = tag ELSE IsLast(a, type)
<1>1. CASE tags[tag].type = type
  <2>1. a \in ReadOf(type) \cup {tag} /\ \A b \in ReadOf(type) \cup {tag} : b <= a
    BY <1>1, OneMore DEF IsLast
  <2> QED BY <1>1, <2>1, OneMore
<1>2. CASE tags[tag].type # type
  BY <1>2, OneMore DEF IsLast
<1> QED BY <1>1, <1>2

\* The strings that were kept stay, and the one of the tag is there.
LEMMA StringStays ==
  ASSUME TagsRead, ReadTag, NEW type, NEW at \in Nat, NEW size \in Nat, NEW before,
         NEW before2, NEW sizeBefore, StringKept(type, at, size, before, sizeBefore),
         type \in StringTypes, before \subseteq before2,
         tags[tag].type = type /\ Fits(tags[tag], size) => Holds(mem', at, tags[tag].string),
         tags[tag].type # type /\ (tag \in before2 => Fits(tags[tag], sizeBefore)) =>
           SameOn(mem', at, size),
         NEW a, IsLast(a, type)', Fits(tags[a], size),
         \A b \in before2 : Fits(tags[b], sizeBefore) \/ b < a
  PROVE  Holds(mem', at, tags[a].string)
<1>1. CASE tags[tag].type = type
  BY <1>1, LastOfKind
<1>2. CASE tags[tag].type # type
  <2>1. IsLast(a, type)
    BY <1>2, LastOfKind
  <2>2. Holds(mem, at, tags[a].string)
    BY <2>1 DEF StringKept
  <2>3. a \in Nat /\ tag \in Nat /\ a < tag /\ a \in DOMAIN tags /\ tags[a].type = type
    BY <2>1, OneMore DEF IsLast, ReadOf, Said
  <2>4. SameOn(mem', at, size)
    BY <1>2, <2>3
  <2>5. tags[a].string \in Seq(1..255)
    <3>1. WellFormed(tags[a])
      BY <2>3, BootTagsAssumption DEF TagsRead
    <3> QED BY <2>3, <3>1 DEF WellFormed, StringTypes
  <2>6. Len(tags[a].string) < size
    BY DEF Fits
  <2>7. \A c \in at..(at + size - 1) : mem'[c] = mem[c]
    BY <2>4 DEF SameOn
  <2>8. PICK s : s = tags[a].string
    OBVIOUS
  <2>9. s \in Seq(1..255) /\ Len(s) < size /\ Holds(mem, at, s)
    BY <2>2, <2>5, <2>6, <2>8
  <2>10. Holds(mem', at, s)
    BY <2>7, <2>9, HoldsOn
  <2> QED BY <2>8, <2>10
<1> QED BY <1>1, <1>2

\* What the tag does to the other fields.
LEMMA OtherTagDoes ==
  ASSUME TagsRead, NEW t, t.type \in Nat
  PROVE  /\ DOMAIN OtherTag(t) = Fields
         /\ OtherTag(t).mmap = IF t.type = MMAP_TAG THEN buildMMAP(t) ELSE info.mmap
         /\ t.type = ACPI_NEW_RDSP_TAG => OtherTag(t).acpi = t.value
         /\ t.type # ACPI_NEW_RDSP_TAG /\ info.acpi # 0 => OtherTag(t).acpi = info.acpi
BY DEF TagsRead, Fields, OtherTag, OldAcpi, BIOS_BOOT_DEV_TAG, MMAP_TAG, FRAMEBUFFER_TAG,
       ACPI_OLD_RDSP_TAG, ACPI_NEW_RDSP_TAG, IMAGE_LOAD_BASE_TAG, POWER_MGMT_TAG

LEMMA ReadTagKeeps == ASSUME TagsRead, ReadTag PROVE TagsRead'
<1>0. tags[tag].type \in Nat /\ tag \in DOMAIN tags /\ WellFormed(tags[tag]) /\ DOMAIN mem = Cells
  BY OneMore DEF WellFormed, TagsRead
<1>1. /\ tags' = tags /\ mem' = StringTag(tags[tag]) /\ info' = OtherTag(tags[tag])
  BY DEF ReadTag
<1>2. tags' \in BootTags /\ tag' \in DOMAIN tags'
  BY <1>1, OneMore DEF TagsRead
<1>3. DOMAIN mem' = Cells /\ DOMAIN info' = Fields
  BY <1>0, <1>1, StringTagDoes, OtherTagDoes
<1>4. ASSUME NEW type \in Kinds', ReadOf(type)' # {}
      PROVE  \E a \in ReadOf(type)' : IsLast(a, type)'
  <2>1. CASE tags[tag].type = type
    <3>1. \A b \in ReadOf(type) : b <= tag
      BY OneMore
    <3> QED BY <2>1, <3>1, OneMore DEF IsLast
  <2>2. CASE tags[tag].type # type
    <3>1. ReadOf(type) # {} /\ type \in Kinds
      BY <1>1, <1>4, <2>2, OneMore DEF Kinds
    <3>2. PICK a \in ReadOf(type) : IsLast(a, type)
      BY <3>1 DEF TagsRead
    <3> QED BY <2>2, <3>2, OneMore DEF IsLast
  <2> QED BY <2>1, <2>2
<1>5. /\ CMDLINE_TAG \in StringTypes /\ BOOT_LOADER_TAG \in StringTypes /\ MODULES_TAG \in StringTypes
      /\ CMDLINE_TAG # BOOT_LOADER_TAG
  BY DEF StringTypes, CMDLINE_TAG, BOOT_LOADER_TAG
<1>6. StringKept(CMDLINE_TAG, Cmd, CmdSize, {}, 0)'
  <2> SUFFICES ASSUME NEW a, IsLast(a, CMDLINE_TAG)', Fits(tags[a], CmdSize)
               PROVE  Holds(mem', Cmd, tags[a].string)
    BY <1>1 DEF StringKept, Fits
  <2>1. StringKept(CMDLINE_TAG, Cmd, CmdSize, {}, 0)
    BY DEF TagsRead
  <2>2. tags[tag].type = CMDLINE_TAG /\ Fits(tags[tag], CmdSize) => Holds(mem', Cmd, tags[tag].string)
    BY <1>0, <1>1, StringTagDoes
  <2>3. tags[tag].type # CMDLINE_TAG => SameOn(mem', Cmd, CmdSize)
    BY <1>0, <1>1, StringTagDoes
  <2> QED BY <1>5, <2>1, <2>2, <2>3, StringStays, FieldsInOrder
<1>7. StringKept(BOOT_LOADER_TAG, Loader, LoaderSize, ReadOf(CMDLINE_TAG), CmdSize)'
  <2> SUFFICES ASSUME NEW a, IsLast(a, BOOT_LOADER_TAG)', Fits(tags[a], LoaderSize),
                      \A b \in ReadOf(CMDLINE_TAG)' : Fits(tags[b], CmdSize) \/ b < a
               PROVE  Holds(mem', Loader, tags[a].string)
    BY <1>1 DEF StringKept, Fits
  <2>1. StringKept(BOOT_LOADER_TAG, Loader, LoaderSize, ReadOf(CMDLINE_TAG), CmdSize)
    BY DEF TagsRead
  <2>2. tags[tag].type = BOOT_LOADER_TAG /\ Fits(tags[tag], LoaderSize) =>
          Holds(mem', Loader, tags[tag].string)
    BY <1>0, <1>1, StringTagDoes
  <2>3. ReadOf(CMDLINE_TAG) \subseteq ReadOf(CMDLINE_TAG)'
    BY OneMore
  <2>4. tags[tag].type = CMDLINE_TAG => tag \in ReadOf(CMDLINE_TAG)'
    BY OneMore
  <2>5. tags[tag].type # BOOT_LOADER_TAG
          /\ (tag \in ReadOf(CMDLINE_TAG)' => Fits(tags[tag], CmdSize)) =>
          SameOn(mem', Loader, LoaderSize)
    BY <1>0, <1>1, <2>4, StringTagDoes
  <2> QED BY <1>5, <2>1, <2>2, <2>3, <2>5, StringStays, FieldsInOrder
<1>8. StringKept(MODULES_TAG, ModString, ModSize, {}, 0)'
  <2> SUFFICES ASSUME NEW a, IsLast(a, MODULES_TAG)', Fits(tags[a], ModSize)
               PROVE  Holds(mem', ModString, tags[a].string)
    BY <1>1 DEF StringKept, Fits
  <2>1. StringKept(MODULES_TAG, ModString, ModSize, {}, 0)
    BY DEF TagsRead
  <2>2. tags[tag].type = MODULES_TAG /\ Fits(tags[tag], ModSize) =>
          Holds(mem', ModString, tags[tag].string)
    BY <1>0, <1>1, StringTagDoes
  <2>3. tags[tag].type # MODULES_TAG => SameOn(mem', ModString, ModSize)
    BY <1>0, <1>1, StringTagDoes
  <2> QED BY <1>5, <2>1, <2>2, <2>3, StringStays, FieldsInOrder
<1>9. ASSUME NEW a, IsLast(a, MMAP_TAG)' PROVE info'.mmap = buildMMAP(tags'[a])
  <2>1. CASE tags[tag].type = MMAP_TAG
    BY <1>0, <1>1, <1>9, <2>1, LastOfKind, OtherTagDoes
  <2>2. CASE tags[tag].type # MMAP_TAG
    <3>1. info.mmap = buildMMAP(tags[a])
      BY <1>9, <2>2, LastOfKind DEF TagsRead
    <3> QED BY <1>0, <1>1, <2>2, <3>1, OtherTagDoes
  <2> QED BY <2>1, <2>2
<1>10. ASSUME NEW a, IsLast(a, ACPI_NEW_RDSP_TAG)' PROVE info'.acpi = tags'[a].value
  <2>1. CASE tags[tag].type = ACPI_NEW_RDSP_TAG
    BY <1>0, <1>1, <1>10, <2>1, LastOfKind, OtherTagDoes
  <2>2. CASE tags[tag].type # ACPI_NEW_RDSP_TAG
    <3>1. info.acpi = tags[a].value /\ IsLast(a, ACPI_NEW_RDSP_TAG)
      BY <1>10, <2>2, LastOfKind DEF TagsRead
    <3>2. info.acpi # 0
      <4>1. a \in DOMAIN tags /\ tags[a].type = ACPI_NEW_RDSP_TAG
        BY <3>1 DEF IsLast, ReadOf, Said
      <4>2. WellFormed(tags[a])
        BY <4>1, BootTagsAssumption DEF TagsRead
      <4> QED BY <3>1, <4>1, <4>2 DEF WellFormed
    <3> QED BY <1>0, <1>1, <2>2, <3>1, <3>2, OtherTagDoes
  <2> QED BY <2>1, <2>2
<1> QED BY <1>2, <1>3, <1>4, <1>6, <1>7, <1>8, <1>9, <1>10 DEF TagsRead

LEMMA BootReads ==
  /\ CLInit => TagsRead
  /\ TagsRead /\ [CLNext]_clvars => TagsRead'
<1>1. CLInit => TagsRead
  <2> SUFFICES ASSUME BInit PROVE TagsRead
    BY DEF CLInit
  <2>1. Placed(tags) /\ tags \in BootTags
    BY BootTagsAssumption DEF BInit
  <2>2. tag \in DOMAIN tags /\ \A a \in DOMAIN tags : a \in Nat /\ ~(a < tag)
    BY <2>1 DEF Placed, BInit
  <2>3. ASSUME NEW type PROVE ReadOf(type) = {}
    BY <2>2 DEF ReadOf, Said
  <2>4. DOMAIN mem = Cells /\ DOMAIN info = Fields
    BY DEF BInit, NoInfo, Fields
  <2> QED BY <2>1, <2>2, <2>3, <2>4 DEF TagsRead, IsLast, StringKept
<1>2. ASSUME TagsRead, UNCHANGED bvars PROVE TagsRead'
  <2>1. tags' = tags /\ tag' = tag /\ mem' = mem /\ info' = info
    BY <1>2 DEF bvars
  <2>2. \A type : ReadOf(type)' = ReadOf(type)
    BY <2>1 DEF ReadOf, Said
  <2>3. \A a, type : IsLast(a, type)' <=> IsLast(a, type)
    BY <2>2 DEF IsLast
  <2>5. StringKept(BOOT_LOADER_TAG, Loader, LoaderSize, ReadOf(CMDLINE_TAG), CmdSize)'
    <3>1. PICK before : before = ReadOf(CMDLINE_TAG)
      OBVIOUS
    <3>2. StringKept(BOOT_LOADER_TAG, Loader, LoaderSize, before, CmdSize)
      BY <1>2, <3>1 DEF TagsRead
    <3>3. StringKept(BOOT_LOADER_TAG, Loader, LoaderSize, before, CmdSize)'
      BY <2>1, <2>3, <3>2 DEF StringKept, Fits, Holds
    <3>4. ReadOf(CMDLINE_TAG)' = before
      BY <2>2, <3>1
    <3> QED BY <3>3, <3>4 DEF StringKept
  <2>6. \A a : IsLast(a, MMAP_TAG)' => info'.mmap = buildMMAP(tags'[a])
    BY <1>2, <2>1, <2>3 DEF TagsRead
  <2>7. \A type \in Kinds' : ReadOf(type)' # {} => \E a \in ReadOf(type)' : IsLast(a, type)'
    <3>1. Kinds' = Kinds
      BY <2>1 DEF Kinds
    <3> QED BY <1>2, <2>2, <2>3, <3>1 DEF TagsRead
  <2>8. /\ StringKept(CMDLINE_TAG, Cmd, CmdSize, {}, 0)'
        /\ StringKept(MODULES_TAG, ModString, ModSize, {}, 0)'
    BY <1>2, <2>1, <2>3 DEF TagsRead, StringKept, Fits, Holds
  <2>9. \A a : IsLast(a, ACPI_NEW_RDSP_TAG)' => info'.acpi = tags'[a].value
    BY <1>2, <2>1, <2>3 DEF TagsRead
  <2>10. tags' \in BootTags /\ tag' \in DOMAIN tags' /\ DOMAIN mem' = Cells /\ DOMAIN info' = Fields
    BY <1>2, <2>1 DEF TagsRead
  <2> QED BY <2>5, <2>6, <2>7, <2>8, <2>9, <2>10 DEF TagsRead
<1>3. [CLNext]_clvars => ReadTag \/ UNCHANGED bvars
  BY DEF CLNext, clvars, Boot, Booted, Split, Option, Processed, Shell
<1> QED BY <1>1, <1>2, <1>3, ReadTagKeeps

-----------------------------------------------------------------------------
(* What was read is what was said.                                         *)

\* A string in memory is read back as it was written.
LEMMA ReadBack ==
  ASSUME DOMAIN mem = Cells, NEW s \in Seq(1..255), NEW at \in Nat, at + Len(s) <= Upper,
         Holds(mem, at, s)
  PROVE  Text(at) = s
<1> DEFINE last == Max(DOMAIN mem)
           Ends == {n \in 0..(last - at + 1) : at + n > last \/ mem[at + n] = NUL}
<1>0. strlen(mem, at) = Min(Ends)
  BY DEF strlen
<1>1. last = Upper + 1
  BY FieldsInOrder, CellsAre DEF Max
<1> HIDE DEF last
<1>2. Len(s) \in Ends
  BY <1>1, FieldsInOrder DEF Holds
<1>3. \A n \in Ends : Len(s) <= n
  <2> SUFFICES ASSUME NEW n \in Ends, n < Len(s) PROVE FALSE
    BY <1>1, FieldsInOrder
  <2>1. PICK k : k = n + 1
    OBVIOUS
  <2>2. k \in 1..Len(s) /\ at + k - 1 = at + n /\ ~(at + n > last)
    BY <1>1, <2>1, FieldsInOrder
  <2>3. mem[at + n] = s[k]
    BY <2>2 DEF Holds
  <2>4. s[k] \in 1..255
    BY <2>2, Element
  <2>5. mem[at + n] = NUL
    BY <2>2
  <2> QED BY <2>3, <2>4, <2>5 DEF NUL
<1>4. strlen(mem, at) = Len(s)
  <2>2. \A n \in Ends : n \in Int
    BY <1>1, FieldsInOrder
  <2> HIDE DEF Ends
  <2>3. \A n \in Ends : (\A k \in Ends : n <= k) => n = Len(s)
    BY <1>2, <1>3, <2>2
  <2> QED BY <1>0, <1>2, <1>3, <2>3 DEF Min
<1>5. Text(at) = [i \in 1..Len(s) |-> mem[at + i - 1]]
  BY <1>4 DEF Text
<1>6. Text(at) = [i \in 1..Len(s) |-> s[i]]
  BY <1>5 DEF Holds
<1> QED BY <1>6

\* When all tags were read, the last of a kind is the one LastSaid finds.
LEMMA AllRead ==
  ASSUME TagsRead, Loaded, NEW type, type # END_TAG, Said(type) # {}
  PROVE  /\ IsLast(Max(Said(type)), type) /\ ReadOf(type) = Said(type)
         /\ Max(Said(type)) \in DOMAIN tags /\ Max(Said(type)) \in Nat
         /\ WellFormed(LastSaid(type)) /\ LastSaid(type).type = type
<1>1. Placed(tags) /\ \A a \in DOMAIN tags : WellFormed(tags[a])
  BY BootTagsAssumption DEF TagsRead
<1>2. tag \in DOMAIN tags /\ \A c \in DOMAIN tags : c \in Nat /\ c <= tag
  BY <1>1 DEF TagsRead, Loaded, Placed
<1>3. ReadOf(type) = Said(type)
  BY <1>2 DEF ReadOf, Said, Loaded
<1>4. PICK a \in Said(type) : \A b \in Said(type) : b <= a
  <2>1. type \in Kinds
    BY DEF Said, Kinds
  <2>2. \E a \in ReadOf(type) : IsLast(a, type)
    BY <1>3, <2>1 DEF TagsRead
  <2> QED BY <1>3, <2>2 DEF IsLast
<1>5. \A b \in Said(type) : b \in Nat
  BY <1>2 DEF Said
<1>6. Max(Said(type)) \in Said(type) /\ \A b \in Said(type) : b <= Max(Said(type))
  <2>1. \A b \in Said(type) : a >= b
    BY <1>4, <1>5
  <2>2. Max(Said(type)) \in Said(type) /\ \A b \in Said(type) : Max(Said(type)) >= b
    BY <1>4, <2>1 DEF Max
  <2> QED BY <1>5, <2>2
<1>7. Max(Said(type)) \in DOMAIN tags /\ tags[Max(Said(type))].type = type
  BY <1>6 DEF Said
<1> QED BY <1>1, <1>2, <1>3, <1>6, <1>7 DEF IsLast, LastSaid

\* A string that was said, fits, and was not cut is the text of its field.
LEMMA TextSaid ==
  ASSUME TagsRead, Loaded, NEW type \in StringTypes, NEW at \in Nat, NEW size \in Nat,
         at + size <= Upper, NEW before, NEW sizeBefore,
         StringKept(type, at, size, before, sizeBefore)
  PROVE  StringSaid(type, at, size, before, sizeBefore)
<1> SUFFICES ASSUME Said(type) # {}, Fits(LastSaid(type), size),
                    \A a \in before : Fits(tags[a], sizeBefore) \/ a < Max(Said(type))
             PROVE  Text(at) = LastSaid(type).string
  BY DEF StringSaid
<1>1. type # END_TAG
  BY DEF StringTypes, END_TAG, CMDLINE_TAG, BOOT_LOADER_TAG, MODULES_TAG
<1>2. PICK s : s = LastSaid(type).string
  OBVIOUS
<1>3. s \in Seq(1..255)
  BY <1>1, <1>2, AllRead DEF WellFormed, StringTypes
<1>4. Len(s) < size
  BY <1>2 DEF Fits
<1>5. Holds(mem, at, s)
  BY <1>1, <1>2, AllRead DEF StringKept, LastSaid
<1>6. Text(at) = s
  <2>1. DOMAIN mem = Cells
    BY DEF TagsRead
  <2>2. at + Len(s) <= Upper
    BY <1>3, <1>4, FieldsInOrder
  <2> QED BY <1>3, <1>5, <2>1, <2>2, ReadBack
<1> QED BY <1>2, <1>6

\* The first regions of the memory map, each with its first and its last byte.
LEMMA RegionsRead ==
  ASSUME NEW t, WellFormed(t), t.type = MMAP_TAG, NEW map, map = buildMMAP(t)
  PROVE  /\ Len(map) = Min({Len(t.entry), MaxRegions})
         /\ \A i \in DOMAIN map :
              /\ map[i].base = t.entry[i].base
              /\ t.entry[i].len > 0 /\ t.entry[i].base + t.entry[i].len <= Wide =>
                   map[i].end - map[i].base + 1 = t.entry[i].len
<1>1. PICK e : e = t.entry
  OBVIOUS
<1>2. e \in Seq([base : 0..(Wide - 1), len : 0..(Wide - 1), type : Nat])
      /\ t.size = 16 + (24 * Len(e))
  BY <1>1 DEF WellFormed
<1>3. Entries(t) = Len(e)
  <2>1. Len(e) \in Nat
    BY <1>2
  <2>2. (16 + (24 * Len(e)) - 12) \div 24 = Len(e)
    BY <2>1
  <2> QED BY <1>2, <2>2 DEF Entries
<1>4. PICK n : n = Min({Len(e), MaxRegions})
  OBVIOUS
<1>5. n \in Nat /\ n <= Len(e) /\ Wide \in Nat \ {0}
  <2>1. Len(e) \in Nat /\ MaxRegions \in Nat /\ Wide \in Nat \ {0}
    BY <1>2, BootInfoAssumption
  <2>2. n = IF Len(e) < MaxRegions THEN Len(e) ELSE MaxRegions
    BY <1>4, <2>1 DEF Min
  <2> QED BY <2>1, <2>2
<1>6. map = [i \in 1..n |->
               [base |-> e[i].base, end |-> (e[i].base + e[i].len - 1) % Wide, type |-> e[i].type]]
  BY <1>1, <1>3, <1>4 DEF buildMMAP
<1>7. Len(map) = n /\ DOMAIN map = 1..n
  BY <1>5, <1>6
<1>8. ASSUME NEW i \in 1..n
      PROVE  /\ map[i].base = e[i].base
             /\ e[i].len > 0 /\ e[i].base + e[i].len <= Wide =>
                  map[i].end - map[i].base + 1 = e[i].len
  <2>1. map[i].base = e[i].base /\ map[i].end = (e[i].base + e[i].len - 1) % Wide
    BY <1>6
  <2>2. PICK b, l : b = e[i].base /\ l = e[i].len
    OBVIOUS
  <2>3. b \in Nat /\ l \in Nat
    <3>1. i \in 1..Len(e)
      BY <1>2, <1>5
    <3>2. e[i] \in [base : 0..(Wide - 1), len : 0..(Wide - 1), type : Nat]
      BY <1>2, <3>1, Element
    <3> QED BY <1>5, <2>2, <3>2
  <2>4. ASSUME l > 0, b + l <= Wide PROVE (b + l - 1) % Wide = b + l - 1
    BY <1>5, <2>3, <2>4
  <2> QED BY <2>1, <2>2, <2>3, <2>4
<1> QED BY <1>1, <1>4, <1>7, <1>8

\* The kernel believes what its boot loader says, whatever tags there are and in
\* whatever order they come: the strings that fit, the first regions of the memory
\* map, the ACPI table of the newer version (loadMultibootInfo).
THEOREM SaysWhatTagsSay == CLSpec => []SaysTheTags
<1>1. TagsRead => SaysTheTags
  <2> SUFFICES ASSUME TagsRead, Loaded
               PROVE  /\ StringSaid(CMDLINE_TAG, Cmd, CmdSize, {}, 0)
                      /\ StringSaid(BOOT_LOADER_TAG, Loader, LoaderSize, Said(CMDLINE_TAG), CmdSize)
                      /\ StringSaid(MODULES_TAG, ModString, ModSize, {}, 0)
                      /\ RegionsSaid /\ AcpiSaid
    BY DEF SaysTheTags, TagsRead
  <2>0. CMDLINE_TAG \in StringTypes /\ BOOT_LOADER_TAG \in StringTypes /\ MODULES_TAG \in StringTypes
    BY DEF StringTypes
  <2>1. StringSaid(CMDLINE_TAG, Cmd, CmdSize, {}, 0)
    <3>1. StringKept(CMDLINE_TAG, Cmd, CmdSize, {}, 0)
      BY DEF TagsRead
    <3>2. Cmd \in Nat /\ CmdSize \in Nat /\ Cmd + CmdSize <= Upper
      BY FieldsInOrder
    <3> QED BY <2>0, <3>1, <3>2, TextSaid
  <2>2. StringSaid(BOOT_LOADER_TAG, Loader, LoaderSize, Said(CMDLINE_TAG), CmdSize)
    <3>1. ReadOf(CMDLINE_TAG) = Said(CMDLINE_TAG)
      <4>1. CMDLINE_TAG # END_TAG
        BY DEF CMDLINE_TAG, END_TAG
      <4>2. Said(CMDLINE_TAG) = {} => ReadOf(CMDLINE_TAG) = {}
        BY DEF ReadOf
      <4> QED BY <4>1, <4>2, AllRead
    <3>2. StringKept(BOOT_LOADER_TAG, Loader, LoaderSize, Said(CMDLINE_TAG), CmdSize)
      BY <3>1 DEF TagsRead
    <3>3. Loader \in Nat /\ LoaderSize \in Nat /\ Loader + LoaderSize <= Upper
      BY FieldsInOrder
    <3> QED BY <2>0, <3>2, <3>3, TextSaid
  <2>3. StringSaid(MODULES_TAG, ModString, ModSize, {}, 0)
    <3>1. StringKept(MODULES_TAG, ModString, ModSize, {}, 0)
      BY DEF TagsRead
    <3>2. ModString \in Nat /\ ModSize \in Nat /\ ModString + ModSize <= Upper
      BY FieldsInOrder
    <3> QED BY <2>0, <3>1, <3>2, TextSaid
  <2>4. RegionsSaid
    <3> SUFFICES ASSUME Said(MMAP_TAG) # {}
                 PROVE  LET e == LastSaid(MMAP_TAG).entry
                        IN  /\ Len(info.mmap) = Min({Len(e), MaxRegions})
                            /\ \A i \in DOMAIN info.mmap :
                                 /\ info.mmap[i].base = e[i].base
                                 /\ e[i].len > 0 /\ e[i].base + e[i].len <= Wide =>
                                      info.mmap[i].end - info.mmap[i].base + 1 = e[i].len
      BY DEF RegionsSaid
    <3>1. MMAP_TAG # END_TAG
      BY DEF MMAP_TAG, END_TAG
    <3>2. info.mmap = buildMMAP(LastSaid(MMAP_TAG))
      BY <3>1, AllRead DEF TagsRead, LastSaid
    <3>3. WellFormed(LastSaid(MMAP_TAG)) /\ LastSaid(MMAP_TAG).type = MMAP_TAG
      BY <3>1, AllRead
    <3> QED BY <3>2, <3>3, RegionsRead
  <2>5. AcpiSaid
    <3>1. ACPI_NEW_RDSP_TAG # END_TAG
      BY DEF ACPI_NEW_RDSP_TAG, END_TAG
    <3> QED BY <3>1, AllRead DEF TagsRead, LastSaid, AcpiSaid
  <2> QED BY <2>1, <2>2, <2>3, <2>4, <2>5
<1> QED BY <1>1, BootReads, PTL DEF CLSpec

-----------------------------------------------------------------------------
(* Tokens.                                                                 *)

\* A set of natural numbers that is not empty has a least one, and Min finds it.
LEMMA Least ==
  ASSUME NEW S \in SUBSET Nat, S # {}
  PROVE  Min(S) \in S /\ \A m \in S : Min(S) <= m
<1> DEFINE R == {ss \in Nat \X Nat : ss[1] < ss[2]}
<1>1. IsWellFoundedOn(R, Nat)
  BY NatLessThanWellFounded DEF OpToRel
<1>2. PICK n \in S : \A m \in S : ~ (<<m, n>> \in R)
  <2> HIDE DEF R
  <2> QED BY <1>1, WFMin
<1>3. ASSUME NEW m \in S PROVE n <= m
  <2>1. ~ (<<m, n>> \in R)
    BY <1>2
  <2>2. m \in Nat /\ n \in Nat
    OBVIOUS
  <2> QED BY <2>1, <2>2
<1> QED BY <1>3 DEF Min

\* A text is a string without terminators: the terminator is behind it.
IsText(s) == \E C : NUL \notin C /\ s \in Seq(C)

LEMMA AtIs ==
  ASSUME NEW s, IsText(s), NEW i \in Nat
  PROVE  /\ Len(s) \in Nat /\ DOMAIN s = 1..Len(s)
         /\ i < Len(s) => At(s, i) = s[i + 1] /\ At(s, i) # NUL
         /\ i >= Len(s) => At(s, i) = NUL
<1>1. PICK C : NUL \notin C /\ s \in Seq(C)
  BY DEF IsText
<1>2. Len(s) \in Nat /\ DOMAIN s = 1..Len(s)
  BY <1>1
<1>3. ASSUME i < Len(s) PROVE At(s, i) = s[i + 1] /\ At(s, i) # NUL
  <2>1. PICK k : k = i + 1
    OBVIOUS
  <2>2. k \in 1..Len(s)
    BY <1>2, <1>3, <2>1
  <2>3. s[k] \in C
    BY <1>1, <2>2, Element
  <2>4. At(s, i) = s[k]
    BY <1>3, <2>1 DEF At
  <2> QED BY <1>1, <2>1, <2>3, <2>4
<1>4. i >= Len(s) => At(s, i) = NUL
  BY <1>2 DEF At
<1> QED BY <1>2, <1>3, <1>4

\* A part of a text is one.
LEMMA PartOfText ==
  ASSUME NEW s, IsText(s), NEW a \in Nat \ {0}, NEW b \in Nat, b <= Len(s)
  PROVE  /\ IsText(SubSeq(s, a, b))
         /\ Len(SubSeq(s, a, b)) = IF a <= b THEN b - a + 1 ELSE 0
         /\ \A i \in 1..(b - a + 1) : SubSeq(s, a, b)[i] = s[a + i - 1]
<1>1. PICK C : NUL \notin C /\ s \in Seq(C)
  BY DEF IsText
<1>2. SubSeq(s, a, b) \in Seq(C)
  BY <1>1
<1>3. Len(SubSeq(s, a, b)) = IF a <= b THEN b - a + 1 ELSE 0
  BY <1>1
<1>4. \A i \in 1..(b - a + 1) : SubSeq(s, a, b)[i] = s[a + i - 1]
  BY <1>1
<1> QED BY <1>1, <1>2, <1>3, <1>4 DEF IsText

\* Where a token begins and ends.
Leading(s, D, L, from, f) ==
  /\ f \in Nat /\ from <= f /\ f <= L
  /\ \A i \in from..(f - 1) : i < Len(s) /\ s[i + 1] \in D
  /\ f >= L \/ f >= Len(s) \/ s[f + 1] \notin D
Body(s, D, L, f, n) ==
  /\ n \in 0..(L - 1)
  /\ \A k \in 0..(n - 1) : f + k < Len(s) /\ s[f + k + 1] \notin D
  /\ n = L - 1 \/ f + n >= Len(s) \/ s[f + n + 1] \in D
LEMMA TokenIs ==
  ASSUME NEW s, IsText(s), NEW D, NUL \notin D, NEW L \in Nat \ {0}, NEW from \in 0..L
  PROVE  \E f, n : 
           /\ Leading(s, D, L, from, f) /\ Body(s, D, L, f, n)
           /\ f >= Len(s) => strtokbuf(s, D, L, from) = NoToken
           /\ f < Len(s) =>
                /\ strtokbuf(s, D, L, from).found
                /\ strtokbuf(s, D, L, from).token = SubSeq(s, f + 1, f + n)
                /\ strtokbuf(s, D, L, from).next =
                     IF f + n < Len(s) /\ s[f + n + 1] \in D THEN f + n + 1 ELSE f + n
<1> DEFINE Firsts == {i \in from..(from + Len(s) + 1) :
                        i >= L \/ At(s, i) = NUL \/ ~isdelim(At(s, i), D)}
           f == Min(Firsts)
           Counts == {n \in 0..(L - 1) : n = L - 1 \/ At(s, f + n) = NUL \/ isdelim(At(s, f + n), D)}
           n == Min(Counts)
           T == strtokbuf(s, D, L, from)
<1>1. Len(s) \in Nat /\ \A i \in Nat : (i < Len(s) => At(s, i) = s[i + 1] /\ At(s, i) # NUL)
                                       /\ (i >= Len(s) => At(s, i) = NUL)
  BY AtIs
<1>2. f \in Firsts /\ \A i \in Firsts : f <= i
  <2>1. Firsts \subseteq Nat
    BY <1>1
  <2>2. from + Len(s) \in Firsts
    BY <1>1
  <2> HIDE DEF Firsts
  <2> QED BY <2>1, <2>2, Least
<1>3. f \in Nat /\ from <= f
  BY <1>2
<1>4. T = IF At(s, f) = NUL THEN NoToken
          ELSE [found |-> TRUE, token |-> SubSeq(s, f + 1, f + n),
                next |-> IF At(s, f + n) # NUL /\ isdelim(At(s, f + n), D) THEN f + n + 1 ELSE f + n]
  BY DEF strtokbuf, Token
<1> HIDE DEF T
<1>5. Leading(s, D, L, from, f)
  <2> HIDE DEF f
  <2>1. ASSUME NEW i \in from..(f - 1)
        PROVE  i < L /\ i < Len(s) /\ s[i + 1] \in D
    <3>1. i \in Nat /\ i < f /\ i \in from..(from + Len(s) + 1)
      BY <1>1, <1>2, <1>3
    <3>2. i \notin Firsts
      BY <1>2, <3>1
    <3>3. i < L /\ At(s, i) # NUL /\ isdelim(At(s, i), D)
      BY <3>1, <3>2
    <3> QED BY <1>1, <3>1, <3>3 DEF isdelim
  <2>2. f <= L
    <3>1. CASE f = from
      BY <3>1
    <3>2. CASE f # from
      <4>1. f - 1 \in from..(f - 1)
        BY <1>3, <3>2
      <4>2. f - 1 < L
        BY <2>1, <4>1
      <4> QED BY <1>3, <4>2
    <3> QED BY <3>1, <3>2
  <2>3. f >= L \/ f >= Len(s) \/ s[f + 1] \notin D
    BY <1>1, <1>2, <1>3 DEF isdelim
  <2> QED BY <1>3, <2>1, <2>2, <2>3 DEF Leading
<1>6. n \in Counts /\ \A k \in Counts : n <= k
  <2>1. Counts \subseteq Nat
    OBVIOUS
  <2>2. L - 1 \in Counts
    OBVIOUS
  <2> HIDE DEF Counts
  <2> QED BY <2>1, <2>2, Least
<1>7. Body(s, D, L, f, n)
  <2> HIDE DEF f, n
  <2>1. ASSUME NEW k \in 0..(n - 1)
        PROVE  f + k < Len(s) /\ s[f + k + 1] \notin D
    <3>1. k \in 0..(L - 1) /\ k < n /\ f + k \in Nat
      BY <1>3, <1>6
    <3>2. k \notin Counts
      BY <1>6, <3>1
    <3>3. At(s, f + k) # NUL /\ ~isdelim(At(s, f + k), D)
      BY <3>1, <3>2
    <3> QED BY <1>1, <3>1, <3>3 DEF isdelim
  <2>2. f + n \in Nat
    BY <1>3, <1>6
  <2>3. n = L - 1 \/ f + n >= Len(s) \/ s[f + n + 1] \in D
    BY <1>1, <1>6, <2>2 DEF isdelim
  <2> QED BY <1>6, <2>1, <2>3 DEF Body
<1>8. f >= Len(s) => T = NoToken
  BY <1>1, <1>3, <1>4
<1>9. ASSUME f < Len(s)
      PROVE  /\ T.found /\ T.token = SubSeq(s, f + 1, f + n)
             /\ T.next = IF f + n < Len(s) /\ s[f + n + 1] \in D THEN f + n + 1 ELSE f + n
  <2>1. At(s, f) # NUL
    BY <1>1, <1>3, <1>9
  <2>2. f + n \in Nat
    BY <1>3, <1>6
  <2> HIDE DEF f, n
  <2>3. (At(s, f + n) # NUL /\ isdelim(At(s, f + n), D)) <=> (f + n < Len(s) /\ s[f + n + 1] \in D)
    BY <1>1, <2>2 DEF isdelim
  <2> QED BY <1>4, <2>1, <2>3
<1> HIDE DEF f, n
<1> QED BY <1>5, <1>7, <1>8, <1>9 DEF T

-----------------------------------------------------------------------------
(* The invariant of the command line: which words were found, and what     *)
(* those processed have done.                                              *)

Pieces(s) == {<<>>} \cup {WordAt(s, i) : i \in Begins(s)}
Found(s, n) == {i \in Begins(s) : i <= n}
Members(q) == {q[k] : k \in 1..Len(q)}

\* Where strtokbuf goes on: at the beginning, behind the end, behind a blank.
Boundary(s, n) == n \in Nat /\ (n = 0 \/ n >= Len(s) \/ s[n] \in Spaces)
\* The words of s that begin before n are those found, but for an empty one that
\* is found where the buffer's length ends the search.
Splitting(s, n, q) ==
  /\ Boundary(s, n)
  /\ \A i \in Found(s, n) : i <= MAX_OPTION_LEN + 1 /\ WordAt(s, i) \in Members(q)
  /\ \A w \in Members(q) : w = <<>> \/ \E i \in Found(s, n) : w = WordAt(s, i)
  /\ Cardinality(Found(s, n)) <= Len(q) /\ Len(q) <= MAX_OPTIONS
  /\ n <= MAX_OPTION_LEN => Cardinality(Found(s, n)) = Len(q)

\* What the words of P have done to the options o and the result r.
Effect(P, o, r) ==
  /\ o \in [heapSizePages : Nat, useVideo : BOOLEAN] /\ r \in BOOLEAN
  /\ o.useVideo <=> NoVideo \notin P
  /\ \/ o.heapSizePages = MIN_HEAP_PAGES
     \/ \E w \in P : HeapOption(w) /\ o.heapSizePages = Asked(w)
  /\ o.heapSizePages >= MIN_HEAP_PAGES
  /\ \A w \in P : HeapOption(w) => Asked(w) \in Nat /\ Asked(w) <= o.heapSizePages
  /\ ~r => \E w \in P : KernelOption(w) /\ (HeapOption(w) => Asked(w) < o.heapSizePages)
Acting(s, q, o, r) ==
  \E P \in SUBSET (Heard(s) \cup {<<>>}) :
    /\ Heard(s) \subseteq P \cup Members(q) /\ Members(q) \subseteq Heard(s) \cup {<<>>}
    /\ Effect(P, o, r)

Fresh == [heapSizePages |-> MIN_HEAP_PAGES, useVideo |-> TRUE]
LineInv ==
  /\ pc = "boot" => start = 0 /\ options = <<>> /\ rtncde = TRUE
  /\ pc # "boot" /\ Ordinary(Text(Cmd)) =>
       /\ options \in Seq(Pieces(Text(Cmd)))
       /\ pc = "split" => Splitting(Text(Cmd), start, options) /\ opts = Fresh /\ rtncde = TRUE
       /\ pc # "split" => Acting(Text(Cmd), options, opts, rtncde)
       /\ pc \notin {"split", "options"} => options = <<>>
       /\ pc = "aborted" => ~rtncde

-----------------------------------------------------------------------------
(* Words.                                                                  *)

\* Where a word ends.
LEMMA WordEnd ==
  ASSUME NEW s, IsText(s), NEW i \in Begins(s)
  PROVE  /\ i \in Nat \ {0} /\ i <= Len(s) /\ Len(s) \in Nat
         /\ \E e \in i..Len(s) :
              /\ WordAt(s, i) = SubSeq(s, i, e)
              /\ \A k \in i..e : s[k] \notin Spaces
              /\ e >= Len(s) \/ s[e + 1] \in Spaces
<1> DEFINE Ends == {j \in i..Len(s) : j = Len(s) \/ s[j + 1] \in Spaces}
           e == Min(Ends)
<1>1. Len(s) \in Nat /\ DOMAIN s = 1..Len(s)
  BY AtIs
<1>2. i \in 1..Len(s) /\ s[i] \notin Spaces
  BY <1>1 DEF Begins
<1>3. e \in Ends /\ \A j \in Ends : e <= j
  <2>1. Ends \subseteq Nat /\ Len(s) \in Ends
    BY <1>1, <1>2
  <2> HIDE DEF Ends
  <2> QED BY <2>1, Least
<1>4. WordAt(s, i) = SubSeq(s, i, e)
  BY DEF WordAt
<1> HIDE DEF e
<1>6. e \in Nat /\ e <= Len(s) /\ i <= e /\ i \in Nat
  <2>1. e \in i..Len(s)
    BY <1>3
  <2> QED BY <1>1, <1>2, <2>1
<1>5. ASSUME NEW k \in i..e PROVE s[k] \notin Spaces
  <2>0. k \in Nat /\ i <= k /\ k <= e
    BY <1>6
  <2>1. CASE k = i
    BY <1>2, <2>1
  <2>2. CASE k # i
    <3>1. PICK j : j = k - 1
      OBVIOUS
    <3>2. j \in i..Len(s) /\ j < e /\ j \in Nat /\ j + 1 = k
      BY <1>1, <1>6, <2>0, <2>2, <3>1
    <3>3. j \notin Ends
      BY <1>3, <3>2
    <3> QED BY <3>2, <3>3
  <2> QED BY <2>1, <2>2
<1>7. e >= Len(s) \/ s[e + 1] \in Spaces
  <2>1. e = Len(s) \/ s[e + 1] \in Spaces
    BY <1>3
  <2>2. e = Len(s) => e >= Len(s)
    BY <1>1
  <2> QED BY <2>1, <2>2
<1> QED BY <1>1, <1>2, <1>4, <1>5, <1>6, <1>7

\* A word is a text that is not empty, without blanks.
LEMMA WordIs ==
  ASSUME NEW s, IsText(s), NEW i \in Begins(s)
  PROVE  /\ IsText(WordAt(s, i)) /\ WordAt(s, i) # <<>>
         /\ \A k \in 1..Len(WordAt(s, i)) : WordAt(s, i)[k] \notin Spaces
<1>1. i \in Nat \ {0} /\ i <= Len(s) /\ Len(s) \in Nat
  BY WordEnd
<1>2. PICK e \in i..Len(s) : WordAt(s, i) = SubSeq(s, i, e) /\ \A k \in i..e : s[k] \notin Spaces
  BY WordEnd
<1>3. PICK w : w = SubSeq(s, i, e)
  OBVIOUS
<1>4. IsText(w) /\ Len(w) = e - i + 1 /\ \A k \in 1..(e - i + 1) : w[k] = s[i + k - 1]
  <2>1. e \in Nat /\ e <= Len(s) /\ i <= e
    BY <1>1, <1>2
  <2> QED BY <1>1, <1>3, <2>1, PartOfText
<1>5. w # <<>>
  <2>1. Len(<<>>) = 0
    OBVIOUS
  <2> QED BY <1>1, <1>4, <2>1
<1>6. ASSUME NEW k \in 1..Len(w) PROVE w[k] \notin Spaces
  <2>1. i + k - 1 \in i..e
    BY <1>1, <1>4
  <2> QED BY <1>2, <1>4, <2>1
<1> QED BY <1>2, <1>3, <1>4, <1>5, <1>6

\* What strtokbuf finds in a line of words that fit: nothing, when no word is left;
\* the next word; or, when the blanks reach the end of the buffer's length, an empty
\* one.
NextIs(s, L, n, t) ==
  \/ ~t.found /\ \A i \in Begins(s) : i <= n
  \/ /\ t.found /\ t.token = <<>> /\ t.next = L + 1 /\ Boundary(s, t.next) /\ Len(s) > L
     /\ \A i \in Begins(s) : i <= t.next => i <= n
  \/ \E i \in Begins(s) :
       /\ n < i /\ i <= L + 1
       /\ t.found /\ t.token = WordAt(s, i)
       /\ t.next >= i /\ t.next <= Len(s) /\ Boundary(s, t.next)
       /\ \A j \in Begins(s) : j <= t.next => j <= n \/ j = i
LEMMA NextWord ==
  ASSUME NEW s, IsText(s), NEW L \in Nat \ {0}, \A i \in Begins(s) : Len(WordAt(s, i)) < L,
         NEW n \in 0..L, Boundary(s, n), NEW t, t = strtokbuf(s, Spaces, L, n)
  PROVE  NextIs(s, L, n, t)
<1>0. Len(s) \in Nat /\ DOMAIN s = 1..Len(s) /\ L \in Nat /\ n \in Nat
  BY AtIs
<1>1. PICK f, m :
        /\ Leading(s, Spaces, L, n, f) /\ Body(s, Spaces, L, f, m)
        /\ f >= Len(s) => t = NoToken
        /\ f < Len(s) => 
             /\ t.found
             /\ t.token = SubSeq(s, f + 1, f + m)
             /\ t.next = IF f + m < Len(s) /\ s[f + m + 1] \in Spaces THEN f + m + 1 ELSE f + m
  <2>1. NUL \notin Spaces /\ L \in Nat \ {0} /\ n \in 0..L
    BY <1>0 DEF NUL, Spaces
  <2> QED BY <1>0, <2>1, TokenIs
<1>2. /\ f \in Nat /\ n <= f /\ f <= L
      /\ \A i \in n..(f - 1) : i < Len(s) /\ s[i + 1] \in Spaces
      /\ f >= L \/ f >= Len(s) \/ s[f + 1] \notin Spaces
  BY <1>1 DEF Leading
<1>3. /\ m \in Nat /\ m <= L - 1
      /\ \A k \in 0..(m - 1) : f + k < Len(s) /\ s[f + k + 1] \notin Spaces
      /\ m = L - 1 \/ f + m >= Len(s) \/ s[f + m + 1] \in Spaces
  BY <1>1 DEF Body
<1>4. \A j \in Begins(s) : j \in Nat \ {0} /\ j <= Len(s) /\ s[j] \notin Spaces
                           /\ (j # 1 => s[j - 1] \in Spaces)
  BY <1>0 DEF Begins
<1>5. ASSUME NEW j \in Begins(s), j > n PROVE j > f
  <2> SUFFICES ASSUME j <= f PROVE FALSE
    BY <1>2, <1>4
  <2>1. j - 1 \in n..(f - 1) /\ (j - 1) + 1 = j
    BY <1>0, <1>2, <1>4, <1>5
  <2> QED BY <1>2, <1>4, <2>1
<1>6. CASE f >= Len(s)
  <2>1. ~t.found
    BY <1>1, <1>6 DEF NoToken
  <2>2. \A i \in Begins(s) : i <= n
    BY <1>0, <1>2, <1>4, <1>5, <1>6
  <2> QED BY <2>1, <2>2 DEF NextIs
<1>7. CASE f < Len(s) /\ s[f + 1] \in Spaces
  <2>1. f = L
    BY <1>0, <1>2, <1>7
  <2>2. m = 0
    <3> SUFFICES ASSUME m # 0 PROVE FALSE
      OBVIOUS
    <3>1. 0 \in 0..(m - 1) /\ f + 0 + 1 = f + 1
      BY <1>2, <1>3
    <3> QED BY <1>3, <1>7, <3>1
  <2>3. t.found /\ t.token = SubSeq(s, f + 1, f)
    BY <1>1, <1>2, <1>7, <2>2
  <2>4. t.token = <<>>
    <3>1. PICK C : NUL \notin C /\ s \in Seq(C)
      BY DEF IsText
    <3> QED BY <1>2, <2>3, <3>1
  <2>5. t.next = L + 1
    BY <1>1, <1>2, <1>7, <2>1, <2>2
  <2>6. Boundary(s, L + 1)
    BY <1>7, <2>1 DEF Boundary
  <2>7. ASSUME NEW i \in Begins(s), i <= L + 1 PROVE i <= n
    <3> SUFFICES ASSUME i > n PROVE FALSE
      BY <1>0, <1>4
    <3>1. i = L + 1
      BY <1>4, <1>5, <2>1, <2>7
    <3> QED BY <1>4, <1>7, <2>1, <3>1
  <2>8. Len(s) > L
    BY <1>0, <1>7, <2>1
  <2> QED BY <1>0, <2>3, <2>4, <2>5, <2>6, <2>7, <2>8 DEF NextIs
<1>8. CASE f < Len(s) /\ s[f + 1] \notin Spaces
  <2>0. PICK i : i = f + 1
    OBVIOUS
  <2>1. i \in Begins(s)
    <3>1. i \in 1..Len(s) /\ i - 1 = f /\ s[i] \notin Spaces
      BY <1>0, <1>2, <1>8, <2>0
    <3>2. CASE f > n
      <4>1. f - 1 \in n..(f - 1) /\ (f - 1) + 1 = f
        BY <1>0, <1>2, <3>2
      <4>2. s[f] \in Spaces
        BY <1>2, <4>1
      <4> QED BY <1>0, <3>1, <4>2 DEF Begins
    <3>3. CASE f = n
      <4>1. n = 0 \/ s[n] \in Spaces
        BY <1>0, <1>8, <3>3 DEF Boundary
      <4>2. i = 1 \/ s[i - 1] \in Spaces
        BY <3>1, <3>3, <4>1, <2>0
      <4> QED BY <1>0, <3>1, <4>2 DEF Begins
    <3> QED BY <1>0, <1>2, <3>2, <3>3
  <2>2. PICK e \in i..Len(s) : 
          /\ WordAt(s, i) = SubSeq(s, i, e)
          /\ \A k \in i..e : s[k] \notin Spaces
          /\ e >= Len(s) \/ s[e + 1] \in Spaces
    BY <2>1, WordEnd
  <2>3. e \in Nat /\ e >= i /\ e <= Len(s)
    <3>1. e \in i..Len(s)
      BY <2>2
    <3> QED BY <1>0, <1>2, <2>0, <3>1
  <2>12. (\A k \in i..e : s[k] \notin Spaces) /\ (e >= Len(s) \/ s[e + 1] \in Spaces)
    BY <2>2
  <2>4. e - f <= L - 1
    <3>1. Len(WordAt(s, i)) < L
      BY <2>1
    <3>2. Len(SubSeq(s, i, e)) = e - i + 1
      <4>1. i \in Nat \ {0}
        BY <1>2, <2>0
      <4> QED BY <2>3, <4>1, PartOfText
    <3> QED BY <1>2, <2>0, <2>2, <2>3, <3>1, <3>2
  <2>5. f + m = e
    <3>1. ~(f + m < e)
      <4> SUFFICES ASSUME f + m < e PROVE FALSE
        OBVIOUS
      <4>1. f + m + 1 \in i..e /\ f + m < Len(s) /\ m < L - 1
        BY <1>2, <1>3, <2>0, <2>3, <2>4
      <4>2. s[f + m + 1] \in Spaces
        BY <1>0, <1>2, <1>3, <4>1
      <4> QED BY <2>12, <4>1, <4>2
    <3>2. ~(f + m > e)
      <4> SUFFICES ASSUME f + m > e PROVE FALSE
        OBVIOUS
      <4>1. PICK k : k = e - f
        OBVIOUS
      <4>2. k \in 0..(m - 1) /\ f + k = e /\ f + k + 1 = e + 1
        BY <1>2, <1>3, <2>0, <2>3, <4>1
      <4>3. e < Len(s) /\ s[e + 1] \notin Spaces
        BY <1>3, <4>2
      <4> QED BY <1>0, <2>3, <2>12, <4>3
    <3> QED BY <1>2, <1>3, <2>3, <3>1, <3>2
  <2>6. t.found /\ t.token = WordAt(s, i)
    BY <1>1, <1>8, <2>0, <2>2, <2>5
  <2>7. t.next = IF e < Len(s) /\ s[e + 1] \in Spaces THEN e + 1 ELSE e
    BY <1>1, <1>8, <2>5
  <2>8. t.next >= i /\ Boundary(s, t.next)
    <3>1. CASE e < Len(s)
      <4>1. t.next = e + 1 /\ s[e + 1] \in Spaces
        BY <1>0, <2>12, <2>3, <2>7, <3>1
      <4> QED BY <1>2, <2>0, <2>3, <4>1 DEF Boundary
    <3>2. CASE e >= Len(s)
      <4>1. t.next = e
        BY <1>0, <2>7, <3>2
      <4> QED BY <1>0, <1>2, <2>0, <2>3, <3>2, <4>1 DEF Boundary
    <3> QED BY <1>0, <2>3, <3>1, <3>2
  <2>9. ASSUME NEW j \in Begins(s), j <= t.next, j > n PROVE j = i
    <3>1. j > f
      BY <1>5, <2>9
    <3> SUFFICES ASSUME j > i PROVE FALSE
      BY <1>2, <1>4, <2>0, <3>1
    <3>2. j - 1 \in Nat /\ j # 1 /\ s[j - 1] \in Spaces
      BY <1>2, <1>4, <2>0
    <3>3. CASE j <= e
      <4>1. j - 1 \in i..e
        BY <1>2, <1>4, <2>0, <2>3, <3>3
      <4> QED BY <2>12, <3>2, <4>1
    <3>4. CASE j = e + 1
      <4>1. s[e + 1] \in Spaces
        BY <1>4, <2>3, <2>12, <1>0, <3>4
      <4> QED BY <1>4, <3>4, <4>1
    <3>5. j <= e \/ j = e + 1
      BY <1>4, <2>3, <2>7, <2>9
    <3> QED BY <3>3, <3>4, <3>5
  <2>10. n < i /\ i <= L + 1
    BY <1>0, <1>2, <2>0
  <2>11. \A j \in Begins(s) : j <= t.next => j <= n \/ j = i
    BY <1>0, <1>4, <2>9
  <2>13. t.next <= Len(s)
    BY <1>0, <2>3, <2>7
  <2> QED BY <1>0, <2>1, <2>6, <2>8, <2>10, <2>11, <2>13 DEF NextIs
<1> QED BY <1>0, <1>2, <1>6, <1>7, <1>8

-----------------------------------------------------------------------------
(* Options.                                                                *)

\* Texts of the same characters are the same.
LEMMA TextEqual ==
  ASSUME NEW a, IsText(a), NEW b, IsText(b), Len(a) = Len(b), \A k \in 1..Len(a) : a[k] = b[k]
  PROVE  a = b
<1>1. PICK C : a \in Seq(C)
  BY DEF IsText
<1>2. PICK D : b \in Seq(D)
  BY DEF IsText
<1>3. a \in Seq(C \cup D) /\ b \in Seq(C \cup D)
  BY <1>1, <1>2
<1> QED BY <1>3, SeqEqual

\* strncmp is 0 for equal texts only, when the second is shorter than what it
\* compares.
LEMMA SameIs ==
  ASSUME NEW n \in Nat, NEW a, IsText(a), NEW b, IsText(b), Len(b) < n
  PROVE  Same(n, a, b) <=> a = b
<1> DEFINE Differ == {i \in 0..(n - 1) : At(a, i) # At(b, i)}
           Ends == {i \in 0..(n - 1) : At(a, i) = NUL /\ At(b, i) = NUL}
           C == Differ = {} \/ \E e \in Ends : \A d \in Differ : e < d
<1>1. /\ Len(a) \in Nat /\ Len(b) \in Nat
      /\ \A i \in Nat : (i < Len(a) => At(a, i) = a[i + 1] /\ At(a, i) # NUL)
                        /\ (i >= Len(a) => At(a, i) = NUL)
      /\ \A i \in Nat : (i < Len(b) => At(b, i) = b[i + 1] /\ At(b, i) # NUL)
                        /\ (i >= Len(b) => At(b, i) = NUL)
  BY AtIs
<1>2. Same(n, a, b) <=> C
  <2>1. C => strncmp(n, a, b) = 0
    BY DEF strncmp
  <2>2. ~C => strncmp(n, a, b) \in {-1, 1}
    BY DEF strncmp
  <2>3. 0 \notin {-1, 1}
    OBVIOUS
  <2> HIDE DEF C
  <2> QED BY <2>1, <2>2, <2>3 DEF Same
<1>3. a = b => C
  OBVIOUS
<1>4. ASSUME C PROVE a = b
  <2>1. PICK z \in Nat : At(a, z) = NUL /\ At(b, z) = NUL /\ \A i \in 0..z : At(a, i) = At(b, i)
    <3>1. CASE Differ = {}
      <4>1. PICK z \in Nat : z >= Len(b) /\ z < n
        BY <1>1
      <4>2. \A i \in 0..z : i \in 0..(n - 1)
        BY <4>1
      <4>3. \A i \in 0..z : At(a, i) = At(b, i)
        BY <3>1, <4>2
      <4>4. At(b, z) = NUL /\ At(a, z) = At(b, z)
        BY <1>1, <4>1, <4>3
      <4> QED BY <4>3, <4>4
    <3>2. CASE \E e \in Ends : \A d \in Differ : e < d
      <4>1. PICK z \in Ends : \A d \in Differ : z < d
        BY <3>2
      <4>2. z \in Nat /\ z < n
        OBVIOUS
      <4>3. ASSUME NEW i \in 0..z PROVE At(a, i) = At(b, i)
        <5>1. i \in 0..(n - 1) /\ ~(z < i)
          BY <4>2
        <5>2. i \notin Differ
          BY <4>1, <5>1
        <5> QED BY <5>1, <5>2
      <4> QED BY <4>2, <4>3
    <3> QED BY <1>4, <3>1, <3>2
  <2>2. Len(a) <= z /\ Len(b) <= z
    BY <1>1, <2>1
  <2>3. ~(Len(a) < Len(b))
    <3> SUFFICES ASSUME Len(a) < Len(b) PROVE FALSE
      OBVIOUS
    <3>1. PICK i \in Nat : i = Len(a)
      BY <1>1
    <3>2. i \in 0..z /\ i >= Len(a) /\ i < Len(b)
      BY <1>1, <2>2, <3>1
    <3>3. At(a, i) = NUL /\ At(b, i) # NUL
      BY <1>1, <3>2
    <3> QED BY <2>1, <3>2, <3>3
  <2>4. ~(Len(b) < Len(a))
    <3> SUFFICES ASSUME Len(b) < Len(a) PROVE FALSE
      OBVIOUS
    <3>1. PICK i \in Nat : i = Len(b)
      BY <1>1
    <3>2. i \in 0..z /\ i >= Len(b) /\ i < Len(a)
      BY <1>1, <2>2, <3>1
    <3>3. At(b, i) = NUL /\ At(a, i) # NUL
      BY <1>1, <3>2
    <3> QED BY <2>1, <3>2, <3>3
  <2>5. Len(a) = Len(b)
    BY <1>1, <2>3, <2>4
  <2>6. ASSUME NEW k \in 1..Len(a) PROVE a[k] = b[k]
    <3>1. PICK i \in Nat : i = k - 1
      BY <1>1
    <3>2. i \in 0..z /\ i < Len(a) /\ i < Len(b) /\ i + 1 = k
      BY <1>1, <2>2, <2>5, <3>1
    <3>3. At(a, i) = a[k] /\ At(b, i) = b[k]
      BY <1>1, <3>2
    <3> QED BY <2>1, <3>2, <3>3
  <2> QED BY <2>5, <2>6, TextEqual
<1> HIDE DEF C
<1> QED BY <1>2, <1>3, <1>4

\* A token that begins where it is looked for and fits, and the end of a text.
TokenOf(s, D, n, e) ==
  /\ strtokbuf(s, D, 15, n).found
  /\ strtokbuf(s, D, 15, n).token = SubSeq(s, n + 1, e)
  /\ strtokbuf(s, D, 15, n).next = IF e < Len(s) THEN e + 1 ELSE e
LEMMA TokenHere ==
  ASSUME NEW s, IsText(s), NEW D, NUL \notin D, NEW n \in 0..14, NEW e \in Nat, n < e, e <= Len(s),
         e - n <= 13, \A k \in (n + 1)..e : s[k] \notin D, e >= Len(s) \/ s[e + 1] \in D
  PROVE  TokenOf(s, D, n, e)
<1> PICK t : t = strtokbuf(s, D, 15, n)
  OBVIOUS
<1>0. Len(s) \in Nat
  BY AtIs
<1>1. PICK f, m :
        /\ Leading(s, D, 15, n, f) /\ Body(s, D, 15, f, m)
        /\ f < Len(s) => 
             /\ t.found
             /\ t.token = SubSeq(s, f + 1, f + m)
             /\ t.next = IF f + m < Len(s) /\ s[f + m + 1] \in D THEN f + m + 1 ELSE f + m
  <2>1. 15 \in Nat \ {0} /\ n \in 0..15
    OBVIOUS
  <2> QED BY <2>1, TokenIs
<1>2. f = n
  <2>1. f \in Nat /\ n <= f /\ \A i \in n..(f - 1) : s[i + 1] \in D
    BY <1>1 DEF Leading
  <2>2. ~(f > n)
    <3> SUFFICES ASSUME f > n PROVE FALSE
      OBVIOUS
    <3>1. n \in n..(f - 1) /\ n + 1 \in (n + 1)..e
      BY <2>1
    <3> QED BY <2>1, <3>1
  <2> QED BY <2>1, <2>2
<1>3. /\ m \in Nat /\ m <= 14
      /\ \A k \in 0..(m - 1) : n + k < Len(s) /\ s[n + k + 1] \notin D
      /\ m = 14 \/ n + m >= Len(s) \/ s[n + m + 1] \in D
  BY <1>1, <1>2 DEF Body
<1>4. n + m = e
  <2>1. ~(n + m < e)
    <3> SUFFICES ASSUME n + m < e PROVE FALSE
      OBVIOUS
    <3>1. n + m + 1 \in (n + 1)..e /\ n + m < Len(s) /\ m < 14
      BY <1>0, <1>3
    <3>2. s[n + m + 1] \in D
      BY <1>0, <1>3, <3>1
    <3> QED BY <3>1, <3>2
  <2>2. ~(n + m > e)
    <3> SUFFICES ASSUME n + m > e PROVE FALSE
      OBVIOUS
    <3>1. PICK k : k = e - n
      OBVIOUS
    <3>2. k \in 0..(m - 1) /\ n + k = e /\ n + k + 1 = e + 1
      BY <1>3, <3>1
    <3>3. e < Len(s) /\ s[e + 1] \notin D
      BY <1>3, <3>2
    <3> QED BY <1>0, <3>3
  <2> QED BY <1>3, <2>1, <2>2
<1>5. f < Len(s)
  BY <1>0, <1>2
<1>6. t.next = IF e < Len(s) /\ s[e + 1] \in D THEN e + 1 ELSE e
  BY <1>1, <1>2, <1>4, <1>5
<1>7. t.next = IF e < Len(s) THEN e + 1 ELSE e
  BY <1>0, <1>6
<1> QED BY <1>1, <1>2, <1>4, <1>5, <1>7 DEF TokenOf

LEMMA NoneHere ==
  ASSUME NEW s, IsText(s), NEW D, NUL \notin D, NEW n \in 0..15, n >= Len(s)
  PROVE  ~strtokbuf(s, D, 15, n).found
<1>1. PICK f, m :
        /\ Leading(s, D, 15, n, f) /\ Body(s, D, 15, f, m)
        /\ f >= Len(s) => strtokbuf(s, D, 15, n) = NoToken
  <2>1. 15 \in Nat \ {0}
    OBVIOUS
  <2> QED BY <2>1, TokenIs
<1>2. f >= Len(s)
  <2>1. f \in Nat /\ n <= f /\ Len(s) \in Nat
    BY <1>1, AtIs DEF Leading
  <2> QED BY <2>1
<1> QED BY <1>1, <1>2 DEF NoToken

LEMMA ConstantTexts == IsText(NoVideo) /\ Len(NoVideo) = 9 /\ IsText(HeapWord) /\ Len(HeapWord) = 4
<1>1. NoVideo \in Seq({45, 110, 111, 118, 105, 100, 101}) /\ Len(NoVideo) = 9
  BY DEF NoVideo
<1>2. HeapWord \in Seq({104, 101, 97, 112}) /\ Len(HeapWord) = 4
  BY DEF HeapWord
<1>3. NUL \notin {45, 110, 111, 118, 105, 100, 101} /\ NUL \notin {104, 101, 97, 112}
  BY DEF NUL
<1> QED BY <1>1, <1>2, <1>3 DEF IsText

\* How processCommandLine tells a kernel option.
LEMMA StartsKernel ==
  ASSUME NEW w, IsText(w)
  PROVE  At(w, 0) = Dash /\ At(w, 1) = 107 <=> KernelOption(w)
<1>1. /\ Len(w) \in Nat
      /\ 0 < Len(w) => At(w, 0) = w[0 + 1]
      /\ 0 >= Len(w) => At(w, 0) = NUL
      /\ 1 < Len(w) => At(w, 1) = w[1 + 1]
      /\ 1 >= Len(w) => At(w, 1) = NUL
  BY AtIs
<1> QED BY <1>1 DEF KernelOption, Dash, NUL

\* What a heap size asks for is a number of pages.
LEMMA AskedNat ==
  ASSUME NEW w, IsText(w), HeapOption(w)
  PROVE  Asked(w) \in Nat
<1>1. /\ Len(w) \in Nat /\ Len(w) > 8 /\ Last(w) \in Letters
      /\ \A i \in 8..Len(w) : i < Len(w) => Digit(w[i])
  BY AtIs DEF HeapOption, Written
<1>2. PICK d : d = SubSeq(w, 8, Len(w) - 1)
  OBVIOUS
<1>3. Len(d) = Len(w) - 8 /\ \A i \in 1..Len(d) : d[i] \in 48..57
  <2>1. 8 \in Nat \ {0} /\ Len(w) - 1 \in Nat /\ Len(w) - 1 <= Len(w) /\ 8 <= Len(w) - 1
    BY <1>1
  <2>2. Len(d) = (Len(w) - 1) - 8 + 1
        /\ \A i \in 1..((Len(w) - 1) - 8 + 1) : d[i] = w[8 + i - 1]
    BY <1>2, <2>1, PartOfText
  <2>3. \A i \in 1..Len(d) : 8 + i - 1 \in 8..Len(w) /\ 8 + i - 1 < Len(w)
    BY <1>1, <2>2
  <2>4. Len(d) = Len(w) - 8
    BY <1>1, <2>2
  <2>5. ASSUME NEW i \in 1..Len(d) PROVE d[i] \in 48..57
    <3>1. d[i] = w[8 + i - 1]
      BY <2>2, <2>5
    <3> QED BY <1>1, <2>3, <3>1 DEF Digit
  <2> QED BY <2>4, <2>5
<1>4. PICK v : v = Decimal(d)
  OBVIOUS
<1>5. v \in Nat
  <2> DEFINE place(k) == IF k < Len(d) THEN d[Len(d) - k] - 48 ELSE 0
  <2>1. ASSUME NEW k \in Nat PROVE place(k) \in Nat
    <3>1. CASE k < Len(d)
      <4>1. Len(d) - k \in 1..Len(d)
        BY <1>1, <1>3, <3>1
      <4>2. d[Len(d) - k] \in 48..57
        BY <1>3, <4>1
      <4> QED BY <3>1, <4>2
    <3> QED BY <3>1
  <2>2. v = place(0) + (10 * place(1)) + (100 * place(2)) + (1000 * place(3)) + (10000 * place(4))
              + (100000 * place(5)) + (1000000 * place(6))
    BY <1>4 DEF Decimal
  <2>3. place(0) \in Nat /\ place(1) \in Nat /\ place(2) \in Nat /\ place(3) \in Nat
        /\ place(4) \in Nat /\ place(5) \in Nat /\ place(6) \in Nat
    BY <2>1
  <2> HIDE DEF place
  <2> QED BY <2>2, <2>3
<1>6. PICK n : n = Min({v, MAX_UINT})
  OBVIOUS
<1>7. n \in Nat
  <2>1. n = IF v < MAX_UINT THEN v ELSE MAX_UINT
    BY <1>5, <1>6 DEF Min, MAX_UINT
  <2> QED BY <1>5, <2>1 DEF MAX_UINT
<1>8. Asked(w) = InPages(n, Last(w))
  BY <1>2, <1>4, <1>6 DEF Asked
<1>9. InPages(n, Last(w)) \in Nat
  <2>1. CASE Last(w) = 80
    BY <1>7, <2>1 DEF InPages
  <2>2. CASE Last(w) = 75
    BY <1>7, <2>2 DEF InPages
  <2>3. CASE Last(w) = 77
    BY <1>7, <2>3 DEF InPages
  <2>4. CASE Last(w) = 71
    BY <1>7, <2>4 DEF InPages
  <2> QED BY <1>1, <2>1, <2>2, <2>3, <2>4 DEF Letters
<1> QED BY <1>8, <1>9

\* What strtoui reads of a heap size's digits and letter.
LEMMA DigitsRead ==
  ASSUME NEW v, IsText(v), NEW n \in 0..6, Len(v) = n + 1, ~Digit(v[n + 1]),
         \A i \in 1..n : Digit(v[i])
  PROVE  strtoui(v, MAX_UINT) = Min({Decimal(SubSeq(v, 1, n)), MAX_UINT})
<1> DEFINE S == {i \in 0..ReadDigits : i = ReadDigits \/ ~Digit(At(v, i))}
<1>0. ReadDigits = 7 /\ \A i \in Nat : i < n + 1 => At(v, i) = v[i + 1]
  BY AtIs DEF ReadDigits
<1>2. n \in S
  <2>1. At(v, n) = v[n + 1]
    BY <1>0
  <2>2. n \in 0..ReadDigits
    BY <1>0
  <2> QED BY <2>1, <2>2
<1>3. ASSUME NEW i \in S PROVE n <= i
  <2>0. i \in Nat /\ (i = 7 \/ ~Digit(At(v, i)))
    BY <1>0
  <2> SUFFICES ASSUME i < n PROVE FALSE
    BY <2>0
  <2>1. i < n + 1 /\ i # 7 /\ i + 1 \in 1..n
    BY <2>0
  <2>2. At(v, i) = v[i + 1]
    BY <1>0, <2>0, <2>1
  <2> QED BY <2>0, <2>1, <2>2
<1>4. Min(S) = n
  <2>1. S \in SUBSET Nat /\ S # {}
    BY <1>0, <1>2
  <2>2. \A i \in S : i \in Nat
    BY <2>1
  <2> HIDE DEF S
  <2>3. Min(S) \in S /\ \A m \in S : Min(S) <= m
    BY <2>1, Least
  <2>4. Min(S) <= n /\ n <= Min(S) /\ Min(S) \in Nat
    BY <1>2, <1>3, <2>2, <2>3
  <2> QED BY <2>4
<1>5. strtoui(v, MAX_UINT) = Min({Decimal(SubSeq(v, 1, Min(S))), MAX_UINT})
  BY DEF strtoui
<1> HIDE DEF S
<1> QED BY <1>4, <1>5

\* A kernel option without a value is refused.
LEMMA NoValue ==
  ASSUME NEW w, IsText(w), Len(w) <= 14, \A k \in 1..Len(w) : w[k] \notin SpacesEquals,
         KernelOption(w)
  PROVE  processKernelOpt(w) = 0 /\ ~HeapOption(w)
<1>0. Len(w) \in Nat /\ Len(w) >= 2
  BY AtIs DEF KernelOption
<1>1. PICK rest, option, value :
        /\ rest = SubSeq(w, 3, Len(w))
        /\ option = strtokbuf(rest, SpacesEquals, MAX_OPTION_LEN, 0)
        /\ value = strtokbuf(rest, SpacesEquals, MAX_OPTION_LEN, option.next)
  OBVIOUS
<1>2. processKernelOpt(w) =
        IF option.found /\ Same(MAX_OPTION_LEN, option.token, HeapWord) /\ value.found
        THEN processHeapSize(value.token) ELSE 0
  BY <1>1 DEF processKernelOpt
<1>3. PICK l \in Nat : l = Len(w) - 2
  BY <1>0
<1>4. IsText(rest) /\ Len(rest) = l /\ \A k \in 1..l : rest[k] \notin SpacesEquals
  <2>1. 3 \in Nat \ {0} /\ Len(w) <= Len(w)
    BY <1>0
  <2>2. /\ IsText(rest) /\ Len(rest) = IF 3 <= Len(w) THEN Len(w) - 3 + 1 ELSE 0
        /\ \A i \in 1..(Len(w) - 3 + 1) : rest[i] = w[3 + i - 1]
    BY <1>0, <1>1, <2>1, PartOfText
  <2>3. ASSUME NEW k \in 1..l PROVE rest[k] \notin SpacesEquals
    <3>1. k \in 1..(Len(w) - 3 + 1) /\ 3 + k - 1 \in 1..Len(w)
      BY <1>0, <1>3
    <3> QED BY <2>2, <3>1
  <2>4. Len(rest) = l
    BY <1>0, <1>3, <2>2
  <2> QED BY <2>2, <2>3, <2>4
<1>5. NUL \notin SpacesEquals /\ MAX_OPTION_LEN = 15 /\ l <= 12
  BY <1>0, <1>3 DEF NUL, SpacesEquals, Spaces, Equals, MAX_OPTION_LEN
<1>6. ~option.found \/ ~value.found
  <2>1. CASE l = 0
    <3>1. 0 \in 0..15 /\ 0 >= Len(rest)
      BY <1>4, <2>1
    <3> QED BY <1>1, <1>4, <1>5, <3>1, NoneHere
  <2>2. CASE l # 0
    <3>1. 0 \in 0..14 /\ 0 < l /\ l <= Len(rest) /\ l - 0 <= 13 /\ l >= Len(rest)
      BY <1>4, <1>5, <2>2
    <3>2. \A k \in (0 + 1)..l : rest[k] \notin SpacesEquals
      BY <1>4
    <3>3. option.next = IF l < Len(rest) THEN l + 1 ELSE l
      <4>1. option = strtokbuf(rest, SpacesEquals, 15, 0)
        BY <1>1, <1>5
      <4>2. TokenOf(rest, SpacesEquals, 0, l)
        BY ONLY <1>4, <1>5, <3>1, <3>2, TokenHere
      <4> QED BY <4>1, <4>2 DEF TokenOf
    <3>4. option.next = l
      BY <1>4, <3>3
    <3>5. l \in 0..15 /\ l >= Len(rest)
      BY <1>4, <1>5
    <3>6. ~strtokbuf(rest, SpacesEquals, 15, l).found
      BY <1>4, <1>5, <3>5, NoneHere
    <3> QED BY <1>1, <1>5, <3>4, <3>6
  <2> QED BY <2>1, <2>2
<1>7. ~HeapOption(w)
  <2> SUFFICES ASSUME Written(w) PROVE FALSE
    BY DEF HeapOption
  <2>1. 7 \in 1..Len(w) /\ 7 \in 1..7
    BY <1>0 DEF Written
  <2>2. w[7] = <<Dash, 107, 104, 101, 97, 112, Equals>>[7]
    BY <2>1 DEF Written
  <2>3. <<Dash, 107, 104, 101, 97, 112, Equals>>[7] = Equals
    OBVIOUS
  <2> QED BY <2>1, <2>2, <2>3 DEF SpacesEquals
<1> QED BY <1>2, <1>6, <1>7

\* A heap size that is written as it should be is the one that was asked for, if it
\* is one and not too small.
LEMMA WrittenAsked ==
  ASSUME NEW w, IsText(w), Len(w) <= 14, \A k \in 1..Len(w) : w[k] \notin Spaces, Written(w)
  PROVE  processKernelOpt(w) = IF HeapOption(w) /\ ~TooSmall(Asked(w)) THEN Asked(w) ELSE 0
<1>0. Len(w) \in Nat /\ Len(w) >= 7 /\ Len(w) <= 14
  BY AtIs DEF Written
<1>1. PICK rest, option, value :
        /\ rest = SubSeq(w, 3, Len(w))
        /\ option = strtokbuf(rest, SpacesEquals, MAX_OPTION_LEN, 0)
        /\ value = strtokbuf(rest, SpacesEquals, MAX_OPTION_LEN, option.next)
  OBVIOUS
<1>2. processKernelOpt(w) =
        IF option.found /\ Same(MAX_OPTION_LEN, option.token, HeapWord) /\ value.found
        THEN processHeapSize(value.token) ELSE 0
  BY <1>1 DEF processKernelOpt
<1>3. /\ w[3] = 104 /\ w[4] = 101 /\ w[5] = 97 /\ w[6] = 112 /\ w[7] = Equals
  <2>1. \A i \in 1..7 : w[i] = <<Dash, 107, 104, 101, 97, 112, Equals>>[i]
    BY DEF Written
  <2> QED BY <2>1
<1>4. PICK l \in Nat : Len(w) = l + 2 /\ l >= 5 /\ l <= 12
  <2>1. PICK k \in Nat : Len(w) = k
    BY <1>0
  <2>2. k - 2 \in Nat /\ k = (k - 2) + 2 /\ k - 2 >= 5 /\ k - 2 <= 12
    BY <1>0, <2>1
  <2> QED BY <2>1, <2>2
<1>5. IsText(rest) /\ Len(rest) = l /\ \A k \in 1..l : rest[k] = w[k + 2]
  <2>1. 3 \in Nat \ {0} /\ Len(w) <= Len(w)
    BY <1>0
  <2>2. /\ IsText(rest) /\ Len(rest) = IF 3 <= Len(w) THEN Len(w) - 3 + 1 ELSE 0
        /\ \A i \in 1..(Len(w) - 3 + 1) : rest[i] = w[3 + i - 1]
    BY <1>0, <1>1, <2>1, PartOfText
  <2>3. ASSUME NEW k \in 1..l PROVE rest[k] = w[k + 2]
    <3>1. k \in 1..(Len(w) - 3 + 1) /\ 3 + k - 1 = k + 2
      BY <1>0, <1>4
    <3> QED BY <2>2, <3>1
  <2>4. Len(rest) = l
    BY <1>0, <1>4, <2>2
  <2> QED BY <2>2, <2>3, <2>4
<1>6. NUL \notin SpacesEquals /\ MAX_OPTION_LEN = 15 /\ Equals \in SpacesEquals
  BY DEF NUL, SpacesEquals, Spaces, Equals, MAX_OPTION_LEN
<1>7. rest[1] = 104 /\ rest[2] = 101 /\ rest[3] = 97 /\ rest[4] = 112 /\ rest[5] = Equals
  <2>1. 1 \in 1..l /\ 2 \in 1..l /\ 3 \in 1..l /\ 4 \in 1..l /\ 5 \in 1..l
    BY <1>4
  <2> QED BY <1>3, <1>5, <2>1
<1>8. option.found /\ option.token = SubSeq(rest, 1, 4) /\ option.next = 5
  <2>0. PICK a, e : a = 0 /\ e = 4
    OBVIOUS
  <2>1. a \in 0..14 /\ e \in Nat /\ a < e /\ e <= Len(rest) /\ e - a <= 13
    BY <1>4, <1>5, <2>0
  <2>2. \A k \in (a + 1)..e : rest[k] \notin SpacesEquals
    <3>1. \A k \in 1..4 : rest[k] \notin SpacesEquals
      BY <1>7 DEF SpacesEquals, Spaces, Equals
    <3> QED BY <2>0, <3>1
  <2>3. e >= Len(rest) \/ rest[e + 1] \in SpacesEquals
    <3>1. rest[5] \in SpacesEquals /\ e + 1 = 5
      BY <1>6, <1>7, <2>0
    <3> QED BY <3>1
  <2>4. option = strtokbuf(rest, SpacesEquals, 15, a)
    BY <1>1, <1>6, <2>0
  <2>9. IsText(rest) /\ NUL \notin SpacesEquals
    BY <1>5, <1>6
  <2>5. TokenOf(rest, SpacesEquals, a, e)
    BY ONLY <2>1, <2>2, <2>3, <2>9, TokenHere
  <2>8. e < Len(rest) /\ a + 1 = 1 /\ e + 1 = 5
    BY <1>4, <1>5, <2>0
  <2> QED BY <2>0, <2>4, <2>5, <2>8 DEF TokenOf
<1>9. Same(MAX_OPTION_LEN, option.token, HeapWord)
  <2>1. PICK h : h = SubSeq(rest, 1, 4)
    OBVIOUS
  <2>2. 1 \in Nat \ {0} /\ 4 \in Nat /\ 4 <= Len(rest)
    BY <1>4, <1>5
  <2>3. IsText(h) /\ Len(h) = (IF 1 <= 4 THEN 4 - 1 + 1 ELSE 0)
        /\ \A i \in 1..(4 - 1 + 1) : h[i] = rest[1 + i - 1]
    BY <1>5, <2>1, <2>2, PartOfText
  <2>4. Len(h) = 4 /\ h[1] = 104 /\ h[2] = 101 /\ h[3] = 97 /\ h[4] = 112
    BY <1>7, <2>3
  <2>5. \A k \in 1..4 : h[k] = HeapWord[k]
    BY <2>4 DEF HeapWord
  <2>6. h = HeapWord
    BY <2>3, <2>4, <2>5, ConstantTexts, TextEqual
  <2>7. 15 \in Nat /\ Len(HeapWord) < 15
    BY ConstantTexts
  <2>8. Same(15, h, HeapWord)
    BY <2>6, <2>7, ConstantTexts, SameIs
  <2> QED BY <1>6, <1>8, <2>1, <2>8
<1>10. CASE l = 5
  <2>1. 5 \in 0..15 /\ 5 >= Len(rest)
    BY <1>5, <1>10
  <2>2. ~value.found
    BY <1>1, <1>5, <1>6, <1>8, <2>1, NoneHere
  <2>3. ~HeapOption(w)
    <3>1. ~(Len(w) > 8)
      BY <1>0, <1>4, <1>10
    <3> QED BY <3>1 DEF HeapOption
  <2> QED BY <1>2, <2>2, <2>3
<1>11. CASE l # 5
  <2>1. l >= 6
    BY <1>4, <1>11
  <2>2. \A k \in 6..l : rest[k] \notin SpacesEquals
    <3> SUFFICES ASSUME NEW k \in 6..l PROVE rest[k] \notin SpacesEquals
      OBVIOUS
    <3>1. k \in 1..l /\ k + 2 \in 8..Len(w) /\ k + 2 \in 1..Len(w)
      BY <1>0, <1>4
    <3>2. w[k + 2] \notin Spaces /\ w[k + 2] # Equals
      BY <3>1 DEF Written
    <3> QED BY <1>5, <3>1, <3>2 DEF SpacesEquals
  <2>3. value.found /\ value.token = SubSeq(rest, 6, l)
    <3>0. PICK a : a = 5
      OBVIOUS
    <3>1. a \in 0..14 /\ a < l /\ l <= Len(rest) /\ l - a <= 13 /\ l >= Len(rest)
      BY <1>4, <1>5, <2>1, <3>0
    <3>2. value = strtokbuf(rest, SpacesEquals, 15, a)
      BY <1>1, <1>6, <1>8, <3>0
    <3>3. \A k \in (a + 1)..l : rest[k] \notin SpacesEquals
      BY <2>2, <3>0
    <3>4. TokenOf(rest, SpacesEquals, a, l)
      BY ONLY <1>4, <1>5, <1>6, <3>1, <3>3, TokenHere
    <3> QED BY <3>0, <3>2, <3>4 DEF TokenOf
  <2>4. PICK v : v = SubSeq(rest, 6, l)
    OBVIOUS
  <2>5. PICK n \in 0..6 : l = n + 6
    <3>1. l - 6 \in 0..6
      BY <1>4, <2>1
    <3> QED BY <3>1
  <2>6. IsText(v) /\ Len(v) = n + 1 /\ \A k \in 1..(n + 1) : v[k] = w[k + 7]
    <3>1. 6 \in Nat \ {0} /\ l <= Len(rest)
      BY <1>4, <1>5
    <3>2. IsText(v) /\ Len(v) = (IF 6 <= l THEN l - 6 + 1 ELSE 0)
          /\ \A i \in 1..(l - 6 + 1) : v[i] = rest[6 + i - 1]
      BY <1>4, <1>5, <2>4, <3>1, PartOfText
    <3>3. ASSUME NEW k \in 1..(n + 1) PROVE v[k] = w[k + 7]
      <4>1. k \in 1..(l - 6 + 1) /\ 6 + k - 1 \in 1..l /\ (6 + k - 1) + 2 = k + 7
        BY <1>4, <2>5
      <4> QED BY <1>5, <3>2, <4>1
    <3>4. Len(v) = n + 1
      BY <1>4, <2>1, <2>5, <3>2
    <3> QED BY <3>2, <3>3, <3>4
  <2>7. Len(w) = n + 8
    BY <1>0, <1>4, <2>5
  <2>8. Last(v) = Last(w)
    <3>1. n + 1 \in 1..(n + 1) /\ (n + 1) + 7 = n + 8
      BY <2>5
    <3>2. v[n + 1] = w[n + 8]
      BY <2>6, <3>1
    <3> QED BY <2>6, <2>7, <3>2 DEF Last
  <2>9. processKernelOpt(w) = processHeapSize(v)
    BY <1>2, <1>8, <1>9, <2>3, <2>4
  <2>10. HeapOption(w) <=> Len(v) >= 2 /\ Last(v) \in Letters
    <3>1. Len(w) > 8 <=> Len(v) >= 2
      BY <2>5, <2>6, <2>7
    <3> QED BY <2>8, <3>1 DEF HeapOption
  <2>11. CASE ~HeapOption(w)
    <3>1. Len(v) < 2 \/ Last(v) \notin Letters
      BY <2>6, <2>10, <2>11
    <3>2. processHeapSize(v) = 0
      BY <3>1 DEF processHeapSize
    <3> QED BY <2>9, <2>11, <3>2
  <2>12. CASE HeapOption(w)
    <3>1. ~(Len(v) < 2 \/ Last(v) \notin Letters)
      BY <2>6, <2>10, <2>12
    <3>2. v[n + 1] = Last(w) /\ Last(w) \in Letters
      BY <2>6, <2>8, <2>10, <2>12 DEF Last
    <3>3. ~Digit(v[n + 1])
      BY <3>2 DEF Digit, Letters
    <3>4. ASSUME NEW i \in 1..n PROVE Digit(v[i])
      <4>1. i \in 1..(n + 1) /\ i + 7 \in 8..Len(w) /\ i + 7 < Len(w)
        BY <2>5, <2>7
      <4>2. Digit(w[i + 7])
        BY <4>1 DEF Written
      <4> QED BY <2>6, <4>1, <4>2
    <3>5. strtoui(v, MAX_UINT) = Min({Decimal(SubSeq(v, 1, n)), MAX_UINT})
      BY <2>6, <3>3, <3>4, DigitsRead
    <3>6. SubSeq(v, 1, n) = SubSeq(w, 8, Len(w) - 1)
      <4>1. PICK a, b : a = SubSeq(v, 1, n) /\ b = SubSeq(w, 8, n + 7)
        OBVIOUS
      <4>2. IsText(a) /\ Len(a) = n /\ \A k \in 1..n : a[k] = v[k]
        <5>1. 1 \in Nat \ {0} /\ n \in Nat /\ n <= Len(v)
          BY <2>5, <2>6
        <5>2. IsText(a) /\ Len(a) = (IF 1 <= n THEN n - 1 + 1 ELSE 0)
              /\ \A i \in 1..(n - 1 + 1) : a[i] = v[1 + i - 1]
          BY <2>6, <4>1, <5>1, PartOfText
        <5> QED BY <5>1, <5>2
      <4>3. IsText(b) /\ Len(b) = n /\ \A k \in 1..n : b[k] = w[k + 7]
        <5>1. 8 \in Nat \ {0} /\ n + 7 \in Nat /\ n + 7 <= Len(w)
          BY <2>5, <2>7
        <5>2. IsText(b) /\ Len(b) = (IF 8 <= n + 7 THEN n + 7 - 8 + 1 ELSE 0)
              /\ \A i \in 1..(n + 7 - 8 + 1) : b[i] = w[8 + i - 1]
          BY <4>1, <5>1, PartOfText
        <5>3. ASSUME NEW k \in 1..n PROVE b[k] = w[k + 7]
          <6>1. k \in 1..(n + 7 - 8 + 1) /\ 8 + k - 1 = k + 7
            BY <2>5
          <6> QED BY <5>2, <6>1
        <5>4. Len(b) = n
          BY <2>5, <5>2
        <5> QED BY <5>2, <5>3, <5>4
      <4>4. \A k \in 1..n : a[k] = b[k]
        <5>1. \A k \in 1..n : k \in 1..(n + 1)
          BY <2>5
        <5> QED BY <2>6, <4>2, <4>3, <5>1
      <4>5. a = b
        BY <4>2, <4>3, <4>4, TextEqual
      <4>6. Len(w) - 1 = n + 7
        BY <2>5, <2>7
      <4> QED BY <4>1, <4>5, <4>6
    <3>7. InPages(strtoui(v, MAX_UINT), Last(v)) = Asked(w)
      BY <2>8, <3>5, <3>6 DEF Asked
    <3>8. processHeapSize(v) = IF TooSmall(Asked(w)) THEN 0 ELSE Asked(w)
      BY <3>1, <3>7 DEF processHeapSize
    <3> QED BY <2>9, <2>12, <3>8
  <2> QED BY <2>11, <2>12
<1> QED BY <1>10, <1>11

-----------------------------------------------------------------------------
(* The steps.                                                              *)

\* What is in memory is a text.
LEMMA LineIsText == ASSUME TagsRead PROVE IsText(Text(Cmd))
<1> DEFINE last == Max(DOMAIN mem)
           Ends == {n \in 0..(last - Cmd + 1) : Cmd + n > last \/ mem[Cmd + n] = NUL}
<1>1. last = Upper + 1
  <2>1. DOMAIN mem = Cells
    BY DEF TagsRead
  <2> QED BY <2>1, FieldsInOrder, CellsAre DEF Max
<1>2. last \in Nat /\ Cmd = 0
  BY <1>1, FieldsInOrder
<1> HIDE DEF last
<1>3. PICK n : n = Min(Ends)
  OBVIOUS
<1>4. n \in Ends /\ \A m \in Ends : n <= m
  <2>1. Ends \in SUBSET Nat
    BY <1>2
  <2>2. last + 1 \in Ends
    BY <1>2
  <2> HIDE DEF Ends
  <2> QED BY <1>3, <2>1, <2>2, Least
<1>5. n \in Nat /\ n <= last + 1
  BY <1>2, <1>4
<1>6. Text(Cmd) = [i \in 1..n |-> mem[i - 1]]
  <2>1. strlen(mem, Cmd) = n
    BY <1>3 DEF strlen, last
  <2>2. \A i \in 1..n : Cmd + i - 1 = i - 1
    BY <1>2, <1>5
  <2> QED BY <2>1, <2>2 DEF Text
<1>7. ASSUME NEW i \in 1..n PROVE mem[i - 1] # NUL
  <2>1. PICK m \in Nat : m = i - 1 /\ m < n
    BY <1>5
  <2>2. m \notin Ends /\ m \in 0..(last - Cmd + 1) /\ Cmd + m = m
    BY <1>2, <1>4, <1>5, <2>1
  <2>3. mem[m] # NUL
    BY <2>2
  <2> QED BY <2>1, <2>3
<1>8. PICK C : C = {mem[i - 1] : i \in 1..n}
  OBVIOUS
<1>9. NUL \notin C
  BY <1>7, <1>8
<1>10. Text(Cmd) \in Seq(C)
  BY <1>5, <1>6, <1>8
<1> QED BY <1>9, <1>10 DEF IsText

\* What is processed: a word that fits, written like a heap size if it has a value.
LEMMA PieceIs ==
  ASSUME NEW s, IsText(s), Ordinary(s), NEW w \in Pieces(s)
  PROVE  /\ IsText(w) /\ Len(w) \in Nat /\ Len(w) <= 14
         /\ \A k \in 1..Len(w) : w[k] \notin Spaces
         /\ KernelOption(w) /\ (\E j \in DOMAIN w : w[j] = Equals) => Written(w)
<1>1. CASE w = <<>>
  <2>1. IsText(<<>>)
    <3>1. <<>> \in Seq({}) /\ NUL \notin {}
      OBVIOUS
    <3> QED BY <3>1 DEF IsText
  <2>2. Len(<<>>) = 0 /\ DOMAIN <<>> = {}
    OBVIOUS
  <2> QED BY <1>1, <2>1, <2>2
<1>2. CASE w # <<>>
  <2>1. PICK i \in Begins(s) : w = WordAt(s, i)
    BY <1>2 DEF Pieces
  <2>2. IsText(w) /\ \A k \in 1..Len(w) : w[k] \notin Spaces
    BY <2>1, WordIs
  <2>3. Len(w) < 15 /\ (KernelOption(w) /\ (\E j \in DOMAIN w : w[j] = Equals) => Written(w))
    BY <2>1 DEF Ordinary, MAX_OPTION_LEN
  <2>4. Len(w) \in Nat
    BY <2>2, AtIs
  <2> QED BY <2>2, <2>3, <2>4
<1> QED BY <1>1, <1>2

\* What a kernel option is taken for.
LEMMA HeapAsked ==
  ASSUME NEW w, IsText(w), Len(w) \in Nat, Len(w) <= 14, \A k \in 1..Len(w) : w[k] \notin Spaces,
         KernelOption(w), (\E j \in DOMAIN w : w[j] = Equals) => Written(w)
  PROVE  processKernelOpt(w) = IF HeapOption(w) /\ ~TooSmall(Asked(w)) THEN Asked(w) ELSE 0
<1>1. CASE Written(w)
  BY <1>1, WrittenAsked
<1>2. CASE ~Written(w)
  <2>1. \A k \in 1..Len(w) : w[k] \notin SpacesEquals
    <3>1. DOMAIN w = 1..Len(w)
      BY AtIs
    <3>2. \A k \in 1..Len(w) : w[k] # Equals
      BY <1>2, <3>1
    <3> QED BY <3>2 DEF SpacesEquals
  <2>2. processKernelOpt(w) = 0 /\ ~HeapOption(w)
    BY <2>1, NoValue
  <2> QED BY <2>2
<1> QED BY <1>1, <1>2

\* The members of a sequence, with one more or one less.
LEMMA MembersAppend ==
  ASSUME NEW S, NEW q \in Seq(S), NEW x \in S
  PROVE  /\ Append(q, x) \in Seq(S) /\ Len(q) \in Nat /\ Len(Append(q, x)) = Len(q) + 1
         /\ Members(Append(q, x)) = Members(q) \cup {x}
<1>1. /\ Append(q, x) \in Seq(S) /\ Len(q) \in Nat /\ Len(Append(q, x)) = Len(q) + 1
      /\ \A k \in 1..Len(q) : Append(q, x)[k] = q[k]
      /\ Append(q, x)[Len(q) + 1] = x
  OBVIOUS
<1>2. ASSUME NEW k \in 1..(Len(q) + 1) PROVE k \in 1..Len(q) \/ k = Len(q) + 1
  BY <1>1
<1>3. \A k \in 1..Len(q) : k \in 1..(Len(q) + 1)
  BY <1>1
<1>4. Len(q) + 1 \in 1..(Len(q) + 1)
  BY <1>1
<1>5. Members(Append(q, x)) \subseteq Members(q) \cup {x}
  BY <1>1, <1>2 DEF Members
<1>6. Members(q) \cup {x} \subseteq Members(Append(q, x))
  BY <1>1, <1>3, <1>4 DEF Members
<1> QED BY <1>1, <1>5, <1>6

LEMMA MembersTail ==
  ASSUME NEW S, NEW q \in Seq(S), q # <<>>
  PROVE  /\ Head(q) \in S /\ Tail(q) \in Seq(S)
         /\ Members(q) = {Head(q)} \cup Members(Tail(q))
<1>1. /\ Head(q) \in S /\ Tail(q) \in Seq(S) /\ Len(q) \in Nat /\ Len(q) >= 1
      /\ Head(q) = q[1] /\ Len(Tail(q)) = Len(q) - 1
      /\ \A k \in 1..(Len(q) - 1) : Tail(q)[k] = q[k + 1]
  OBVIOUS
<1>2. ASSUME NEW k \in 1..Len(q) PROVE k = 1 \/ k - 1 \in 1..(Len(q) - 1)
  BY <1>1
<1>3. ASSUME NEW k \in 1..(Len(q) - 1) PROVE k + 1 \in 1..Len(q)
  BY <1>1
<1>4. Members(q) \subseteq {Head(q)} \cup Members(Tail(q))
  <2> SUFFICES ASSUME NEW k \in 1..Len(q), k # 1 PROVE q[k] \in Members(Tail(q))
    BY <1>1 DEF Members
  <2>1. k - 1 \in 1..(Len(q) - 1) /\ (k - 1) + 1 = k
    BY <1>2
  <2>2. Tail(q)[k - 1] = q[k]
    BY <1>1, <2>1
  <2> QED BY <1>1, <2>1, <2>2 DEF Members
<1>5. {Head(q)} \cup Members(Tail(q)) \subseteq Members(q)
  <2>1. 1 \in 1..Len(q)
    BY <1>1
  <2> QED BY <1>1, <1>3, <2>1 DEF Members
<1> QED BY <1>1, <1>4, <1>5

\* A line has finitely many words.
LEMMA FoundFinite ==
  ASSUME NEW s, IsText(s), NEW B \in SUBSET Begins(s)
  PROVE  IsFiniteSet(B) /\ Cardinality(B) \in Nat
<1>1. Len(s) \in Nat /\ DOMAIN s = 1..Len(s)
  BY AtIs
<1>2. IsFiniteSet(1..Len(s))
  BY <1>1, FS_Interval
<1>3. B \subseteq 1..Len(s)
  BY <1>1 DEF Begins
<1>4. IsFiniteSet(B)
  BY <1>2, <1>3, FS_Subset
<1> QED BY <1>4, FS_CardinalityType

\* The words of an ordinary line fit the buffer for a word.
LEMMA OrdinaryFits ==
  /\ MAX_OPTION_LEN \in Nat \ {0}
  /\ \A s : Ordinary(s) => \A i \in Begins(s) : Len(WordAt(s, i)) < MAX_OPTION_LEN
BY DEF MAX_OPTION_LEN, Ordinary

\* One more word.
LEMMA SplitsOn ==
  ASSUME NEW s, IsText(s), Ordinary(s), NEW n, NEW q \in Seq(Pieces(s)), Splitting(s, n, q),
         Len(q) < MAX_OPTIONS, NEW t, t = strtokbuf(s, Spaces, MAX_OPTION_LEN, n), t.found
  PROVE  /\ Append(q, t.token) \in Seq(Pieces(s))
         /\ Splitting(s, t.next, Append(q, t.token))
<1>0. MAX_OPTION_LEN = 15 /\ MAX_OPTIONS = 2 /\ Len(q) \in Nat /\ n \in Nat
      /\ \A i \in Begins(s) : i \in Nat
  <2>1. \A i \in Begins(s) : i \in Nat
    BY WordEnd
  <2>2. Len(q) \in Nat
    OBVIOUS
  <2>3. n \in Nat
    BY DEF Splitting, Boundary
  <2> QED BY <2>1, <2>2, <2>3 DEF MAX_OPTION_LEN, MAX_OPTIONS
<1>1. n <= 15
  <2> SUFFICES ASSUME n > 15 PROVE FALSE
    BY <1>0
  <2>1. t = NoToken
    BY <1>0 DEF strtokbuf
  <2> QED BY <2>1 DEF NoToken
<1>2. /\ Boundary(s, n)
      /\ \A i \in Found(s, n) : i <= 16 /\ WordAt(s, i) \in Members(q)
      /\ \A w \in Members(q) : w = <<>> \/ \E i \in Found(s, n) : w = WordAt(s, i)
      /\ Cardinality(Found(s, n)) = Len(q)
  BY <1>0, <1>1 DEF Splitting
<1>3. PICK r : r = Append(q, t.token)
  OBVIOUS
<1>4. CASE /\ t.token = <<>> /\ t.next = MAX_OPTION_LEN + 1 /\ Boundary(s, t.next)
           /\ \A i \in Begins(s) : i <= t.next => i <= n
  <2>1. t.token \in Pieces(s)
    BY <1>4 DEF Pieces
  <2>2. r \in Seq(Pieces(s)) /\ Len(r) = Len(q) + 1 /\ Members(r) = Members(q) \cup {<<>>}
    BY <1>3, <1>4, <2>1, MembersAppend
  <2>3. Found(s, t.next) = Found(s, n)
    <3>1. \A i \in Begins(s) : i <= n => i <= t.next
      BY <1>0, <1>1, <1>4
    <3> QED BY <1>4, <3>1 DEF Found
  <2>4. Cardinality(Found(s, t.next)) <= Len(r) /\ Len(r) <= 2 /\ ~(t.next <= 15)
    BY <1>0, <1>2, <1>4, <2>2, <2>3
  <2>5. \A i \in Found(s, t.next) : i <= 16 /\ WordAt(s, i) \in Members(r)
    BY <1>2, <2>2, <2>3
  <2>6. \A w \in Members(r) : w = <<>> \/ \E i \in Found(s, t.next) : w = WordAt(s, i)
    BY <1>2, <2>2, <2>3
  <2>7. Splitting(s, t.next, r)
    BY <1>0, <1>4, <2>4, <2>5, <2>6 DEF Splitting
  <2> QED BY <1>3, <2>2, <2>7
<1>5. ASSUME NEW i \in Begins(s), n < i, i <= MAX_OPTION_LEN + 1,
             t.token = WordAt(s, i), t.next >= i, Boundary(s, t.next),
             \A j \in Begins(s) : j <= t.next => j <= n \/ j = i
      PROVE  r \in Seq(Pieces(s)) /\ Splitting(s, t.next, r)
  <2>1. t.token \in Pieces(s)
    BY <1>5 DEF Pieces
  <2>2. r \in Seq(Pieces(s)) /\ Len(r) = Len(q) + 1 /\ Members(r) = Members(q) \cup {WordAt(s, i)}
    BY <1>3, <1>5, <2>1, MembersAppend
  <2>3. Found(s, t.next) = Found(s, n) \cup {i}
    <3>1. t.next \in Nat /\ i \in Nat
      BY <1>0, <1>5 DEF Boundary
    <3>2. \A j \in Begins(s) : j <= n => j <= t.next
      BY <1>0, <1>5, <3>1
    <3> QED BY <1>5, <3>2 DEF Found
  <2>4. i \notin Found(s, n)
    BY <1>0, <1>5 DEF Found
  <2>5. Cardinality(Found(s, t.next)) = Len(r)
    <3>1. IsFiniteSet(Found(s, n)) /\ Cardinality(Found(s, n)) \in Nat
      BY FoundFinite DEF Found
    <3>2. Cardinality(Found(s, n) \cup {i}) = Cardinality(Found(s, n)) + 1
      BY <2>4, <3>1, FS_AddElement
    <3> QED BY <1>2, <2>2, <2>3, <3>2
  <2>6. Cardinality(Found(s, t.next)) <= Len(r) /\ Len(r) <= 2
    BY <1>0, <2>2, <2>5
  <2>7. \A j \in Found(s, t.next) : j <= 16 /\ WordAt(s, j) \in Members(r)
    BY <1>0, <1>2, <1>5, <2>2, <2>3
  <2>8. \A w \in Members(r) : w = <<>> \/ \E j \in Found(s, t.next) : w = WordAt(s, j)
    BY <1>2, <2>2, <2>3
  <2>9. Splitting(s, t.next, r)
    BY <1>0, <1>5, <2>5, <2>6, <2>7, <2>8 DEF Splitting
  <2> QED BY <2>2, <2>9
<1>6. n \in 0..MAX_OPTION_LEN
  BY <1>0, <1>1
<1>7. NextIs(s, MAX_OPTION_LEN, n, t)
  BY <1>2, <1>6, OrdinaryFits, NextWord
<1> QED BY <1>3, <1>4, <1>5, <1>7 DEF NextIs

\* When no other word is looked for or found, those found are those that are heard.
LEMMA AllHeard ==
  ASSUME NEW s, IsText(s), Ordinary(s), NEW n, NEW q \in Seq(Pieces(s)), Splitting(s, n, q),
         ~(Len(q) < MAX_OPTIONS /\ strtokbuf(s, Spaces, MAX_OPTION_LEN, n).found)
  PROVE  Heard(s) = {WordAt(s, i) : i \in Found(s, n)}
<1>0. MAX_OPTION_LEN = 15 /\ MAX_OPTIONS = 2 /\ Len(q) \in Nat /\ n \in Nat
      /\ \A i \in Begins(s) : i \in Nat
  <2>1. \A i \in Begins(s) : i \in Nat
    BY WordEnd
  <2>2. Len(q) \in Nat
    OBVIOUS
  <2>3. n \in Nat
    BY DEF Splitting, Boundary
  <2> QED BY <2>1, <2>2, <2>3 DEF MAX_OPTION_LEN, MAX_OPTIONS
<1>1. /\ \A i \in Found(s, n) : i <= 16
      /\ Cardinality(Found(s, n)) <= 2
      /\ n <= 15 => Cardinality(Found(s, n)) = Len(q)
  <2>1. Cardinality(Found(s, n)) \in Nat
    BY FoundFinite DEF Found
  <2> QED BY <1>0, <2>1 DEF Splitting
<1>2. \A j : {h \in Begins(s) : h < j} \in SUBSET Begins(s) /\ Found(s, n) \in SUBSET Begins(s)
  BY DEF Found
<1>3. ASSUME NEW j \in Found(s, n)
      PROVE  j \in Begins(s) /\ j <= 16 /\ Cardinality({h \in Begins(s) : h < j}) < 2
  <2>1. PICK B : B = {h \in Begins(s) : h < j}
    OBVIOUS
  <2>2. j \in Begins(s) /\ j \notin B /\ B \subseteq Found(s, n)
    BY <1>0, <2>1 DEF Found
  <2>3. IsFiniteSet(Found(s, n)) /\ Cardinality(Found(s, n)) \in Nat /\ Cardinality(B) \in Nat
    BY <1>2, <2>1, FoundFinite
  <2>4. Cardinality(B) <= Cardinality(Found(s, n))
    BY <2>2, <2>3, FS_Subset
  <2>5. Cardinality(B) # Cardinality(Found(s, n))
    BY <2>2, <2>3, FS_Subset
  <2>6. Cardinality(B) < 2
    BY <1>1, <2>3, <2>4, <2>5
  <2> QED BY <1>1, <2>1, <2>2, <2>6
<1>4. ASSUME NEW j \in Begins(s), j <= 16, Cardinality({h \in Begins(s) : h < j}) < 2
      PROVE  j \in Found(s, n)
  <2> SUFFICES ASSUME j > n PROVE FALSE
    BY <1>0 DEF Found
  <2>1. n <= 15
    BY <1>0, <1>4
  <2>2. CASE Len(q) >= 2
    <3>1. PICK B : B = {h \in Begins(s) : h < j}
      OBVIOUS
    <3>2. Found(s, n) \subseteq B
      BY <1>0, <3>1 DEF Found
    <3>3. IsFiniteSet(B) /\ Cardinality(Found(s, n)) \in Nat /\ Cardinality(B) \in Nat
      BY <1>2, <3>1, FoundFinite
    <3>4. Cardinality(Found(s, n)) <= Cardinality(B)
      BY <3>2, <3>3, FS_Subset
    <3> QED BY <1>1, <1>4, <2>1, <2>2, <3>1, <3>3, <3>4
  <2>3. CASE Len(q) < 2
    <3>1. Len(q) < MAX_OPTIONS
      BY <1>0, <2>3
    <3>2. ~strtokbuf(s, Spaces, MAX_OPTION_LEN, n).found
      BY <3>1
    <3>3. \A i \in Begins(s) : i <= n
      <4>1. n \in 0..MAX_OPTION_LEN /\ Boundary(s, n)
        BY <1>0, <2>1 DEF Splitting
      <4>2. PICK t : t = strtokbuf(s, Spaces, MAX_OPTION_LEN, n)
        OBVIOUS
      <4>3. NextIs(s, MAX_OPTION_LEN, n, t)
        BY <4>1, <4>2, OrdinaryFits, NextWord
      <4> QED BY <3>2, <4>2, <4>3 DEF NextIs
    <3> QED BY <1>0, <3>3
  <2> QED BY <1>0, <2>2, <2>3
<1>5. \A j : j \in Found(s, n) <=>
               j \in Begins(s) /\ j <= 16 /\ Cardinality({h \in Begins(s) : h < j}) < 2
  BY <1>2, <1>3, <1>4
<1>6. {j \in Begins(s) : j <= MAX_OPTION_LEN + 1
                           /\ Cardinality({h \in Begins(s) : h < j}) < MAX_OPTIONS} = Found(s, n)
  <2>1. MAX_OPTION_LEN + 1 = 16 /\ MAX_OPTIONS = 2
    BY <1>0
  <2> QED BY <1>5, <2>1
<1> QED BY <1>6 DEF Heard

\* Then they are waiting, and none has done anything.
LEMMA SplitsLast ==
  ASSUME NEW s, IsText(s), Ordinary(s), NEW n, NEW q \in Seq(Pieces(s)), Splitting(s, n, q),
         ~(Len(q) < MAX_OPTIONS /\ strtokbuf(s, Spaces, MAX_OPTION_LEN, n).found)
  PROVE  Acting(s, q, Fresh, TRUE)
<1>1. Heard(s) = {WordAt(s, i) : i \in Found(s, n)}
  BY AllHeard
<1>2. /\ \A i \in Found(s, n) : WordAt(s, i) \in Members(q)
      /\ \A w \in Members(q) : w = <<>> \/ \E i \in Found(s, n) : w = WordAt(s, i)
  BY DEF Splitting
<1>3. Heard(s) \subseteq {} \cup Members(q) /\ Members(q) \subseteq Heard(s) \cup {<<>>}
  BY <1>1, <1>2
<1>4. Effect({}, Fresh, TRUE)
  BY DEF Effect, Fresh, MIN_HEAP_PAGES
<1>5. {} \in SUBSET (Heard(s) \cup {<<>>})
  OBVIOUS
<1> QED BY <1>3, <1>4, <1>5 DEF Acting

\* A heap size is a kernel option; the screen's option is neither.
LEMMA OptionKinds ==
  ASSUME NEW w
  PROVE  (HeapOption(w) => KernelOption(w)) /\ ~KernelOption(NoVideo)
<1>1. ASSUME HeapOption(w) PROVE KernelOption(w)
  <2>1. Len(w) > 8 /\ \A i \in 1..7 : w[i] = <<Dash, 107, 104, 101, 97, 112, Equals>>[i]
    BY <1>1 DEF HeapOption, Written
  <2>2. w[1] = Dash /\ w[2] = 107
    <3>1. 1 \in 1..7 /\ 2 \in 1..7
      OBVIOUS
    <3>2. w[1] = <<Dash, 107, 104, 101, 97, 112, Equals>>[1]
      BY <2>1, <3>1
    <3>3. w[2] = <<Dash, 107, 104, 101, 97, 112, Equals>>[2]
      BY <2>1, <3>1
    <3> QED BY <3>2, <3>3
  <2>3. Len(w) > 1
    BY <1>1 DEF HeapOption, Written
  <2> QED BY <2>2, <2>3 DEF KernelOption
<1>2. ~KernelOption(NoVideo)
  BY DEF KernelOption, NoVideo
<1> QED BY <1>1, <1>2

\* What one word does.
Does(w) ==
  \/ /\ w = NoVideo
     /\ opts' = [opts EXCEPT !.useVideo = FALSE] /\ UNCHANGED rtncde
  \/ /\ w # NoVideo /\ KernelOption(w)
     /\ IF HeapOption(w) /\ ~TooSmall(Asked(w))
        THEN opts' = [opts EXCEPT !.heapSizePages = Asked(w)] /\ UNCHANGED rtncde
        ELSE rtncde' = FALSE /\ UNCHANGED opts
  \/ /\ w # NoVideo /\ ~KernelOption(w) /\ UNCHANGED <<opts, rtncde>>
LEMMA OneEffect ==
  ASSUME NEW P, Effect(P, opts, rtncde), NEW w, IsText(w), HeapOption(w) => Asked(w) \in Nat, Does(w)
  PROVE  Effect(P \cup {w}, opts', rtncde')
<1>0. /\ opts \in [heapSizePages : Nat, useVideo : BOOLEAN] /\ rtncde \in BOOLEAN
      /\ (opts.useVideo <=> NoVideo \notin P)
      /\ \/ opts.heapSizePages = MIN_HEAP_PAGES
         \/ \E v \in P : HeapOption(v) /\ opts.heapSizePages = Asked(v)
      /\ opts.heapSizePages >= MIN_HEAP_PAGES
      /\ \A v \in P : HeapOption(v) => Asked(v) \in Nat /\ Asked(v) <= opts.heapSizePages
      /\ ~rtncde => \E v \in P : KernelOption(v) /\ (HeapOption(v) => Asked(v) < opts.heapSizePages)
  BY DEF Effect
<1>1. (HeapOption(w) => KernelOption(w)) /\ ~KernelOption(NoVideo)
  BY OptionKinds
<1>2. CASE w = NoVideo /\ opts' = [opts EXCEPT !.useVideo = FALSE] /\ UNCHANGED rtncde
  <2>1. opts'.heapSizePages = opts.heapSizePages /\ opts'.useVideo = FALSE /\ rtncde' = rtncde
        /\ opts' \in [heapSizePages : Nat, useVideo : BOOLEAN]
    BY <1>0, <1>2
  <2>2. ~HeapOption(w)
    BY <1>1, <1>2
  <2>3. opts'.useVideo <=> NoVideo \notin P \cup {w}
    BY <1>2, <2>1
  <2> QED BY <1>0, <2>1, <2>2, <2>3 DEF Effect
<1>3. CASE w # NoVideo /\ HeapOption(w) /\ ~TooSmall(Asked(w))
           /\ opts' = [opts EXCEPT !.heapSizePages = Asked(w)] /\ UNCHANGED rtncde
  <2>1. opts'.heapSizePages = Asked(w) /\ opts'.useVideo = opts.useVideo /\ rtncde' = rtncde
        /\ opts' \in [heapSizePages : Nat, useVideo : BOOLEAN]
    BY <1>0, <1>3
  <2>2. PICK h, a \in Nat : h = opts.heapSizePages /\ a = Asked(w)
    BY <1>0, <1>3
  <2>3. h <= a /\ h \in Nat
    BY <1>0, <1>3, <2>2 DEF TooSmall
  <2>4. opts'.useVideo <=> NoVideo \notin P \cup {w}
    BY <1>0, <1>3, <2>1
  <2>5. a >= MIN_HEAP_PAGES
    BY <1>0, <2>2, <2>3 DEF MIN_HEAP_PAGES
  <2>6. ASSUME NEW v \in P \cup {w}, HeapOption(v) PROVE Asked(v) \in Nat /\ Asked(v) <= a
    <3>1. CASE v = w
      BY <2>2, <3>1
    <3>2. CASE v \in P
      <4>1. Asked(v) \in Nat /\ Asked(v) <= h
        BY <1>0, <2>2, <2>6, <3>2
      <4> QED BY <2>2, <2>3, <4>1
    <3> QED BY <3>1, <3>2
  <2>7. ASSUME ~rtncde
        PROVE  \E v \in P \cup {w} : KernelOption(v) /\ (HeapOption(v) => Asked(v) < a)
    <3>1. PICK v \in P : KernelOption(v) /\ (HeapOption(v) => Asked(v) < h)
      BY <1>0, <2>2, <2>7
    <3>2. ASSUME HeapOption(v) PROVE Asked(v) < a
      <4>1. Asked(v) \in Nat /\ Asked(v) < h
        BY <1>0, <3>1, <3>2
      <4> QED BY <2>2, <2>3, <4>1
    <3> QED BY <3>1, <3>2
  <2> QED BY <1>0, <1>3, <2>1, <2>2, <2>4, <2>5, <2>6, <2>7 DEF Effect
<1>4. CASE w # NoVideo /\ KernelOption(w) /\ ~(HeapOption(w) /\ ~TooSmall(Asked(w)))
           /\ rtncde' = FALSE /\ UNCHANGED opts
  <2>1. opts' = opts
    BY <1>4
  <2>2. HeapOption(w) => Asked(w) < opts.heapSizePages
    BY <1>4 DEF TooSmall
  <2>3. HeapOption(w) => Asked(w) \in Nat /\ Asked(w) <= opts.heapSizePages
    BY <1>0, <2>2
  <2>4. opts.useVideo <=> NoVideo \notin P \cup {w}
    BY <1>0, <1>4
  <2> QED BY <1>0, <1>4, <2>1, <2>2, <2>3, <2>4 DEF Effect
<1>5. CASE w # NoVideo /\ ~KernelOption(w) /\ UNCHANGED <<opts, rtncde>>
  <2>1. opts' = opts /\ rtncde' = rtncde /\ ~HeapOption(w)
    BY <1>1, <1>5
  <2>2. opts.useVideo <=> NoVideo \notin P \cup {w}
    BY <1>0, <1>5
  <2> QED BY <1>0, <2>1, <2>2 DEF Effect
<1> QED BY <1>2, <1>3, <1>4, <1>5 DEF Does

\* The word at the head of those that wait.
LEMMA ActsOn ==
  ASSUME NEW s, IsText(s), Ordinary(s), options \in Seq(Pieces(s)),
         Acting(s, options, opts, rtncde), Option
  PROVE  options' \in Seq(Pieces(s)) /\ Acting(s, options', opts', rtncde')
<1>1. options # <<>> /\ options' = Tail(options)
  BY DEF Option
<1>2. PICK w : w = Head(options)
  OBVIOUS
<1>3. w \in Pieces(s) /\ Tail(options) \in Seq(Pieces(s))
      /\ Members(options) = {w} \cup Members(Tail(options))
  BY <1>1, <1>2, MembersTail
<1>4. /\ IsText(w) /\ Len(w) \in Nat /\ Len(w) <= 14
      /\ \A k \in 1..Len(w) : w[k] \notin Spaces
      /\ KernelOption(w) /\ (\E j \in DOMAIN w : w[j] = Equals) => Written(w)
  BY <1>3, PieceIs
<1>5. PICK P \in SUBSET (Heard(s) \cup {<<>>}) :
        /\ Heard(s) \subseteq P \cup Members(options) /\ Members(options) \subseteq Heard(s) \cup {<<>>}
        /\ Effect(P, opts, rtncde)
  BY DEF Acting
<1>6. Same(MAX_OPTION_LEN, w, NoVideo) <=> w = NoVideo
  <2>1. 15 \in Nat /\ Len(w) < 15 /\ Len(NoVideo) < 15 /\ IsText(NoVideo)
    BY <1>4, ConstantTexts
  <2>2. Same(15, w, NoVideo) <=> w = NoVideo
    BY <1>4, <2>1, SameIs
  <2> QED BY <2>2 DEF MAX_OPTION_LEN
<1>7. At(w, 0) = Dash /\ At(w, 1) = 107 <=> KernelOption(w)
  BY <1>4, StartsKernel
<1>8. HeapOption(w) => Asked(w) \in Nat
  BY <1>4, AskedNat
<1>9. ASSUME w = NoVideo PROVE Does(w)
  <2>1. opts' = [opts EXCEPT !.useVideo = FALSE] /\ UNCHANGED rtncde
    BY <1>2, <1>6, <1>9 DEF Option
  <2> QED BY <1>9, <2>1 DEF Does
<1>10. ASSUME w # NoVideo, KernelOption(w) PROVE Does(w)
  <2>1. KernelOpt(w)
    BY <1>2, <1>6, <1>7, <1>10 DEF Option
  <2>2. processKernelOpt(w) = IF HeapOption(w) /\ ~TooSmall(Asked(w)) THEN Asked(w) ELSE 0
    BY <1>4, <1>10, HeapAsked
  <2>3. CASE HeapOption(w) /\ ~TooSmall(Asked(w))
    <3>1. opts.heapSizePages \in Nat /\ opts.heapSizePages >= 128
      BY <1>5 DEF Effect, MIN_HEAP_PAGES
    <3>2. Asked(w) # 0
      BY <1>8, <2>3, <3>1 DEF TooSmall
    <3>3. opts' = [opts EXCEPT !.heapSizePages = Asked(w)] /\ UNCHANGED rtncde
      BY <2>1, <2>2, <2>3, <3>2 DEF KernelOpt
    <3> QED BY <1>10, <2>3, <3>3 DEF Does
  <2>4. CASE ~(HeapOption(w) /\ ~TooSmall(Asked(w)))
    <3>1. rtncde' = FALSE /\ UNCHANGED opts
      BY <2>1, <2>2, <2>4 DEF KernelOpt
    <3> QED BY <1>10, <2>4, <3>1 DEF Does
  <2> QED BY <2>3, <2>4
<1>11. ASSUME w # NoVideo, ~KernelOption(w) PROVE Does(w)
  <2>1. UNCHANGED <<opts, rtncde>>
    BY <1>2, <1>6, <1>7, <1>11 DEF Option
  <2> QED BY <1>11, <2>1 DEF Does
<1>12. Effect(P \cup {w}, opts', rtncde')
  <2>1. Does(w)
    BY <1>9, <1>10, <1>11
  <2> QED BY <1>4, <1>5, <1>8, <2>1, OneEffect
<1>13. /\ P \cup {w} \in SUBSET (Heard(s) \cup {<<>>})
       /\ Heard(s) \subseteq (P \cup {w}) \cup Members(options')
       /\ Members(options') \subseteq Heard(s) \cup {<<>>}
  BY <1>1, <1>3, <1>5
<1> QED BY <1>1, <1>3, <1>12, <1>13 DEF Acting

\* The invariant holds at first and no step ends it.
LEMMA LineKept ==
  /\ CLInit => LineInv
  /\ TagsRead /\ LineInv /\ [CLNext]_clvars => LineInv'
<1>1. CLInit => LineInv
  BY DEF CLInit, LineInv
<1>2. ASSUME TagsRead, LineInv, [CLNext]_clvars PROVE LineInv'
  <2>0. PICK s : s = Text(Cmd)
    OBVIOUS
  <2>1. IsText(s)
    BY <1>2, <2>0, LineIsText
  <2>2. /\ pc = "boot" => start = 0 /\ options = <<>> /\ rtncde = TRUE
        /\ pc # "boot" /\ Ordinary(s) =>
             /\ options \in Seq(Pieces(s))
             /\ pc = "split" => Splitting(s, start, options) /\ opts = Fresh /\ rtncde = TRUE
             /\ pc # "split" => Acting(s, options, opts, rtncde)
             /\ pc \notin {"split", "options"} => options = <<>>
             /\ pc = "aborted" => ~rtncde
    BY <1>2, <2>0 DEF LineInv
  <2>3. ASSUME mem' = mem,
               pc' = "boot" => start' = 0 /\ options' = <<>> /\ rtncde' = TRUE,
               pc' # "boot", Ordinary(s) =>
                 /\ options' \in Seq(Pieces(s))
                 /\ pc' = "split" => Splitting(s, start', options') /\ opts' = Fresh /\ rtncde' = TRUE
                 /\ pc' # "split" => Acting(s, options', opts', rtncde')
                 /\ pc' \notin {"split", "options"} => options' = <<>>
                 /\ pc' = "aborted" => ~rtncde'
        PROVE  LineInv'
    <3>1. Text(Cmd)' = s
      BY <2>0, <2>3 DEF Text, strlen, Cmd
    <3> QED BY <2>3, <3>1 DEF LineInv
  <2>4. CASE Boot
    BY <2>2, <2>4 DEF Boot, LineInv
  <2>5. CASE Booted
    <3>1. /\ mem' = mem /\ pc' = "split" /\ start' = 0 /\ options' = <<>> /\ rtncde' = TRUE
          /\ opts' = Fresh
      BY <2>2, <2>5 DEF Booted, Fresh, bvars
    <3>2. Splitting(s, 0, <<>>)
      <4>1. \A i \in Begins(s) : ~(i <= 0)
        BY <2>1, WordEnd
      <4>2. Found(s, 0) = {}
        BY <4>1 DEF Found
      <4>3. Cardinality(Found(s, 0)) = 0
        BY <4>2, FS_EmptySet
      <4>4. Members(<<>>) = {} /\ Len(<<>>) = 0
        BY DEF Members
      <4>5. Boundary(s, 0)
        BY DEF Boundary
      <4> QED BY <4>2, <4>3, <4>4, <4>5 DEF Splitting, MAX_OPTIONS
    <3>3. <<>> \in Seq(Pieces(s))
      OBVIOUS
    <3> QED BY <2>3, <3>1, <3>2, <3>3
  <2>6. CASE Split
    <3>0. PICK t : t = strtokbuf(s, Spaces, MAX_OPTION_LEN, start)
      OBVIOUS
    <3>1. /\ pc = "split" /\ mem' = mem /\ opts' = opts /\ rtncde' = rtncde
          /\ IF Len(options) < MAX_OPTIONS /\ t.found
             THEN options' = Append(options, t.token) /\ start' = t.next /\ pc' = pc
             ELSE pc' = "options" /\ options' = options /\ start' = start
      BY <2>0, <2>6, <3>0 DEF Split, bvars
    <3>2. ASSUME Ordinary(s)
          PROVE  options \in Seq(Pieces(s)) /\ Splitting(s, start, options) /\ opts = Fresh /\ rtncde = TRUE
      BY <2>2, <3>1, <3>2
    <3>3. CASE Len(options) < MAX_OPTIONS /\ t.found
      <4>1. ASSUME Ordinary(s) PROVE options' \in Seq(Pieces(s)) /\ Splitting(s, start', options')
        <5>1. Append(options, t.token) \in Seq(Pieces(s))
              /\ Splitting(s, t.next, Append(options, t.token))
          BY <2>1, <3>0, <3>2, <3>3, <4>1, SplitsOn
        <5> QED BY <3>1, <3>3, <5>1
      <4> QED BY <2>3, <3>1, <3>2, <3>3, <4>1
    <3>4. CASE ~(Len(options) < MAX_OPTIONS /\ t.found)
      <4>1. pc' = "options" /\ options' = options
        BY <3>1, <3>4
      <4>2. ASSUME Ordinary(s) PROVE Acting(s, options, Fresh, TRUE)
        <5>1. ~(Len(options) < MAX_OPTIONS /\ strtokbuf(s, Spaces, MAX_OPTION_LEN, start).found)
          BY <3>0, <3>4
        <5> QED BY <2>1, <3>2, <4>2, <5>1, SplitsLast
      <4> QED BY <2>3, <3>1, <3>2, <4>1, <4>2
    <3> QED BY <3>3, <3>4
  <2>7. CASE Option
    <3>1. pc = "options" /\ mem' = mem /\ pc' = pc
      BY <2>7 DEF Option, bvars
    <3>2. ASSUME Ordinary(s)
          PROVE  options' \in Seq(Pieces(s)) /\ Acting(s, options', opts', rtncde')
      <4>1. options \in Seq(Pieces(s)) /\ Acting(s, options, opts, rtncde)
        BY <2>2, <3>1, <3>2
      <4> QED BY <2>1, <2>7, <3>2, <4>1, ActsOn
    <3> QED BY <2>3, <3>1, <3>2
  <2>8. CASE Processed
    <3>1. /\ pc = "options" /\ mem' = mem /\ options = <<>> /\ options' = options /\ opts' = opts
          /\ rtncde' = rtncde /\ pc' = IF rtncde THEN "shell" ELSE "aborted"
      BY <2>8 DEF Processed, bvars
    <3>2. pc' # "boot" /\ pc' # "split" /\ (pc' = "aborted" => ~rtncde')
      BY <3>1
    <3> QED BY <2>2, <2>3, <3>1, <3>2
  <2>9. CASE Shell
    <3>1. /\ pc = "shell" /\ mem' = mem /\ options' = options /\ opts' = opts /\ rtncde' = rtncde
          /\ pc' \in {"shell", "exit"}
      BY <2>9 DEF Shell, bvars
    <3> QED BY <2>2, <2>3, <3>1
  <2>10. CASE UNCHANGED clvars
    <3>1. /\ mem' = mem /\ pc' = pc /\ start' = start /\ options' = options /\ opts' = opts
          /\ rtncde' = rtncde
      BY <2>10 DEF clvars, bvars
    <3>2. CASE pc = "boot"
      BY <2>2, <3>1, <3>2 DEF LineInv
    <3>3. CASE pc # "boot"
      BY <2>2, <2>3, <3>1, <3>3
    <3> QED BY <3>2, <3>3
  <2> QED BY <1>2, <2>4, <2>5, <2>6, <2>7, <2>8, <2>9, <2>10 DEF CLNext
<1> QED BY <1>1, <1>2

\* Of every command line whose words fit and whose heap sizes are written as they
\* should be, the options that are heard take effect and nothing else does, in any
\* order and with any blanks between them (processCommandLine, strtokbuf).
THEOREM OptionsAlwaysHeard == CLSpec => []OptionsHeard
<1>1. TagsRead /\ LineInv => OptionsHeard
  <2>0. SUFFICES ASSUME TagsRead, LineInv, NEW s, s = Text(Cmd), Ordinary(s),
                        pc \in {"shell", "exit", "aborted"}
                 PROVE  /\ opts.useVideo <=> NoVideo \notin Heard(s)
                        /\ opts.heapSizePages =
                             Max({MIN_HEAP_PAGES} \cup {Asked(w) : w \in {v \in Heard(s) : HeapOption(v)}})
                        /\ pc = "aborted" =>
                             \E w \in Heard(s) : KernelOption(w)
                               /\ (HeapOption(w) => Asked(w) < opts.heapSizePages)
    BY DEF OptionsHeard
  <2>1. Acting(s, <<>>, opts, rtncde) /\ (pc = "aborted" => ~rtncde)
    BY <2>0 DEF LineInv
  <2>2. PICK P \in SUBSET (Heard(s) \cup {<<>>}) :
          Heard(s) \subseteq P \cup Members(<<>>) /\ Effect(P, opts, rtncde)
    BY <2>1 DEF Acting
  <2>3. \A w : w # <<>> => (w \in P <=> w \in Heard(s))
    <3>1. Members(<<>>) = {}
      BY DEF Members
    <3> QED BY <2>2, <3>1
  <2>4. NoVideo # <<>> /\ ~KernelOption(<<>>) /\ ~HeapOption(<<>>)
    BY DEF NoVideo, KernelOption, HeapOption
  <2>5. /\ (opts.useVideo <=> NoVideo \notin P)
        /\ \/ opts.heapSizePages = MIN_HEAP_PAGES
           \/ \E w \in P : HeapOption(w) /\ opts.heapSizePages = Asked(w)
        /\ opts.heapSizePages >= MIN_HEAP_PAGES /\ opts.heapSizePages \in Nat
        /\ \A w \in P : HeapOption(w) => Asked(w) \in Nat /\ Asked(w) <= opts.heapSizePages
        /\ ~rtncde => \E w \in P : KernelOption(w) /\ (HeapOption(w) => Asked(w) < opts.heapSizePages)
    BY <2>2 DEF Effect
  <2>6. opts.useVideo <=> NoVideo \notin Heard(s)
    BY <2>3, <2>4, <2>5
  <2>7. ASSUME pc = "aborted"
        PROVE  \E w \in Heard(s) : KernelOption(w) /\ (HeapOption(w) => Asked(w) < opts.heapSizePages)
    <3>1. PICK w \in P : KernelOption(w) /\ (HeapOption(w) => Asked(w) < opts.heapSizePages)
      BY <2>1, <2>5, <2>7
    <3>2. w \in Heard(s)
      BY <2>3, <2>4, <3>1
    <3> QED BY <3>1, <3>2
  <2>8. opts.heapSizePages =
          Max({MIN_HEAP_PAGES} \cup {Asked(w) : w \in {v \in Heard(s) : HeapOption(v)}})
    <3>1. PICK S : S = {MIN_HEAP_PAGES} \cup {Asked(w) : w \in {v \in Heard(s) : HeapOption(v)}}
      OBVIOUS
    <3>2. PICK h \in Nat : h = opts.heapSizePages
      BY <2>5
    <3>3. h \in S
      <4>1. CASE h = MIN_HEAP_PAGES
        BY <3>1, <4>1
      <4>2. CASE \E w \in P : HeapOption(w) /\ h = Asked(w)
        <5>1. PICK w \in P : HeapOption(w) /\ h = Asked(w)
          BY <4>2
        <5>2. w \in Heard(s)
          BY <2>3, <2>4, <5>1
        <5> QED BY <3>1, <5>1, <5>2
      <4> QED BY <2>5, <3>2, <4>1, <4>2
    <3>4. ASSUME NEW y \in S PROVE y \in Nat /\ h >= y
      <4>1. CASE y = MIN_HEAP_PAGES
        BY <2>5, <3>2, <4>1 DEF MIN_HEAP_PAGES
      <4>2. CASE y # MIN_HEAP_PAGES
        <5>1. PICK w \in Heard(s) : HeapOption(w) /\ y = Asked(w)
          BY <3>1, <4>2
        <5>2. w \in P
          BY <2>3, <2>4, <5>1
        <5>3. y \in Nat /\ y <= h
          BY <2>5, <3>2, <5>1, <5>2
        <5> QED BY <3>2, <5>3
      <4> QED BY <4>1, <4>2
    <3>5. Max(S) \in S /\ \A y \in S : Max(S) >= y
      BY <3>3, <3>4 DEF Max
    <3>6. Max(S) = h
      <4>1. Max(S) >= h /\ h >= Max(S) /\ Max(S) \in Nat
        BY <3>3, <3>4, <3>5
      <4> QED BY <4>1
    <3> QED BY <3>1, <3>2, <3>6
  <2> QED BY <2>6, <2>7, <2>8
<1> QED BY <1>1, BootReads, LineKept, PTL DEF CLSpec

-----------------------------------------------------------------------------
(* Commands.                                                               *)

\* The words of s are those of r, d characters further on.
SameWords(s, r, d) ==
  /\ d \in Nat
  /\ \A i \in Begins(s) : i + d \in Begins(r) /\ WordAt(r, i + d) = WordAt(s, i)
  /\ \A j \in Begins(r) : j - d \in Begins(s)

\* Blanks that are cut off at the ends are in no word.
LEMMA CutKeeps ==
  ASSUME NEW r, IsText(r), NEW a \in Nat \ {0}, NEW b \in Nat, a <= b + 1, b <= Len(r),
         \A k \in 1..Len(r) : k < a \/ k > b => r[k] \in Spaces,
         NEW s, s = SubSeq(r, a, b), NEW d \in Nat, d = a - 1
  PROVE  /\ IsText(s) /\ Len(s) <= Len(r)
         /\ SameWords(s, r, d)
<1>0. Len(r) \in Nat /\ DOMAIN r = 1..Len(r)
  BY AtIs
<1>1. IsText(s) /\ \A i \in 1..(b - a + 1) : s[i] = r[a + i - 1]
  BY PartOfText
<1>2. Len(s) = b - d
  <2>1. Len(s) = IF a <= b THEN b - a + 1 ELSE 0
    BY PartOfText
  <2> QED BY <2>1
<1>3. DOMAIN s = 1..Len(s) /\ \A i \in 1..Len(s) : s[i] = r[i + d]
  <2>1. \A i \in 1..Len(s) : a + i - 1 = i + d /\ i \in 1..(b - a + 1)
    BY <1>2
  <2> QED BY <1>1, <2>1, AtIs
<1>4. ASSUME NEW i \in Begins(s)
      PROVE  i + d \in Begins(r) /\ WordAt(r, i + d) = WordAt(s, i)
  <2>1. i \in Nat \ {0} /\ i <= Len(s)
    BY <1>1, WordEnd
  <2>2. s[i] \notin Spaces /\ (i # 1 => s[i - 1] \in Spaces)
    BY <2>1 DEF Begins
  <2>3. PICK j : j = i + d
    OBVIOUS
  <2>4. j \in 1..Len(r) /\ r[j] \notin Spaces
    BY <1>0, <1>2, <1>3, <2>1, <2>2, <2>3
  <2>5. j = 1 \/ r[j - 1] \in Spaces
    <3>1. CASE i = 1
      <4>1. d = 0 \/ (d \in 1..Len(r) /\ d < a)
        BY <1>0, <1>2, <2>1
      <4>2. d = 0 \/ r[d] \in Spaces
        BY <4>1
      <4>3. j - 1 = d
        BY <2>3, <3>1
      <4> QED BY <2>3, <3>1, <4>2, <4>3
    <3>2. CASE i # 1
      <4>1. i - 1 \in 1..Len(s) /\ (i - 1) + d = j - 1
        BY <1>2, <2>1, <2>3, <3>2
      <4> QED BY <1>3, <2>2, <3>2, <4>1
    <3> QED BY <3>1, <3>2
  <2>6. j \in Begins(r)
    BY <1>0, <2>4, <2>5 DEF Begins
  <2>7. PICK e \in i..Len(s) : 
          /\ WordAt(s, i) = SubSeq(s, i, e)
          /\ \A k \in i..e : s[k] \notin Spaces
          /\ e >= Len(s) \/ s[e + 1] \in Spaces
    BY <1>1, WordEnd
  <2>8. PICK g \in j..Len(r) : 
          /\ WordAt(r, j) = SubSeq(r, j, g)
          /\ \A k \in j..g : r[k] \notin Spaces
          /\ g >= Len(r) \/ r[g + 1] \in Spaces
    BY <2>6, WordEnd
  <2>9. e \in Nat /\ i <= e /\ e <= Len(s) /\ g \in Nat /\ j <= g /\ g <= Len(r) /\ j \in Nat
    <3>1. e \in i..Len(s) /\ g \in j..Len(r)
      BY <2>7, <2>8
    <3> QED BY <1>0, <1>2, <2>1, <2>4, <3>1
  <2>10. ~(g > e + d)
    <3> SUFFICES ASSUME g > e + d PROVE FALSE
      OBVIOUS
    <3>1. e + d + 1 \in j..g /\ e + d + 1 \in 1..Len(r)
      BY <1>0, <2>1, <2>3, <2>9
    <3>2. r[e + d + 1] \notin Spaces
      BY <2>8, <3>1
    <3>3. CASE e >= Len(s)
      <4>1. e + d + 1 > b
        BY <1>2, <2>9, <3>3
      <4> QED BY <3>1, <3>2, <4>1
    <3>4. CASE e < Len(s)
      <4>1. e + 1 \in 1..Len(s) /\ (e + 1) + d = e + d + 1
        BY <1>2, <2>9, <3>4
      <4>2. s[e + 1] \in Spaces
        BY <1>2, <2>7, <2>9, <3>4
      <4> QED BY <1>3, <3>2, <4>1, <4>2
    <3> QED BY <1>2, <2>9, <3>3, <3>4
  <2>11. ~(g < e + d)
    <3> SUFFICES ASSUME g < e + d PROVE FALSE
      OBVIOUS
    <3>1. PICK k : k = g + 1 - d
      OBVIOUS
    <3>2. k \in i..e /\ k \in 1..Len(s) /\ k + d = g + 1 /\ g < Len(r)
      BY <1>0, <1>2, <2>1, <2>3, <2>9, <3>1
    <3>3. s[k] \notin Spaces
      BY <2>7, <3>2
    <3>4. r[g + 1] \notin Spaces
      BY <1>3, <3>2, <3>3
    <3>5. ~(g >= Len(r))
      BY <1>0, <2>9, <3>2
    <3> QED BY <2>8, <3>4, <3>5
  <2>12. g = e + d
    BY <2>9, <2>10, <2>11
  <2>13. PICK u : u = SubSeq(s, i, e)
    OBVIOUS
  <2>14. PICK v : v = SubSeq(r, j, g)
    OBVIOUS
  <2>15. IsText(u) /\ Len(u) = e - i + 1 /\ \A k \in 1..(e - i + 1) : u[k] = s[i + k - 1]
    <3>1. SubSeq(s, i, e) = u /\ i \in Nat \ {0} /\ e \in Nat /\ e <= Len(s) /\ i <= e /\ IsText(s)
      BY <1>1, <2>1, <2>9, <2>13
    <3> QED BY ONLY <3>1, PartOfText
  <2>16. IsText(v) /\ Len(v) = g - j + 1 /\ \A k \in 1..(g - j + 1) : v[k] = r[j + k - 1]
    <3>1. SubSeq(r, j, g) = v /\ j \in Nat \ {0} /\ g \in Nat /\ g <= Len(r) /\ j <= g /\ IsText(r)
      BY <2>4, <2>9, <2>14
    <3> QED BY ONLY <3>1, PartOfText
  <2>17. Len(u) = Len(v)
    BY <2>1, <2>3, <2>9, <2>12, <2>15, <2>16
  <2>18. ASSUME NEW k \in 1..Len(u) PROVE u[k] = v[k]
    <3>1. k \in 1..(e - i + 1) /\ k \in 1..(g - j + 1)
      BY <2>15, <2>16, <2>17
    <3>2. i + k - 1 \in 1..Len(s) /\ (i + k - 1) + d = j + k - 1
      BY <1>2, <2>1, <2>3, <2>9, <3>1
    <3>3. s[i + k - 1] = r[j + k - 1]
      BY <1>3, <3>2
    <3> QED BY <2>15, <2>16, <3>1, <3>3
  <2>19. u = v
    BY <2>15, <2>16, <2>17, <2>18, TextEqual
  <2> QED BY <2>3, <2>6, <2>7, <2>8, <2>13, <2>14, <2>19
<1>5. ASSUME NEW j \in Begins(r) PROVE j - d \in Begins(s)
  <2>1. j \in 1..Len(r) /\ r[j] \notin Spaces /\ (j # 1 => r[j - 1] \in Spaces)
    BY <1>0 DEF Begins
  <2>2. j >= a /\ j <= b
    BY <1>0, <2>1
  <2>3. PICK i : i = j - d
    OBVIOUS
  <2>4. i \in 1..Len(s) /\ i + d = j
    BY <1>0, <1>2, <2>1, <2>2, <2>3
  <2>5. s[i] \notin Spaces
    BY <1>3, <2>1, <2>4
  <2>6. i = 1 \/ s[i - 1] \in Spaces
    <3> SUFFICES ASSUME i # 1 PROVE s[i - 1] \in Spaces
      OBVIOUS
    <3>1. i - 1 \in 1..Len(s) /\ (i - 1) + d = j - 1 /\ j # 1
      BY <1>2, <2>4
    <3> QED BY <1>3, <2>1, <3>1
  <2> QED BY <1>3, <2>3, <2>4, <2>5, <2>6 DEF Begins
<1>6. Len(s) <= Len(r)
  BY <1>0, <1>2
<1>7. SameWords(s, r, d)
  BY <1>4, <1>5 DEF SameWords
<1> QED BY <1>1, <1>6, <1>7

\* The least of numbers that all are moved.
LEMMA LeastMoves ==
  ASSUME NEW S \in SUBSET Nat, NEW T \in SUBSET Nat, NEW d \in Nat, S # {},
         \A i \in S : i + d \in T, \A j \in T : j - d \in S
  PROVE  T # {} /\ Min(T) = Min(S) + d /\ Min(S) \in S
<1>1. Min(S) \in S /\ \A m \in S : Min(S) <= m
  BY Least
<1>2. T # {}
  BY <1>1
<1>3. Min(T) \in T /\ \A m \in T : Min(T) <= m
  BY <1>2, Least
<1>4. PICK p, q : p = Min(S) /\ q = Min(T)
  OBVIOUS
<1>5. q <= p + d /\ p <= q - d /\ p \in Nat /\ q \in Nat
  BY <1>1, <1>3, <1>4
<1> QED BY <1>1, <1>2, <1>4, <1>5

\* A text means what one with the same words does.
LEMMA MeaningSame ==
  ASSUME NEW s, IsText(s), NEW r, IsText(r), NEW d, SameWords(s, r, d)
  PROVE  Meaning(s) = Meaning(r)
<1> DEFINE S == Begins(s)
           T == Begins(r)
<1>0. S \in SUBSET Nat /\ T \in SUBSET Nat /\ d \in Nat
  BY WordEnd DEF SameWords
<1>1. /\ \A i \in S : i + d \in T /\ WordAt(r, i + d) = WordAt(s, i)
      /\ \A j \in T : j - d \in S
  BY DEF SameWords
<1> PICK p, q : p = Min(S) /\ q = Min(T)
  OBVIOUS
<1> DEFINE S2 == S \ {p}
           T2 == T \ {q}
<1>2. Meaning(s) = IF S = {} \/ WordAt(s, p) # PrintWord THEN <<"nothing">>
                   ELSE IF S2 = {} THEN <<"returned", -1>>
                   ELSE IF WordAt(s, Min(S2)) \in Printers THEN <<"print", WordAt(s, Min(S2))>>
                   ELSE <<"nothing">>
  BY DEF Meaning
<1>3. Meaning(r) = IF T = {} \/ WordAt(r, q) # PrintWord THEN <<"nothing">>
                   ELSE IF T2 = {} THEN <<"returned", -1>>
                   ELSE IF WordAt(r, Min(T2)) \in Printers THEN <<"print", WordAt(r, Min(T2))>>
                   ELSE <<"nothing">>
  BY DEF Meaning
<1> HIDE DEF S, T
<1>4. CASE S = {}
  <2>1. T = {}
    BY <1>1, <1>4
  <2> QED BY <1>2, <1>3, <1>4, <2>1
<1>5. CASE S # {}
  <2>1. T # {} /\ q = p + d /\ p \in S
    BY <1>0, <1>1, <1>5, LeastMoves
  <2>2. WordAt(r, q) = WordAt(s, p)
    BY <1>1, <2>1
  <2>3. \A i \in S2 : i + d \in T2
    BY <1>0, <1>1, <2>1
  <2>4. \A j \in T2 : j - d \in S2
    BY <1>0, <1>1, <2>1
  <2>5. CASE S2 = {}
    <3>1. T2 = {}
      BY <2>4, <2>5
    <3> QED BY <1>2, <1>3, <1>5, <2>1, <2>2, <2>5, <3>1
  <2>6. CASE S2 # {}
    <3>1. S2 \in SUBSET Nat /\ T2 \in SUBSET Nat
      BY <1>0
    <3>2. T2 # {} /\ Min(T2) = Min(S2) + d /\ Min(S2) \in S2
      <4> HIDE DEF S2, T2
      <4> QED BY <1>0, <2>3, <2>4, <2>6, <3>1, LeastMoves
    <3>3. WordAt(r, Min(T2)) = WordAt(s, Min(S2))
      BY <1>1, <3>2
    <3> HIDE DEF S2, T2
    <3> QED BY <1>2, <1>3, <1>5, <2>1, <2>2, <2>6, <3>2, <3>3
  <2> QED BY <2>5, <2>6
<1> QED BY <1>4, <1>5

\* A text that was cut.
CutTo(s, r) == IsText(s) /\ Len(s) <= Len(r) /\ Meaning(s) = Meaning(r)

LEMMA TrimcCuts ==
  ASSUME NEW c \in Spaces, NEW r, IsText(r)
  PROVE  CutTo(trimc(c, r), r)
<1> DEFINE Firsts == {i \in 0..Len(r) : At(r, i) # c}
<1>0. /\ Len(r) \in Nat
      /\ \A i \in Nat : (i < Len(r) => At(r, i) = r[i + 1]) /\ (i >= Len(r) => At(r, i) = NUL)
  BY AtIs
<1>1. PICK n : n = Min(Firsts)
  OBVIOUS
<1>2. n \in Firsts /\ \A i \in Firsts : n <= i
  <2>1. Firsts \in SUBSET Nat
    BY <1>0
  <2>2. NUL # c
    BY DEF NUL, Spaces
  <2>3. Len(r) >= Len(r)
    BY <1>0
  <2>4. At(r, Len(r)) = NUL /\ Len(r) \in 0..Len(r)
    BY <1>0, <2>3
  <2>5. Len(r) \in Firsts
    BY <2>2, <2>4
  <2> HIDE DEF Firsts
  <2> QED BY <1>1, <2>1, <2>5, Least
<1>3. n \in Nat /\ n <= Len(r)
  BY <1>0, <1>2
<1>4. ASSUME NEW k \in 1..Len(r), k < n + 1 \/ k > Len(r) PROVE r[k] \in Spaces
  <2>1. PICK i : i = k - 1
    OBVIOUS
  <2>2. i \in 0..Len(r) /\ i \in Nat /\ i < n /\ i < Len(r) /\ i + 1 = k
    BY <1>0, <1>3, <1>4, <2>1
  <2>3. At(r, i) = c
    BY <1>2, <1>3, <2>2
  <2> QED BY <1>0, <2>2, <2>3
<1>5. PICK s : s = trimc(c, r)
  OBVIOUS
<1>6. PICK a, b : a = n + 1 /\ b = Len(r)
  OBVIOUS
<1>7. s = SubSeq(r, a, b)
  BY <1>1, <1>5, <1>6 DEF trimc
<1>8. /\ a \in Nat \ {0} /\ b \in Nat /\ a <= b + 1 /\ b <= Len(r) /\ n = a - 1
      /\ \A k \in 1..Len(r) : k < a \/ k > b => r[k] \in Spaces
  BY <1>0, <1>3, <1>4, <1>6
<1>9. IsText(s) /\ Len(s) <= Len(r) /\ SameWords(s, r, n)
  BY <1>3, <1>7, <1>8, CutKeeps
<1>10. Meaning(s) = Meaning(r)
  BY <1>9, MeaningSame
<1> QED BY <1>5, <1>9, <1>10 DEF CutTo

\* A bounded set of natural numbers has a greatest one, and Max finds it.
LEMMA Greatest ==
  ASSUME NEW L \in Nat, NEW S \in SUBSET 0..L, S # {}
  PROVE  Max(S) \in S /\ \A m \in S : m <= Max(S)
<1> DEFINE B == {n \in Nat : \A m \in S : m <= n}
<1>1. B \in SUBSET Nat /\ B # {}
  BY DEF B
<1>2. PICK g : g = Min(B)
  OBVIOUS
<1>3. g \in B /\ \A n \in B : g <= n
  <2> HIDE DEF B
  <2> QED BY <1>1, <1>2, Least
<1>4. g \in S
  <2> SUFFICES ASSUME g \notin S PROVE FALSE
    OBVIOUS
  <2>1. g \in Nat /\ \A m \in S : m <= g
    BY <1>3
  <2>2. \A m \in S : m \in Nat /\ m <= g - 1
    BY <2>1
  <2>3. g - 1 \in Nat
    <3>1. PICK m \in S : TRUE
      OBVIOUS
    <3>2. m \in Nat /\ m <= g - 1
      BY <2>2
    <3> QED BY <2>1, <3>2
  <2>4. g - 1 \in B
    BY <2>2, <2>3
  <2> QED BY <1>3, <2>1, <2>4
<1>5. \A m \in S : g >= m
  BY <1>3
<1>6. Max(S) \in S /\ \A m \in S : Max(S) >= m
  <2> HIDE DEF B
  <2> QED BY <1>4, <1>5 DEF Max
<1> QED BY <1>6

LEMMA RtrimdCuts ==
  ASSUME NEW D \in SUBSET Spaces, NEW r, IsText(r)
  PROVE  CutTo(rtrimd(D, r), r)
<1>0. Len(r) \in Nat
  BY AtIs
<1>1. CASE r = <<>>
  <2>1. rtrimd(D, r) = r
    BY <1>1 DEF rtrimd
  <2> QED BY <1>0, <2>1 DEF CutTo
<1>2. CASE r # <<>>
  <2> DEFINE Kept == {i \in 2..Len(r) : ~isdelim(r[i], D)} \cup {1}
  <2>1. Len(r) >= 1
    <3>1. PICK C : r \in Seq(C)
      BY DEF IsText
    <3> QED BY <1>2, <3>1
  <2>2. PICK m : m = Max(Kept)
    OBVIOUS
  <2>3. m \in Kept /\ \A i \in Kept : i <= m
    <3>1. Kept \in SUBSET 0..Len(r) /\ Kept # {}
      BY <1>0, <2>1
    <3> HIDE DEF Kept
    <3> QED BY <1>0, <2>2, <3>1, Greatest
  <2>4. m \in Nat /\ m >= 1 /\ m <= Len(r)
    BY <1>0, <2>1, <2>3
  <2>5. ASSUME NEW k \in 1..Len(r), k < 1 \/ k > m PROVE r[k] \in Spaces
    <3>1. k \in 2..Len(r) /\ k > m
      BY <1>0, <2>4, <2>5
    <3>2. k \notin Kept
      BY <2>3, <2>4, <3>1
    <3> QED BY <3>1, <3>2 DEF isdelim
  <2>6. PICK s : s = rtrimd(D, r)
    OBVIOUS
  <2>7. s = SubSeq(r, 1, m)
    BY <1>2, <2>2, <2>6 DEF rtrimd
  <2>8. PICK a : a = 1
    OBVIOUS
  <2>9. PICK d : d = 0
    OBVIOUS
  <2>10. /\ a \in Nat \ {0} /\ m \in Nat /\ a <= m + 1 /\ m <= Len(r) /\ d \in Nat /\ d = a - 1
         /\ s = SubSeq(r, a, m)
         /\ \A k \in 1..Len(r) : k < a \/ k > m => r[k] \in Spaces
    BY <2>4, <2>5, <2>7, <2>8, <2>9
  <2>11. IsText(s) /\ Len(s) <= Len(r) /\ SameWords(s, r, d)
    BY ONLY <2>10, IsText(r), CutKeeps
  <2>12. Meaning(s) = Meaning(r)
    BY <2>11, MeaningSame
  <2> QED BY <2>6, <2>11, <2>12 DEF CutTo
<1> QED BY <1>1, <1>2

\* Trimming keeps the words of a line.
LEMMA TrimmedCuts ==
  ASSUME NEW line, IsText(line)
  PROVE  CutTo(Trimmed(line), line)
<1>1. {32, 10, 13} \in SUBSET Spaces /\ 32 \in Spaces /\ 10 \in Spaces /\ 13 \in Spaces
  BY DEF Spaces
<1>2. PICK w : w = rtrimd({32, 10, 13}, line)
  OBVIOUS
<1>3. PICK x : x = trimc(32, w)
  OBVIOUS
<1>4. PICK y : y = trimc(10, x)
  OBVIOUS
<1>5. PICK z : z = trimc(13, y)
  OBVIOUS
<1>6. Trimmed(line) = z
  BY <1>2, <1>3, <1>4, <1>5 DEF Trimmed
<1>7. CutTo(w, line)
  <2>1. PICK D : D = {32, 10, 13}
    OBVIOUS
  <2> QED BY <1>1, <1>2, <2>1, RtrimdCuts
<1>8. CutTo(x, w)
  <2>1. PICK c \in Spaces : c = 32
    BY <1>1
  <2> QED BY <1>3, <1>7, <2>1, TrimcCuts DEF CutTo
<1>9. CutTo(y, x)
  <2>1. PICK c \in Spaces : c = 10
    BY <1>1
  <2> QED BY <1>4, <1>8, <2>1, TrimcCuts DEF CutTo
<1>10. CutTo(z, y)
  <2>1. PICK c \in Spaces : c = 13
    BY <1>1
  <2> QED BY <1>5, <1>9, <2>1, TrimcCuts DEF CutTo
<1>11. /\ Len(z) \in Nat /\ Len(y) \in Nat /\ Len(x) \in Nat /\ Len(w) \in Nat /\ Len(line) \in Nat
       /\ IsText(z)
  BY <1>7, <1>8, <1>9, <1>10, AtIs DEF CutTo
<1>12. Len(z) <= Len(line)
  BY <1>7, <1>8, <1>9, <1>10, <1>11 DEF CutTo
<1>13. Meaning(z) = Meaning(line)
  BY <1>7, <1>8, <1>9, <1>10 DEF CutTo
<1> QED BY <1>6, <1>11, <1>12, <1>13 DEF CutTo
LEMMA CommandTexts == IsText(PrintWord) /\ \A w \in Printers : IsText(w)
<1> DEFINE C == 97..120
<1>1. NUL \notin C
  BY DEF NUL
<1>2. PrintWord \in Seq(C)
  BY DEF PrintWord
<1>3. ASSUME NEW w \in Printers PROVE w \in Seq(C)
  <2>1. CASE w = <<112, 109, 109, 97, 112>>
    BY <2>1
  <2>2. CASE w = <<99, 109, 100, 108, 105, 110, 101>>
    BY <2>2
  <2>3. CASE w = <<114, 101, 103, 105, 115, 116, 101, 114, 115>>
    BY <2>3
  <2>4. CASE w = <<109, 111, 100, 117, 108, 101, 115>>
    BY <2>4
  <2>5. CASE w = <<98, 111, 111, 116, 105, 110, 102, 111>>
    BY <2>5
  <2> HIDE DEF C
  <2> QED BY <2>1, <2>2, <2>3, <2>4, <2>5, Zenon DEF Printers
<1> HIDE DEF C
<1> QED BY <1>1, <1>2, <1>3 DEF IsText

\* The comparison of a token covers its terminator: it is the word.
LEMMA IsThatWord ==
  ASSUME NEW t, t.found, IsText(t.token), NEW w, IsText(w)
  PROVE  Is(t, w) <=> t.token = w
<1> PICK u, n : u = t.token /\ n = Len(u) + 1
  OBVIOUS
<1>1. IsText(u) /\ n \in Nat /\ Len(u) < n
  BY AtIs
<1>2. Same(n, w, u) <=> w = u
  BY <1>1, SameIs
<1>3. Is(t, w) <=> Same(n, w, u)
  BY DEF Is
<1> QED BY <1>2, <1>3

\* What doCommand makes of two tokens.
Chosen(first, second) ==
  IF ~Is(first, PrintWord) THEN <<"nothing">>
  ELSE IF ~second.found THEN <<"returned", -1>>
  ELSE IF \E w \in Printers : Is(second, w)
       THEN <<"print", CHOOSE w \in Printers : Is(second, w)>>
  ELSE <<"nothing">>

LEMMA TwoWords ==
  ASSUME NEW s, IsText(s), Len(s) < BUFF,
         NEW first, first = strtokbuf(s, Spaces, BUFF, 0),
         NEW second, second = strtokbuf(s, Spaces, BUFF, first.next)
  PROVE  Chosen(first, second) = Meaning(s)
<1>0. BUFF \in Nat \ {0} /\ Len(s) \in Nat /\ ~(Len(s) > BUFF)
  <2>1. BUFF \in Nat \ {0}
    BY DEF BUFF
  <2>2. Len(s) \in Nat
    BY AtIs
  <2> QED BY <2>1, <2>2
<1> PICK L : L = BUFF
  OBVIOUS
<1>1. L \in Nat \ {0} /\ Len(s) \in Nat /\ Len(s) < L /\ ~(Len(s) > L)
      /\ first = strtokbuf(s, Spaces, L, 0) /\ second = strtokbuf(s, Spaces, L, first.next)
  BY <1>0
<1>2. ASSUME NEW i \in Begins(s) PROVE i \in Nat \ {0} /\ Len(WordAt(s, i)) < L
  <2>1. i \in Nat \ {0} /\ i <= Len(s)
    BY WordEnd
  <2>2. PICK e \in i..Len(s) : WordAt(s, i) = SubSeq(s, i, e)
    BY WordEnd
  <2>3. e \in Nat /\ i <= e /\ e <= Len(s)
    BY <1>1, <2>1, <2>2
  <2>4. Len(SubSeq(s, i, e)) = e - i + 1
    BY <2>1, <2>3, PartOfText
  <2> QED BY <1>1, <2>1, <2>2, <2>3, <2>4
<1>3. \A i \in Begins(s) : IsText(WordAt(s, i))
  BY WordIs
<1>4. NextIs(s, L, 0, first)
  <2>1. PICK n : n = 0
    OBVIOUS
  <2>2. n \in 0..L /\ Boundary(s, n)
    BY <1>1, <2>1 DEF Boundary
  <2>3. NextIs(s, L, n, first)
    BY <1>1, <1>2, <2>1, <2>2, NextWord
  <2> QED BY <2>1, <2>3
<1>5. CASE ~first.found /\ \A i \in Begins(s) : i <= 0
  <2>1. Begins(s) = {}
    BY <1>2, <1>5
  <2>2. ~Is(first, PrintWord)
    BY <1>5 DEF Is
  <2> QED BY <2>1, <2>2 DEF Chosen, Meaning
<1>6. ASSUME NEW i \in Begins(s), first.found, first.token = WordAt(s, i),
             first.next >= i, first.next <= Len(s), Boundary(s, first.next),
             \A j \in Begins(s) : j <= first.next => j <= 0 \/ j = i
      PROVE  Chosen(first, second) = Meaning(s)
  <2> PICK n : n = first.next
    OBVIOUS
  <2>1. n \in Nat /\ n \in 0..L /\ i <= n /\ Boundary(s, n)
    BY <1>1, <1>6 DEF Boundary
  <2>2. \A j \in Begins(s) : j <= n => j = i
    BY <1>2, <1>6
  <2>3. Min(Begins(s)) = i
    <3>1. Begins(s) \in SUBSET Nat
      BY <1>2
    <3>2. Min(Begins(s)) \in Begins(s) /\ Min(Begins(s)) <= i
      BY <3>1, Least
    <3>3. Min(Begins(s)) <= n
      BY <1>2, <2>1, <3>2
    <3> QED BY <2>2, <3>2, <3>3
  <2> PICK S2 : S2 = Begins(s) \ {i}
    OBVIOUS
  <2>4. Meaning(s) = IF WordAt(s, i) # PrintWord THEN <<"nothing">>
                     ELSE IF S2 = {} THEN <<"returned", -1>>
                     ELSE IF WordAt(s, Min(S2)) \in Printers THEN <<"print", WordAt(s, Min(S2))>>
                     ELSE <<"nothing">>
    BY <2>3 DEF Meaning
  <2>5. Is(first, PrintWord) <=> WordAt(s, i) = PrintWord
    BY <1>3, <1>6, CommandTexts, IsThatWord
  <2>6. NextIs(s, L, n, second)
    BY <1>1, <1>2, <2>1, NextWord
  <2>7. CASE ~second.found /\ \A j \in Begins(s) : j <= n
    <3>1. S2 = {}
      BY <2>2, <2>7
    <3> QED BY <2>4, <2>5, <2>7, <3>1 DEF Chosen
  <2>8. ASSUME NEW k \in Begins(s), n < k, second.found, second.token = WordAt(s, k),
               second.next >= k, Boundary(s, second.next),
               \A j \in Begins(s) : j <= second.next => j <= n \/ j = k
        PROVE  Chosen(first, second) = Meaning(s)
    <3>1. k \in S2
      BY <1>2, <2>1, <2>8
    <3>2. S2 \in SUBSET Nat
      BY <1>2
    <3> PICK h : h = Min(S2)
      OBVIOUS
    <3>3. h \in S2 /\ h <= k
      BY <3>1, <3>2, Least
    <3>4. h = k
      <4>1. h \in Begins(s) /\ h # i
        BY <3>3
      <4>2. ~(h <= n)
        BY <2>2, <4>1
      <4>3. h <= second.next
        <5>1. h \in Nat /\ k \in Nat /\ second.next \in Nat
          BY <1>2, <2>8, <4>1 DEF Boundary
        <5> QED BY <2>8, <3>3, <5>1
      <4> QED BY <2>8, <4>1, <4>2, <4>3
    <3>5. \A w \in Printers : Is(second, w) <=> w = WordAt(s, k)
      <4>1. ASSUME NEW w \in Printers PROVE Is(second, w) <=> w = WordAt(s, k)
        <5>1. IsText(second.token) /\ IsText(w)
          BY <1>3, <2>8, CommandTexts
        <5>2. Is(second, w) <=> second.token = w
          BY <2>8, <5>1, IsThatWord
        <5> QED BY <2>8, <5>2
      <4> QED BY <4>1
    <3>6. (\E w \in Printers : Is(second, w)) <=> WordAt(s, k) \in Printers
      BY <3>5
    <3>7. WordAt(s, k) \in Printers => (CHOOSE w \in Printers : Is(second, w)) = WordAt(s, k)
      BY <3>5
    <3>8. S2 # {}
      BY <3>1
    <3>9. Meaning(s) = IF WordAt(s, i) # PrintWord THEN <<"nothing">>
                       ELSE IF WordAt(s, k) \in Printers THEN <<"print", WordAt(s, k)>>
                       ELSE <<"nothing">>
      BY <2>4, <3>4, <3>8
    <3>10. Chosen(first, second) =
             IF ~Is(first, PrintWord) THEN <<"nothing">>
             ELSE IF \E w \in Printers : Is(second, w)
                  THEN <<"print", CHOOSE w \in Printers : Is(second, w)>>
             ELSE <<"nothing">>
      BY <2>8 DEF Chosen
    <3> QED BY <2>5, <3>6, <3>7, <3>9, <3>10
  <2> QED BY <1>1, <2>6, <2>7, <2>8 DEF NextIs
<1> QED BY <1>1, <1>4, <1>5, <1>6 DEF NextIs

\* A command whose line fits the buffer does what its words say, wherever they are.
LEMMA CommandDoes ==
  ASSUME NEW line, IsText(line), Len(line) < BUFF
  PROVE  doCommand(line) = Meaning(line)
<1> PICK s : s = Trimmed(line)
  OBVIOUS
<1> PICK first : first = strtokbuf(s, Spaces, BUFF, 0)
  OBVIOUS
<1> PICK second : second = strtokbuf(s, Spaces, BUFF, first.next)
  OBVIOUS
<1>1. doCommand(line) = Chosen(first, second)
  BY DEF doCommand, Chosen
<1>2. IsText(s) /\ Len(s) <= Len(line) /\ Meaning(s) = Meaning(line)
  BY TrimmedCuts DEF CutTo
<1>3. Len(s) < BUFF
  <2>1. Len(s) \in Nat /\ Len(line) \in Nat /\ BUFF \in Nat
    BY <1>2, AtIs DEF BUFF
  <2> QED BY <1>2, <2>1
<1>4. Chosen(first, second) = Meaning(s)
  BY <1>2, <1>3, TwoWords
<1> QED BY <1>1, <1>2, <1>4

\* Every command that is typed and fits the buffer for a word does what its words
\* say (Shell, doCommand).
THEOREM CommandAlwaysItsWords == CLSpec => CommandIsItsWords
<1>1. ASSUME [CLNext]_clvars, command' # command, Len(command') < BUFF
      PROVE  ran' = Meaning(command')
  <2>1. Shell
    BY <1>1 DEF CLNext, clvars, bvars, Boot, Booted, Split, Option, Processed
  <2>2. command' \in Typed /\ ran' = doCommand(command')
    BY <1>1, <2>1 DEF Shell
  <2>3. IsText(command')
    <3>1. command' \in Seq(1..255)
      BY <2>2, TypedAssumption
    <3>2. NUL \notin 1..255
      BY DEF NUL
    <3> QED BY <3>1, <3>2 DEF IsText
  <2>4. doCommand(command') = Meaning(command')
    <3>1. PICK line : line = command'
      OBVIOUS
    <3>2. doCommand(line) = Meaning(line)
      BY <1>1, <2>3, <3>1, CommandDoes
    <3> QED BY <3>1, <3>2
  <2> QED BY <2>2, <2>4
<1>2. [CLNext]_clvars =>
        [command' # command /\ Len(command') < BUFF => ran' = Meaning(command')]_clvars
  BY <1>1
<1> QED BY <1>2, PTL DEF CLSpec, CommandIsItsWords
=============================================================================
