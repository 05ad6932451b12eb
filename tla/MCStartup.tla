----------------------------- MODULE MCStartup -----------------------------
(***************************************************************************)
(* Two kinds of boot: the tags of one loader in every order, with strings  *)
(* that fit, fill their fields or overrun them, and a single command line  *)
(* out of many.                                                            *)
(***************************************************************************)
EXTENDS CommandLine

Orders(S) == {f \in [1..Cardinality(S) -> S] : \A t \in S : \E i \in DOMAIN f : f[i] = t}
End == [type |-> END_TAG, size |-> 8]
\* A string tag of which only the string's length matters.
Letter(n, c) == [i \in 1..n |-> c]
String(type, s) == [type |-> type, size |-> 9 + Len(s), string |-> s]
Module(s) == [type |-> MODULES_TAG, size |-> 17 + Len(s), string |-> s, start |-> 300, end |-> 512]
Plain(type, v) == [type |-> type, size |-> 12, value |-> v]
Region(b, l, y) == [base |-> b, len |-> l, type |-> y]
Map(e) == [type |-> MMAP_TAG, size |-> 16 + (24 * Len(e)), entry |-> e]
Sizes == [type |-> MEMORY_SIZES_TAG, size |-> 16, lower |-> 1, upper |-> 3]
Screen == [type |-> FRAMEBUFFER_TAG, size |-> 38, value |-> 5, kind |-> 1]

Regions == <<Region(0, 4, 1), Region(4, 2, 2), Region(8, 8, 1)>>
Maps == {Map(SubSeq(Regions, 1, 2)), Map(Regions)}
Strings ==
  {{String(CMDLINE_TAG, Letter(c, 97)), String(BOOT_LOADER_TAG, Letter(l, 98))}
     : c \in {3, 48, 49}, l \in {5, 6, 7}}
Acpi == {Plain(ACPI_OLD_RDSP_TAG, 1), Plain(ACPI_NEW_RDSP_TAG, 2)}
Rest == <<Plain(BIOS_BOOT_DEV_TAG, 3), Screen, Plain(POWER_MGMT_TAG, 4),
          Plain(IMAGE_LOAD_BASE_TAG, 7), Plain(9, 0), End>>
Ended(S) == {f \o Rest : f \in Orders(S)}
TagLists ==
  UNION {Ended(s \cup {m}) : s \in Strings, m \in Maps}
    \cup UNION {Ended(Acpi \cup {Module(Letter(n, 99)), Sizes}) : n \in {3, 6, 7}}
    \cup {<<String(CMDLINE_TAG, Letter(3, 97)), Map(Regions), Map(SubSeq(Regions, 2, 3)),
            String(CMDLINE_TAG, Letter(2, 98))>> \o Rest}

HeapSize(digits, letter) == <<45, 107>> \o HeapWord \o <<61>> \o digits \o <<letter>>
\* -kheap=512P, -kheap=64P, -kheap=2M, -kheap=1G, -kheap=2048K, -kheap=P, -kx, -n, word
OptionWords ==
  {NoVideo, HeapSize(<<53, 49, 50>>, 80), HeapSize(<<54, 52>>, 80), HeapSize(<<50>>, 77),
   HeapSize(<<49>>, 71), HeapSize(<<50, 48, 52, 56>>, 75), HeapSize(<<>>, 80), <<45, 107, 120>>,
   <<45, 110>>, <<119, 111, 114, 100>>, <<>>}
Blanks == {<<32>>, <<32, 9, 32>>}
CommandLines ==
  {<<32>> \o u \o b \o v : u \in OptionWords, b \in Blanks, v \in OptionWords}
    \cup {u \o <<32>> \o v \o <<32>> \o NoVideo : u \in OptionWords, v \in OptionWords}
    \cup {NoVideo \o Letter(n, 32) \o HeapSize(<<50>>, 77) : n \in {6, 7, 8}}
\* Where the tags of a list lie: each at the next multiple of eight.
After(a, size) == CHOOSE n \in (a + size)..(a + size + 7) : n % 8 = 0
Address(list, k) == FoldLeft(LAMBDA a, t : After(a, t.size), 8, SubSeq(list, 1, k - 1))
Lay(list) ==
  [a \in {Address(list, k) : k \in DOMAIN list} |->
     list[CHOOSE k \in DOMAIN list : Address(list, k) = a]]
MCBootTags ==
  {Lay(list) : list \in TagLists \cup {<<String(CMDLINE_TAG, s), End>> : s \in CommandLines}}

Registers == <<114, 101, 103, 105, 115, 116, 101, 114, 115>>
PrintLine(b, c, v, e) == b \o PrintWord \o c \o v \o e
MCTyped ==
  {PrintLine(<<>>, <<32>>, Registers, <<10, 13>>), PrintLine(<<10, 13>>, <<32, 9>>, Registers, <<32, 120>>),
   PrintLine(<<32, 32>>, <<9>>, Registers \o <<115>>, <<>>), PrintLine(<<>>, <<>>, <<>>, <<>>),
   PrintLine(<<32, 32>>, <<32>>, SubSeq(Registers, 1, 3), <<>>),
   PrintLine(<<>>, Letter(90, 32), Registers, <<>>),
   SubSeq(PrintWord, 1, 3) \o <<32>> \o Registers, Exit, <<>>, <<32>>}
MCResidue == {<<>>, Exit}
=============================================================================
