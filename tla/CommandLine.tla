---------------------------- MODULE CommandLine ----------------------------
(***************************************************************************)
(* The part of kernel_main that reads text: the boot information, then the *)
(* kernel command line (krnlcmdline.c) word by word and option by option,  *)
(* then the commands that are typed (docmd.c).                             *)
(***************************************************************************)
EXTENDS BootInfo

CONSTANTS
  Typed,        \* the lines kbdInput may return
  Residue       \* what kernel_main's uninitialised `command' may hold at first
ASSUME TypedAssumption == Typed \subseteq Seq(1..255)

VARIABLES
  pc,           \* "boot", "split", "options", "shell", "exit", "aborted"
  start,        \* processCommandLine's index into the command line
  options,      \* the words it has found and not processed
  opts,         \* cmdLineOpts
  rtncde,       \* what it will return
  command,      \* kernel_main's command: the line typed last
  ran           \* what doCommand made of it
clvars == <<bvars, pc, start, options, opts, rtncde, command, ran>>

MAX_OPTIONS == 2
MAX_OPTION_LEN == 15
MIN_HEAP_PAGES == 128
MAX_UINT == 65535
COMMAND == 256
BUFF == 80

Dash == 45
Equals == 61
Spaces == {32, 9, 13, 10}
SpacesEquals == Spaces \cup {Equals}
\* -no-video, heap, exit, print, pmmap, cmdline, registers, modules, bootinfo
NoVideo == <<45, 110, 111, 45, 118, 105, 100, 101, 111>>
HeapWord == <<104, 101, 97, 112>>
Exit == <<101, 120, 105, 116>>
PrintWord == <<112, 114, 105, 110, 116>>
Printers ==
  {<<112, 109, 109, 97, 112>>, <<99, 109, 100, 108, 105, 110, 101>>,
   <<114, 101, 103, 105, 115, 116, 101, 114, 115>>, <<109, 111, 100, 117, 108, 101, 115>>,
   <<98, 111, 111, 116, 105, 110, 102, 111>>}

Same(len, s1, s2) == strncmp(len, s1, s2) = 0

CLInit ==
  /\ BInit /\ pc = "boot"
  /\ start = 0 /\ options = <<>>
  /\ opts = [heapSizePages |-> 0, useVideo |-> FALSE]
  /\ rtncde = TRUE
  /\ command \in Residue /\ ran = <<"nothing">>

-----------------------------------------------------------------------------
(* The kernel command line.                                                *)

Boot == pc = "boot" /\ ReadTag /\ UNCHANGED <<pc, start, options, opts, rtncde, command, ran>>
Booted ==
  /\ pc = "boot" /\ Loaded /\ pc' = "split"
  /\ opts' = [heapSizePages |-> MIN_HEAP_PAGES, useVideo |-> TRUE]
  /\ UNCHANGED <<bvars, start, options, rtncde, command, ran>>

\* The pass of the loop that looks for the next word, or its end.
Split ==
  /\ pc = "split"
  /\ LET t == strtokbuf(Text(Cmd), Spaces, MAX_OPTION_LEN, start)
     IN IF Len(options) < MAX_OPTIONS /\ t.found
        THEN options' = Append(options, t.token) /\ start' = t.next /\ UNCHANGED pc
        ELSE pc' = "options" /\ UNCHANGED <<options, start>>
  /\ UNCHANGED <<bvars, opts, rtncde, command, ran>>

\* The pages a heap size stands for, by its last letter: P, K, M or G; the
\* product is a word, and 262144 * 16384 = 2^32.
Letters == {80, 75, 77, 71}
InPages(size, letter) ==
  CASE letter = 80 -> size
    [] letter = 75 -> size \div 4
    [] letter = 77 -> size * 256
    [] letter = 71 -> (size % 16384) * 262144

\* Fault: a smaller size is taken.
TooSmall_Never(size) == FALSE
TooSmall(size) == size < opts.heapSizePages
\* The heap size that s asks for, or 0: it is refused.
processHeapSize(s) ==
  IF Len(s) < 2 \/ Last(s) \notin Letters THEN 0
  ELSE LET size == InPages(strtoui(s, MAX_UINT), Last(s))
       IN IF TooSmall(size) THEN 0 ELSE size
\* -kheap=<size>, with any delimiters between the parts.
processKernelOpt(s) ==
  LET rest   == SubSeq(s, 3, Len(s))
      option == strtokbuf(rest, SpacesEquals, MAX_OPTION_LEN, 0)
      value  == strtokbuf(rest, SpacesEquals, MAX_OPTION_LEN, option.next)
  IN IF option.found /\ Same(MAX_OPTION_LEN, option.token, HeapWord) /\ value.found
     THEN processHeapSize(value.token) ELSE 0

\* One pass of the loop over the options.
KernelOpt(s) ==
  LET size == processKernelOpt(s) IN
  IF size = 0 THEN rtncde' = FALSE /\ UNCHANGED opts
  ELSE opts' = [opts EXCEPT !.heapSizePages = size] /\ UNCHANGED rtncde
Option ==
  /\ pc = "options" /\ options # <<>>
  /\ options' = Tail(options)
  /\ LET s == Head(options) IN
     IF Same(MAX_OPTION_LEN, s, NoVideo)
     THEN opts' = [opts EXCEPT !.useVideo = FALSE] /\ UNCHANGED rtncde
     ELSE IF At(s, 0) = Dash /\ At(s, 1) = 107 THEN KernelOpt(s)
     ELSE UNCHANGED <<opts, rtncde>>
  /\ UNCHANGED <<bvars, pc, start, command, ran>>
\* kernel_main aborts when an option was refused; else it goes on to the shell.
Processed ==
  /\ pc = "options" /\ options = <<>>
  /\ pc' = IF rtncde THEN "shell" ELSE "aborted"
  /\ UNCHANGED <<bvars, start, options, opts, rtncde, command, ran>>

-----------------------------------------------------------------------------
(* The shell.                                                              *)

Trimmed(line) == trimc(13, trimc(10, trimc(32, rtrimd({32, 10, 13}, line))))

\* Fault: the terminator is not compared.
Is_Prefix(token, word) == token.found /\ Same(Len(token.token), word, token.token)
Is(token, word) == token.found /\ Same(Len(token.token) + 1, word, token.token)
\* What is printed, or the code that is returned: -1 for nothing to print.
doCommand(line) ==
  LET cmd    == Trimmed(line)
      first  == strtokbuf(cmd, Spaces, BUFF, 0)
      second == strtokbuf(cmd, Spaces, BUFF, first.next)
  IN IF ~Is(first, PrintWord) THEN <<"nothing">>
     ELSE IF ~second.found THEN <<"returned", -1>>
     ELSE IF \E w \in Printers : Is(second, w)
          THEN <<"print", CHOOSE w \in Printers : Is(second, w)>>
     ELSE <<"nothing">>

Shell ==
  /\ pc = "shell"
  /\ IF Same(COMMAND, command, Exit) THEN pc' = "exit" /\ UNCHANGED <<command, ran>>
     ELSE /\ command' \in Typed
          /\ ran' = doCommand(command')
          /\ UNCHANGED pc
  /\ UNCHANGED <<bvars, start, options, opts, rtncde>>

CLNext == Boot \/ Booted \/ Split \/ Option \/ Processed \/ Shell
CLSpec == CLInit /\ [][CLNext]_clvars

-----------------------------------------------------------------------------
(* Properties.                                                             *)

\* The words of a text: its longest runs without blanks, by where they begin.
Begins(s) ==
  {i \in DOMAIN s : s[i] \notin Spaces /\ (i = 1 \/ s[i - 1] \in Spaces)}
WordAt(s, i) ==
  SubSeq(s, i, Min({j \in i..Len(s) : j = Len(s) \/ s[j + 1] \in Spaces}))

\* The options that are heard: of the first two words those that begin among the
\* first 16 characters, the length of the buffer for a word.
Heard(s) ==
  {WordAt(s, i) : i \in {j \in Begins(s) : j <= MAX_OPTION_LEN + 1
                           /\ Cardinality({h \in Begins(s) : h < j}) < MAX_OPTIONS}}

\* A heap size as grub.cfg:3 writes it, and the pages it asks for.  The code takes
\* others, with more equals signs or with more behind the digits.
KernelOption(w) == Len(w) > 1 /\ w[1] = Dash /\ w[2] = 107
Written(w) ==
  /\ Len(w) >= 7 /\ \A i \in 1..7 : w[i] = <<Dash, 107, 104, 101, 97, 112, Equals>>[i]
  /\ \A i \in 8..Len(w) : w[i] # Equals /\ (i < Len(w) => Digit(w[i]))
HeapOption(w) == Written(w) /\ Len(w) > 8 /\ Last(w) \in Letters
Asked(w) == InPages(Min({Decimal(SubSeq(w, 8, Len(w) - 1)), MAX_UINT}), Last(w))

\* A command line of words that fit the buffer and, where a kernel option has a
\* value, are written like that.
Ordinary(s) ==
  \A i \in Begins(s) :
    LET w == WordAt(s, i) IN
    /\ Len(w) < MAX_OPTION_LEN
    /\ KernelOption(w) /\ (\E j \in DOMAIN w : w[j] = Equals) => Written(w)

\* Whatever the order of the options and the blanks between them, those that are
\* heard take effect and nothing else does: the screen is off exactly when that was
\* said, the heap has the largest size that was asked for and never less than
\* MIN_HEAP_PAGES, and the kernel stops only for a kernel option that is no heap
\* size or too small (processCommandLine, strtokbuf).
OptionsHeard ==
  LET said == Heard(Text(Cmd))
      sizes == {Asked(w) : w \in {v \in said : HeapOption(v)}} IN
  pc \in {"shell", "exit", "aborted"} /\ Ordinary(Text(Cmd)) =>
    /\ opts.useVideo <=> NoVideo \notin said
    /\ opts.heapSizePages = Max({MIN_HEAP_PAGES} \cup sizes)
    /\ pc = "aborted" =>
         \E w \in said : KernelOption(w) /\ (HeapOption(w) => Asked(w) < opts.heapSizePages)

\* A command that fits the buffer for a word is its words: blanks before, between
\* and behind them make no difference, an abbreviation is not the word, and what
\* follows the second word is ignored (doCommand).
Meaning(s) ==
  LET others == Begins(s) \ {Min(Begins(s))} IN
  IF Begins(s) = {} \/ WordAt(s, Min(Begins(s))) # PrintWord THEN <<"nothing">>
  ELSE IF others = {} THEN <<"returned", -1>>
  ELSE IF WordAt(s, Min(others)) \in Printers THEN <<"print", WordAt(s, Min(others))>>
  ELSE <<"nothing">>
CommandIsItsWords ==
  [][command' # command /\ Len(command') < BUFF => ran' = Meaning(command')]_clvars
=============================================================================
