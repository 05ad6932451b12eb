------------------------------ MODULE CStrings ------------------------------
(***************************************************************************)
(* The string functions of libc that kernel_main's start and its commands  *)
(* use.  A character is its code; a string that is only read is a sequence *)
(* without its terminator; a string that is written lies in memory, a      *)
(* function from addresses to characters.                                  *)
(***************************************************************************)
EXTENDS Integers, Sequences, SequencesExt, FiniteSetsExt

NUL == 0
Digit(c) == c \in 48..57

\* The character at index i, counted from 0: the terminator comes after the last.
At(s, i) == IF i < Len(s) THEN s[i + 1] ELSE NUL

\* A string in memory ends at the first terminator, whichever field that is in.
strlen(mem, a) ==
  LET last == Max(DOMAIN mem)
  IN Min({n \in 0..(last - a + 1) : a + n > last \/ mem[a + n] = NUL})

\* How many characters strncpy copies before it writes the terminator.  A source
\* that fills the destination is copied whole and terminated one further on.
CopyLen(src, size) ==
  IF Len(src) + 1 < size THEN Len(src) ELSE Min({Len(src), size})
strncpy(mem, dest, src, size) ==
  LET n == CopyLen(src, size)
  IN [a \in DOMAIN mem |-> IF a \in dest..(dest + n - 1) THEN src[a - dest + 1]
                           ELSE IF a = dest + n THEN NUL ELSE mem[a]]

\* 0 when the first len characters agree or both end before.
strncmp(len, s1, s2) ==
  LET Differ == {i \in 0..(len - 1) : At(s1, i) # At(s2, i)}
      Ends   == {i \in 0..(len - 1) : At(s1, i) = NUL /\ At(s2, i) = NUL}
  IN IF Differ = {} \/ \E e \in Ends : \A d \in Differ : e < d THEN 0
     ELSE IF At(s1, Min(Differ)) < At(s2, Min(Differ)) THEN -1 ELSE 1

\* The value of the leading digits: no more than seven are read, and the value
\* is cut to max.
ReadDigits == 7
Decimal(s) ==
  LET place(k) == IF k < Len(s) THEN s[Len(s) - k] - 48 ELSE 0
  IN place(0) + (10 * place(1)) + (100 * place(2)) + (1000 * place(3)) + (10000 * place(4))
       + (100000 * place(5)) + (1000000 * place(6))
strtoui(s, max) ==
  LET n == Min({i \in 0..ReadDigits : i = ReadDigits \/ ~Digit(At(s, i))})
  IN Min({Decimal(SubSeq(s, 1, n)), max})

isdelim(c, delims) == c \in delims

\* The next token from index start: no token, or the token and where to go on.
\* The start is compared with the length of the buffer, not of the string.
NoToken == [found |-> FALSE, token |-> <<>>, next |-> 0]
Token(s, delims, buflen, start) ==
  LET first == Min({i \in start..(start + Len(s) + 1) :
                      i >= buflen \/ At(s, i) = NUL \/ ~isdelim(At(s, i), delims)})
      count == Min({n \in 0..(buflen - 1) : n = buflen - 1 \/ At(s, first + n) = NUL
                                              \/ isdelim(At(s, first + n), delims)})
      stop  == first + count
  IN IF At(s, first) = NUL THEN NoToken
     ELSE [found |-> TRUE, token |-> SubSeq(s, first + 1, stop),
           next |-> IF At(s, stop) # NUL /\ isdelim(At(s, stop), delims) THEN stop + 1 ELSE stop]
strtokbuf(s, delims, buflen, start) ==
  IF start > buflen THEN NoToken ELSE Token(s, delims, buflen, start)

\* trimc takes a character off the left, rtrimd several off the right; the first
\* character is never taken off the right.
trimc(c, s) ==
  LET n == Min({i \in 0..Len(s) : At(s, i) # c}) IN SubSeq(s, n + 1, Len(s))
rtrimd(delims, s) ==
  LET Kept == {i \in 2..Len(s) : ~isdelim(s[i], delims)}
  IN IF s = <<>> THEN s ELSE SubSeq(s, 1, Max(Kept \cup {1}))
=============================================================================
