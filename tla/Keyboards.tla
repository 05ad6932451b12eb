----------------------------- MODULE Keyboards -----------------------------
(***************************************************************************)
(* The codes a PS/2 keyboard sends in scan-code set 1, for the keys that   *)
(* the driver handles differently.                                         *)
(***************************************************************************)
\* What pressing and releasing each key sends.
Codes == [
  lshift |-> << <<\h2A>>, <<\hAA>> >>,  rshift |-> << <<\h36>>, <<\hB6>> >>,
  lctrl  |-> << <<\h1D>>, <<\h9D>> >>,  rctrl  |-> << <<\hE0, \h1D>>, <<\hE0, \h9D>> >>,
  lalt   |-> << <<\h38>>, <<\hB8>> >>,  ralt   |-> << <<\hE0, \h38>>, <<\hE0, \hB8>> >>,
  caps   |-> << <<\h3A>>, <<\hBA>> >>,  num    |-> << <<\h45>>, <<\hC5>> >>,
  a      |-> << <<\h1E>>, <<\h9E>> >>,  F3     |-> << <<\h3D>>, <<\hBD>> >>,
  kp5    |-> << <<\h4C>>, <<\hCC>> >>,  up     |-> << <<\hE0, \h48>>, <<\hE0, \hC8>> >>,
  menu   |-> << <<\hE0, \h5D>>, <<\hE0, \hDD>> >>,
  prtsc  |-> << <<\hE0, \h2A, \hE0, \h37>>, <<\hE0, \hB7, \hE0, \hAA>> >>,
  bs     |-> << <<\h0E>>, <<\h8E>> >>,  esc    |-> << <<\h01>>, <<\h81>> >>,
  enter  |-> << <<\h1C>>, <<\h9C>> >>,
  error  |-> << <<0>>, <<>> >>]

\* What a key sends while it is held: its code again, print screen without the
\* shift in front of it; the error code is no key's.
Repeats(k) ==
  CASE k = "prtsc" -> <<\hE0, \h37>>
    [] k = "error" -> <<>>
    [] OTHER       -> Codes[k][1]
=============================================================================
