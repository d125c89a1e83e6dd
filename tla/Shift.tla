-------------------------------- MODULE Shift --------------------------------
(***************************************************************************)
(* Shifts of numbers without a limit of width, doubling by doubling. Where *)
(* the code cuts a result to a width the modules say so themselves.        *)
(***************************************************************************)
EXTENDS Naturals

\* x << n
ShiftLeft(x, n) ==
  LET shifted[i \in 0..n] == IF i = 0 THEN x ELSE 2 * shifted[i - 1]
  IN  shifted[n]

\* x >> n
ShiftRight(x, n) == x \div ShiftLeft(1, n)
==============================================================================
