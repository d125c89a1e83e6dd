------------------------------ MODULE Backoff ------------------------------
(***************************************************************************)
(* The delays between reconnections (crates/im-transport/src/backoff.rs),  *)
(* with the width of its integers as parameters: 64-bit nanoseconds in the *)
(* code. The random source is a choice over what it can give. client_loop  *)
(* asks for a delay after every connection that ends, whether it was       *)
(* established or not, and never calls reset, which is there for others.   *)
(***************************************************************************)
EXTENDS Naturals, Shift

CONSTANTS
  BaseNanos, MaxNanos,  \* Backoff.base, Backoff.max
  NanoBits,             \* width of the nanosecond counter, 64
  MilliNanos,           \* nanoseconds of a millisecond
  MaxAttempt,           \* u32::MAX, where attempt stays
  Rto, RetryDelayCap,   \* first and longest delay before a message is sent again
  MaxShift              \* most doublings of Rto, 16

Smaller(a, b) == IF a <= b THEN a ELSE b

\* base is not zero (asserted by new).
ASSUME BackoffAssumption ==
  /\ BaseNanos \in Nat \ {0} /\ MaxNanos \in Nat /\ NanoBits \in Nat \ {0}
  /\ MilliNanos \in Nat \ {0} /\ MaxAttempt \in Nat
  /\ Rto \in Nat /\ RetryDelayCap \in Nat /\ MaxShift \in Nat

VARIABLES
  attempt,  \* Backoff.attempt
  delay     \* the last delay slept

backoffVars == <<attempt, delay>>

BackoffInit == attempt = 0 /\ delay = 0

\* The product cut to the width of the counter.
Nanos_Wrapping(n) == ShiftLeft(BaseNanos, Smaller(n, NanoBits - 1)) % ShiftLeft(1, NanoBits)

\* base * 2^attempt in 128 bits, then held at the largest 64-bit value.
Nanos(n) == Smaller(ShiftLeft(BaseNanos, Smaller(n, NanoBits - 1)), ShiftLeft(1, NanoBits) - 1)

ceiling(n) == Smaller(Nanos(n), MaxNanos)

\* next_random as what it can give: any number, taken modulo n + 1.
Draws(n) == 0..n

\* Full jitter: any number of whole milliseconds up to the ceiling.
next_delay ==
  /\ attempt' = Smaller(attempt + 1, MaxAttempt)
  /\ \E ms \in Draws(ceiling(attempt) \div MilliNanos) : delay' = ms * MilliNanos

\* The other backoff of a client, between the resends of one message
\* (im-client's outbox.rs): attempts counts from 1.
backoff_delay(attempts) ==
  LET shift == Smaller(IF attempts = 0 THEN 0 ELSE attempts - 1, MaxShift)
  IN  Smaller(ShiftLeft(Rto, shift), RetryDelayCap)

reset == attempt' = 0 /\ UNCHANGED delay

BackoffNext == next_delay \/ reset

BackoffSpec == BackoffInit /\ [][BackoffNext]_backoffVars
-----------------------------------------------------------------------------
\* Where the doubling ends: at the limit that was asked for, unless the shift or
\* the counter ends before it.
LongestDelay ==
  Smaller(ShiftLeft(BaseNanos, NanoBits - 1), Smaller(ShiftLeft(1, NanoBits) - 1, MaxNanos))
LongestResend == Smaller(ShiftLeft(Rto, MaxShift), RetryDelayCap)

(***************************************************************************)
(* Every failure doubles the ceiling until it is the limit, where it stays *)
(* for ever ("2^attempt never overflows", ceiling): the clamped shift, the *)
(* wide product and the clamped result never let it fall back to a short   *)
(* delay, and no delay exceeds the ceiling it was drawn under. The delays  *)
(* before a message is sent again double likewise.                         *)
(***************************************************************************)
CeilingDoubles ==
  [][attempt' # 0 =>
       /\ delay' <= ceiling(attempt)
       /\ attempt < MaxAttempt => ceiling(attempt') = Smaller(2 * ceiling(attempt), LongestDelay)
       /\ ceiling(attempt') >= ceiling(attempt)
       /\ attempt \in 1..MaxAttempt-1 =>
            backoff_delay(attempt') = Smaller(2 * backoff_delay(attempt), LongestResend)]_backoffVars
=============================================================================
