------------------------------ MODULE SeqWindow ------------------------------
(***************************************************************************)
(* The upstream sequence-number window of a connection: DedupWindow        *)
(* (crates/im-transport/src/dedup.rs), built lazily and fed by the session *)
(* task (SessionState::feed_seq, serve_connection in session.rs; the       *)
(* WebSocket path, dispatch_inbound in web/ws.rs, treats the verdicts the  *)
(* same way).                                                              *)
(*                                                                         *)
(* The peer numbers its frames n = FirstN, FirstN + 1, ...; on the wire a   *)
(* frame carries n in a ring of Ring values. Frames may be lost,           *)
(* duplicated and reordered: any of them may arrive at any time.           *)
(***************************************************************************)
EXTENDS Integers

CONSTANTS
  WINDOW_SIZE,  \* bits of the bitmap, 64 in the code
  Ring,         \* number of wire sequence numbers, 2^64 in the code
  FirstN,       \* first frame the peer may send
  LastN         \* bound: last frame the peer may send

ASSUME WindowAssumption ==
  /\ WINDOW_SIZE \in Nat \ {0}
  /\ Ring \in Nat
  /\ WINDOW_SIZE + 1 < Ring
  /\ FirstN \in 0..(Ring - 1)
  /\ LastN \in Nat
  /\ LastN < 2 * Ring

VARIABLES
  built,    \* SessionState.dedup is Some(window)
  rcv_nxt,  \* next wire number expected
  bitmap,   \* bits set: j stands for the number rcv_nxt + 1 + j
  anchor,   \* history: frame at which the window was last (re)based
  handled,  \* history: frames passed to handle_frame since then
  last      \* history: <<n, verdict>> of the latest arrival

vars == <<built, rcv_nxt, bitmap, anchor, handled, last>>

Bits == 0..(WINDOW_SIZE - 1)
Frames == FirstN..LastN

\* u64::wrapping_add.
WrapAdd(x, k) == IF x + k >= Ring THEN x + k - Ring ELSE x + k

\* The number frame n carries on the wire.
Wire(n) == IF n >= Ring THEN n - Ring ELSE n

\* How many low bits of the bitmap are set without a gap: the number of turns
\* of the absorbing loop in feed.
TrailingOnes(b) ==
  CHOOSE k \in 0..WINDOW_SIZE : k \notin b /\ \A j \in 0..(k - 1) : j \in b

\* Mutant: one shift too few.
ShiftPast_Short(b, k) == {j \in Bits : j + k \in b}

\* The bitmap after k + 1 shifts to the right.
ShiftPast(b, k) == {j \in Bits : j + k + 1 \in b}

Init ==
  /\ built = FALSE
  /\ rcv_nxt = 0
  /\ bitmap = {}
  /\ anchor = 0
  /\ handled = {}
  /\ last = <<0, "none">>

\* Mutant: the bit already set is not noticed.
Verdict_NoBitCheck(seq) ==
  IF seq < rcv_nxt THEN "Duplicate"
  ELSE IF seq = rcv_nxt THEN "InOrder"
  ELSE IF seq - rcv_nxt > WINDOW_SIZE THEN "TooFar"
  ELSE "OutOfOrder"

\* DedupWindow::feed: the verdict on a number.
Verdict(seq) ==
  IF seq < rcv_nxt THEN "Duplicate"
  ELSE IF seq = rcv_nxt THEN "InOrder"
  ELSE IF seq - rcv_nxt > WINDOW_SIZE THEN "TooFar"
  ELSE IF seq - rcv_nxt - 1 \in bitmap THEN "Duplicate"
  ELSE "OutOfOrder"

\* Bookkeeping of the history variables common to all arrivals.
Arrived(n, verdict) ==
  /\ last' = <<n, verdict>>

(***************************************************************************)
(* The first frame of a connection: feed_seq builds the window at its      *)
(* number and feeds it, which is InOrder.                                  *)
(***************************************************************************)
FirstFrame(n) ==
  /\ ~built
  /\ built' = TRUE
  /\ rcv_nxt' = WrapAdd(Wire(n), 1)
  /\ bitmap' = {}
  /\ anchor' = n
  /\ handled' = {n}
  /\ Arrived(n, "InOrder")

\* In order: advance, absorb the run of frames already received, handle.
InOrder(n) ==
  /\ built
  /\ Verdict(Wire(n)) = "InOrder"
  /\ rcv_nxt' = WrapAdd(rcv_nxt, 1 + TrailingOnes(bitmap))
  /\ bitmap' = ShiftPast(bitmap, TrailingOnes(bitmap))
  /\ handled' = handled \cup {n}
  /\ Arrived(n, "InOrder")
  /\ UNCHANGED <<built, anchor>>

\* Ahead inside the window: remember it and handle it at once.
OutOfOrder(n) ==
  /\ built
  /\ Verdict(Wire(n)) = "OutOfOrder"
  /\ bitmap' = bitmap \cup {Wire(n) - rcv_nxt - 1}
  /\ handled' = handled \cup {n}
  /\ Arrived(n, "OutOfOrder")
  /\ UNCHANGED <<built, rcv_nxt, anchor>>

\* A duplicate is dropped.
Duplicate(n) ==
  /\ built
  /\ Verdict(Wire(n)) = "Duplicate"
  /\ Arrived(n, "Duplicate")
  /\ UNCHANGED <<built, rcv_nxt, bitmap, anchor, handled>>

\* Mutant: the resync keeps the bits of the old window.
TooFar_KeepBits(n) ==
  /\ built
  /\ Verdict(Wire(n)) = "TooFar"
  /\ rcv_nxt' = WrapAdd(Wire(n), 1)
  /\ anchor' = n
  /\ handled' = {n}
  /\ Arrived(n, "TooFar")
  /\ UNCHANGED <<built, bitmap>>

\* Beyond the window: resync rebases the window on this frame, which is then handled.
TooFar(n) ==
  /\ built
  /\ Verdict(Wire(n)) = "TooFar"
  /\ rcv_nxt' = WrapAdd(Wire(n), 1)
  /\ bitmap' = {}
  /\ anchor' = n
  /\ handled' = {n}
  /\ Arrived(n, "TooFar")
  /\ UNCHANGED built

\* The session task takes frame n from its channel.
Arrive(n) ==
  FirstFrame(n) \/ InOrder(n) \/ OutOfOrder(n) \/ Duplicate(n) \/ TooFar(n)

Next == \E n \in Frames : Arrive(n)

Spec == Init /\ [][Next]_vars
-----------------------------------------------------------------------------
TypeOK ==
  /\ built \in BOOLEAN
  /\ rcv_nxt \in 0..(Ring - 1)
  /\ bitmap \subseteq Bits
  /\ anchor \in Nat
  /\ handled \subseteq Frames
  /\ last \in Nat \X {"none", "InOrder", "OutOfOrder", "Duplicate", "TooFar"}

(***************************************************************************)
(* A frame is passed to the business layer at most once between two        *)
(* rebasings of the window, however it is duplicated or reordered.         *)
(***************************************************************************)
AtMostOnce ==
  [][last'[2] \in {"InOrder", "OutOfOrder"} /\ built
       => last'[1] \notin handled]_vars

(***************************************************************************)
(* From the frame the window is based on, its anchor, only a frame that    *)
(* was handled is dropped as a duplicate: the wedge that the resync of     *)
(* serve_connection was written against. Frames below the anchor are given *)
(* up unhandled: those before the first frame to arrive, and those a       *)
(* resync skips (feed answers Duplicate to whatever is behind rcv_nxt).    *)
(***************************************************************************)
NoSwallow ==
  last[2] = "Duplicate" => last[1] \in handled \/ last[1] < anchor

\* ack(): every frame from the one the window was based on up to, not
\* including, rcv_nxt has been handled, and rcv_nxt itself has not.
AckExact ==
  built => /\ \A n \in anchor..(rcv_nxt - 1) : n \in handled
           /\ rcv_nxt \notin handled
=============================================================================
