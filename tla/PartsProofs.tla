----------------------------- MODULE PartsProofs -----------------------------
(***************************************************************************)
(* Five parts that share no state and are short enough to be proved about  *)
(* side by side: the sequence window and the reconnection delays of the    *)
(* transport, the chat view of the terminal client, and the weak link and  *)
(* the latency histogram of the benchmarks.                                *)
(***************************************************************************)
EXTENDS SeqWindow, ChatView, WeakLink, Backoff, Histogram, FiniteSetTheorems,
        WellFoundedInduction, TLAPS

(***************************************************************************)
(* Facts about sets of naturals and about sequences.                       *)
(***************************************************************************)
\* Every nonempty set of naturals has a least element.
LEMMA LeastNatural ==
  ASSUME NEW T, T \subseteq Nat, T # {}
  PROVE  \E x \in T : \A y \in T : x <= y
<1> DEFINE R == {ss \in Nat \X Nat : ss[1] < ss[2]}
<1>1. IsWellFoundedOn(R, Nat)
  BY NatLessThanWellFounded DEF OpToRel
<1> HIDE DEF R
<1>2. PICK x \in T : \A y \in T : ~(<<y, x>> \in R)
  BY <1>1, WFMin
<1>3. ASSUME NEW y \in T PROVE x <= y
  <2>1. x \in Nat /\ y \in Nat
    OBVIOUS
  <2>2. y < x => <<y, x>> \in R
    BY <2>1 DEF R
  <2> QED
    BY <1>2, <2>1, <2>2
<1> QED
  BY <1>3

\* A sequence without its first element, place by place.
LEMMA TailShifts ==
  ASSUME NEW T, NEW q \in Seq(T), q # <<>>
  PROVE  /\ Len(q) \in Nat /\ Len(q) >= 1 /\ Tail(q) \in Seq(T) /\ Len(Tail(q)) = Len(q) - 1
         /\ Head(q) = q[1]
         /\ \A i \in 1..Len(Tail(q)) : i + 1 \in 1..Len(q) /\ Tail(q)[i] = q[i + 1]
         /\ \A i \in 1..Len(q) : i = 1 \/ \E j \in 1..Len(Tail(q)) : i = j + 1
<1>1. Len(q) \in Nat /\ Len(q) >= 1 /\ Tail(q) \in Seq(T) /\ Len(Tail(q)) = Len(q) - 1 /\ Head(q) = q[1]
  OBVIOUS
<1>2. ASSUME NEW i \in 1..Len(Tail(q)) PROVE i + 1 \in 1..Len(q) /\ Tail(q)[i] = q[i + 1]
  BY <1>1
<1>3. ASSUME NEW i \in 1..Len(q), i # 1 PROVE \E j \in 1..Len(Tail(q)) : i = j + 1
  <2>1. i - 1 \in 1..Len(Tail(q)) /\ i = (i - 1) + 1
    BY <1>1, <1>3
  <2> QED BY <2>1
<1> QED BY <1>1, <1>2, <1>3

\* A sequence with one more element, place by place.
LEMMA AppendExtends ==
  ASSUME NEW T, NEW q \in Seq(T), NEW x \in T
  PROVE  /\ Len(q) \in Nat /\ Append(q, x) \in Seq(T) /\ Len(Append(q, x)) = Len(q) + 1
         /\ \A i \in 1..Len(q) : i \in 1..Len(Append(q, x)) /\ Append(q, x)[i] = q[i]
         /\ Len(q) + 1 \in 1..Len(Append(q, x)) /\ Append(q, x)[Len(q) + 1] = x
         /\ \A i \in 1..Len(Append(q, x)) : i \in 1..Len(q) \/ i = Len(q) + 1
<1>1. Len(q) \in Nat /\ Append(q, x) \in Seq(T) /\ Len(Append(q, x)) = Len(q) + 1
  OBVIOUS
<1>2. \A i \in 1..Len(q) : i \in 1..Len(Append(q, x)) /\ Append(q, x)[i] = q[i]
  BY <1>1
<1>3. Len(q) + 1 \in 1..Len(Append(q, x)) /\ Append(q, x)[Len(q) + 1] = x
  BY <1>1
<1>4. \A i \in 1..Len(Append(q, x)) : i \in 1..Len(q) \/ i = Len(q) + 1
  BY <1>1
<1> QED BY <1>1, <1>2, <1>3, <1>4

(***************************************************************************)
(* The sequence window. For every window size and every number of frames:  *)
(* the window passes a frame on at most once between two rebasings,        *)
(* swallows no new frame, and its acknowledgement is exact, as long as the *)
(* numbers do not wrap.                                                    *)
(***************************************************************************)
\* No frame number reaches the end of the ring.
NoWrap == LastN + 1 < Ring

\* The window decides membership in the set of handled frames: below rcv_nxt
\* every frame from the anchor on is handled, above it those whose bit is set.
WindowExact ==
  built =>
    /\ anchor \in Frames
    /\ anchor < rcv_nxt
    /\ rcv_nxt <= LastN + 1
    /\ \A j \in bitmap : rcv_nxt + 1 + j <= LastN
    /\ \A n \in Frames :
         n \in handled <=> \/ anchor <= n /\ n < rcv_nxt
                           \/ n > rcv_nxt /\ n - rcv_nxt - 1 \in bitmap

WindowInv == TypeOK /\ WindowExact /\ NoSwallow

\* The absorbing loop stops at the first clear bit.
LEMMA TrailingOnesSpec ==
  ASSUME NEW b, b \subseteq Bits
  PROVE  /\ TrailingOnes(b) \in 0..WINDOW_SIZE
         /\ TrailingOnes(b) \notin b
         /\ \A j \in 0..(TrailingOnes(b) - 1) : j \in b
<1> DEFINE T == (0..WINDOW_SIZE) \ b
<1>1. WINDOW_SIZE \in T /\ T \subseteq Nat
  BY WindowAssumption DEF Bits
<1>2. PICK k \in T : \A y \in T : k <= y
  BY <1>1, LeastNatural
<1>3. k \in 0..WINDOW_SIZE /\ k \notin b /\ \A j \in 0..(k - 1) : j \in b
  BY <1>2, WindowAssumption
<1> QED
  BY <1>3 DEF TrailingOnes

\* Without wrapping, the number on the wire is the frame's own.
LEMMA WirePlain == NoWrap => \A n \in Frames : Wire(n) = n
  BY WindowAssumption DEF NoWrap, Frames, Wire

\* No window is built at the start.
LEMMA WindowInitInv == Init => WindowInv
<1> SUFFICES ASSUME Init PROVE WindowInv
  OBVIOUS
<1>1. 0 \in 0..(Ring - 1)
  BY WindowAssumption
<1>2. TypeOK
  BY <1>1 DEF Init, TypeOK
<1>3. WindowExact /\ NoSwallow
  BY DEF Init, WindowExact, NoSwallow
<1> QED
  BY <1>2, <1>3 DEF WindowInv

\* A frame in sequence advances the window over the run it completes.
LEMMA WindowInOrderInv ==
  ASSUME NoWrap, WindowInv, NEW n \in Frames, InOrder(n)
  PROVE  WindowInv' /\ n \notin handled
<1> DEFINE k == TrailingOnes(bitmap)
<1>1. n = rcv_nxt
  BY WirePlain, WindowAssumption DEF WindowInv, TypeOK, InOrder, Verdict, Frames
<1>2. /\ WINDOW_SIZE \in Nat /\ Ring \in Nat /\ FirstN \in Nat /\ LastN \in Nat
      /\ LastN + 1 < Ring
      /\ rcv_nxt \in Nat /\ anchor \in Nat /\ bitmap \subseteq Bits
      /\ n \in Nat /\ n <= LastN /\ FirstN <= n
  BY WindowAssumption DEF NoWrap, WindowInv, TypeOK, Frames
<1>3. /\ k \in 0..WINDOW_SIZE /\ k \notin bitmap
      /\ \A j \in 0..(k - 1) : j \in bitmap
  BY <1>2, TrailingOnesSpec
<1> HIDE DEF k
<1>4. /\ anchor \in Frames /\ anchor < rcv_nxt
      /\ \A j \in bitmap : rcv_nxt + 1 + j <= LastN
      /\ \A i \in Frames :
           i \in handled <=> \/ anchor <= i /\ i < rcv_nxt
                             \/ i > rcv_nxt /\ i - rcv_nxt - 1 \in bitmap
  BY DEF WindowInv, WindowExact, InOrder
<1>5. rcv_nxt + 1 + k <= LastN + 1
  <2>1. CASE k = 0
    BY <2>1, <1>1, <1>2
  <2>2. CASE k # 0
    <3>1. k - 1 \in bitmap
      BY <2>2, <1>2, <1>3
    <3> QED
      BY <3>1, <1>2, <1>3, <1>4
  <2> QED
    BY <2>1, <2>2
<1>6. /\ rcv_nxt' = rcv_nxt + 1 + k
      /\ bitmap' = {j \in Bits : j + k + 1 \in bitmap}
      /\ handled' = handled \cup {n}
      /\ anchor' = anchor /\ built /\ built'
      /\ last' = <<n, "InOrder">>
  BY <1>2, <1>3, <1>5 DEF InOrder, WrapAdd, ShiftPast, Arrived, k
<1>7. TypeOK'
  BY <1>2, <1>3, <1>5, <1>6 DEF WindowInv, TypeOK, Bits
<1>8. WindowExact'
  <2>1. anchor' \in Frames /\ anchor' < rcv_nxt' /\ rcv_nxt' <= LastN + 1
    BY <1>2, <1>3, <1>4, <1>5, <1>6
  <2>2. ASSUME NEW j \in bitmap' PROVE rcv_nxt' + 1 + j <= LastN
    <3>1. j \in Nat /\ j + k + 1 \in bitmap
      BY <1>2, <1>6 DEF Bits
    <3>2. rcv_nxt + 1 + (j + k + 1) <= LastN
      BY <3>1, <1>4
    <3> QED
      BY <3>1, <3>2, <1>2, <1>3, <1>6
  <2>3. ASSUME NEW i \in Frames
        PROVE  i \in handled' <=> \/ anchor <= i /\ i < rcv_nxt'
                                  \/ i > rcv_nxt' /\ i - rcv_nxt' - 1 \in bitmap'
    <3>0. i \in Nat
      BY <1>2 DEF Frames
    <3>1. CASE i <= rcv_nxt
      BY <3>0, <3>1, <1>1, <1>2, <1>3, <1>4, <1>6
    <3>2. CASE i > rcv_nxt /\ i < rcv_nxt + 1 + k
      <4>1. i - rcv_nxt - 1 \in 0..(k - 1)
        BY <3>0, <3>2, <1>2, <1>3
      <4> QED
        BY <4>1, <3>0, <3>2, <1>2, <1>3, <1>4, <1>6
    <3>3. CASE i = rcv_nxt + 1 + k
      <4>1. i - rcv_nxt - 1 = k
        BY <3>3, <1>2, <1>3
      <4>2. i \notin handled /\ i # n
        BY <4>1, <3>0, <3>3, <1>1, <1>2, <1>3, <1>4
      <4> QED
        BY <4>2, <3>0, <3>3, <1>2, <1>3, <1>6
    <3>4. CASE i > rcv_nxt + 1 + k
      <4>1. (i - rcv_nxt' - 1) + k + 1 = i - rcv_nxt - 1
        BY <3>0, <1>2, <1>3, <1>6
      <4>2. i - rcv_nxt' - 1 \in bitmap' <=> i - rcv_nxt - 1 \in bitmap
        BY <4>1, <3>0, <3>4, <1>2, <1>3, <1>6 DEF Bits
      <4>3. i \in handled' <=> i \in handled
        BY <3>0, <3>4, <1>1, <1>2, <1>3, <1>6
      <4> QED
        BY <4>2, <4>3, <3>0, <3>4, <1>2, <1>3, <1>4, <1>6
    <3> QED
      BY <3>0, <3>1, <3>2, <3>3, <3>4, <1>2, <1>3
  <2> QED
    BY <2>1, <2>2, <2>3, <1>6 DEF WindowExact
<1>9. NoSwallow'
  BY <1>6 DEF NoSwallow
<1> QED
  BY <1>1, <1>2, <1>4, <1>7, <1>8, <1>9 DEF WindowInv

\* A frame ahead inside the window sets a bit that was clear.
LEMMA WindowOutOfOrderInv ==
  ASSUME NoWrap, WindowInv, NEW n \in Frames, OutOfOrder(n)
  PROVE  WindowInv' /\ n \notin handled
<1>1. Wire(n) = n
  BY WirePlain
<1>2. /\ WINDOW_SIZE \in Nat /\ Ring \in Nat /\ FirstN \in Nat /\ LastN \in Nat
      /\ LastN + 1 < Ring
      /\ rcv_nxt \in Nat /\ anchor \in Nat /\ bitmap \subseteq Bits
      /\ n \in Nat /\ n <= LastN /\ FirstN <= n
  BY WindowAssumption DEF NoWrap, WindowInv, TypeOK, Frames
<1>3. /\ n > rcv_nxt /\ n - rcv_nxt <= WINDOW_SIZE /\ n - rcv_nxt - 1 \notin bitmap
  BY <1>1, <1>2 DEF OutOfOrder, Verdict
<1>4. n \notin handled
  BY <1>2, <1>3 DEF WindowInv, WindowExact, OutOfOrder
<1>5. TypeOK'
  BY <1>1, <1>2, <1>3 DEF WindowInv, TypeOK, OutOfOrder, Arrived, Bits
<1>6. WindowExact'
  <2>1. built /\ built' /\ anchor' = anchor /\ rcv_nxt' = rcv_nxt
        /\ bitmap' = bitmap \cup {n - rcv_nxt - 1} /\ handled' = handled \cup {n}
    BY <1>1 DEF OutOfOrder
  <2>2. \A j \in bitmap' : rcv_nxt' + 1 + j <= LastN
    BY <2>1, <1>2, <1>3 DEF WindowInv, WindowExact, Bits
  <2>3. ASSUME NEW i \in Frames
        PROVE  i \in handled' <=> \/ anchor' <= i /\ i < rcv_nxt'
                                  \/ i > rcv_nxt' /\ i - rcv_nxt' - 1 \in bitmap'
    <3>1. i \in Nat
      BY <1>2 DEF Frames
    <3>2. i \in handled <=> \/ anchor <= i /\ i < rcv_nxt
                            \/ i > rcv_nxt /\ i - rcv_nxt - 1 \in bitmap
      BY <2>1 DEF WindowInv, WindowExact
    <3>3. i - rcv_nxt - 1 = n - rcv_nxt - 1 <=> i = n
      BY <3>1, <1>2
    <3> QED
      BY <3>1, <3>2, <3>3, <2>1, <1>2, <1>3
  <2> QED
    BY <2>1, <2>2, <2>3 DEF WindowInv, WindowExact
<1>7. NoSwallow'
  BY DEF NoSwallow, OutOfOrder, Arrived
<1> QED
  BY <1>4, <1>5, <1>6, <1>7 DEF WindowInv

\* Every arrival keeps the window exact.
LEMMA WindowNextInv == NoWrap /\ WindowInv /\ [Next]_vars => WindowInv'
<1> SUFFICES ASSUME NoWrap, WindowInv, [Next]_vars PROVE WindowInv'
  OBVIOUS
<1>1. /\ WINDOW_SIZE \in Nat /\ Ring \in Nat /\ FirstN \in Nat /\ LastN \in Nat
      /\ LastN + 1 < Ring
  BY WindowAssumption DEF NoWrap
<1>2. ASSUME NEW n \in Frames, FirstFrame(n) \/ TooFar(n) PROVE WindowInv'
  <2>1. n \in Nat /\ n <= LastN /\ FirstN <= n
    BY <1>1 DEF Frames
  <2>2. /\ rcv_nxt' = n + 1 /\ bitmap' = {} /\ anchor' = n /\ handled' = {n} /\ built'
        /\ last' \in {<<n, "InOrder">>, <<n, "TooFar">>}
    BY <1>1, <1>2, <2>1, WirePlain DEF FirstFrame, TooFar, WrapAdd, Arrived
  <2>3. built' \in BOOLEAN
    BY <1>2 DEF FirstFrame, TooFar, WindowInv, TypeOK
  <2>4. TypeOK'
    <3>1. rcv_nxt' \in 0..(Ring - 1) /\ anchor' \in Nat
      BY <1>1, <2>1, <2>2
    <3>2. handled' \subseteq Frames /\ bitmap' \subseteq Bits
      BY <2>2 DEF WindowInv, TypeOK
    <3>3. last' \in Nat \X {"none", "InOrder", "OutOfOrder", "Duplicate", "TooFar"}
      BY <2>1, <2>2
    <3> QED
      BY <3>1, <3>2, <3>3, <2>3 DEF TypeOK
  <2>5. WindowExact'
    BY <1>1, <2>1, <2>2 DEF WindowExact, Frames
  <2>6. NoSwallow'
    BY <2>2 DEF NoSwallow
  <2> QED
    BY <2>4, <2>5, <2>6 DEF WindowInv
<1>3. ASSUME NEW n \in Frames, InOrder(n) PROVE WindowInv'
  BY <1>3, WindowInOrderInv
<1>4. ASSUME NEW n \in Frames, OutOfOrder(n) PROVE WindowInv'
  BY <1>4, WindowOutOfOrderInv
<1>5. ASSUME NEW n \in Frames, Duplicate(n) PROVE WindowInv'
  <2>1. Wire(n) = n /\ n \in Nat /\ rcv_nxt \in Nat
    BY <1>1, WirePlain DEF WindowInv, TypeOK, Frames
  <2>2. n < rcv_nxt \/ (n > rcv_nxt /\ n - rcv_nxt - 1 \in bitmap)
    BY <1>5, <2>1 DEF Duplicate, Verdict
  <2>3. anchor \in Nat
    BY DEF WindowInv, TypeOK
  <2>4. n \in handled \/ n < anchor
    BY <1>5, <2>1, <2>2, <2>3 DEF Duplicate, WindowInv, WindowExact
  <2>5. NoSwallow'
    BY <1>5, <2>4 DEF Duplicate, NoSwallow, Arrived
  <2>6. TypeOK' /\ WindowExact'
    BY <1>5, <2>1 DEF Duplicate, WindowInv, TypeOK, WindowExact, Arrived
  <2> QED
    BY <2>5, <2>6 DEF WindowInv
<1>6. CASE UNCHANGED vars
  BY <1>6 DEF vars, WindowInv, TypeOK, WindowExact, NoSwallow
<1> QED
  BY <1>2, <1>3, <1>4, <1>5, <1>6 DEF Next, Arrive

(***************************************************************************)
(* The window's variables keep their types, and from its anchor on it      *)
(* drops as a duplicate only what was handled, for any window size and any *)
(* losses and reorderings. Below the anchor (before the first frame, or    *)
(* skipped by a resync) frames are dropped unhandled (dedup.rs, feed).     *)
(***************************************************************************)
THEOREM WindowNoSwallow ==
  ASSUME NoWrap
  PROVE  Spec => [](TypeOK /\ NoSwallow)
<1>0. WindowInv /\ [Next]_vars => WindowInv'
  BY WindowNextInv
<1>1. WindowInv => TypeOK /\ NoSwallow
  BY DEF WindowInv
<1> QED
  BY WindowInitInv, <1>0, <1>1, PTL DEF Spec

(***************************************************************************)
(* ack() acknowledges exactly the run of handled frames that starts at the *)
(* frame the window was based on.                                          *)
(***************************************************************************)
THEOREM WindowAckExact ==
  ASSUME NoWrap
  PROVE  Spec => []AckExact
<1>0. WindowInv /\ [Next]_vars => WindowInv'
  BY WindowNextInv
<1>1. ASSUME WindowInv PROVE AckExact
  <2>1. /\ rcv_nxt \in Nat /\ anchor \in Nat /\ LastN \in Nat /\ FirstN \in Nat
        /\ handled \subseteq Frames
    BY <1>1, WindowAssumption DEF WindowInv, TypeOK
  <2>2. built => \A n \in anchor..(rcv_nxt - 1) : n \in handled
    BY <1>1, <2>1 DEF WindowInv, WindowExact, Frames
  <2>3. built => rcv_nxt \notin handled
    BY <1>1, <2>1 DEF WindowInv, WindowExact
  <2> QED
    BY <2>2, <2>3 DEF AckExact
<1>2. WindowInv => AckExact
  BY <1>1
<1> QED
  BY WindowInitInv, <1>0, <1>2, PTL DEF Spec

(***************************************************************************)
(* Between two rebasings no frame is passed to the business layer twice.   *)
(***************************************************************************)
THEOREM WindowAtMostOnce ==
  ASSUME NoWrap
  PROVE  Spec => AtMostOnce
<1> DEFINE Once == last'[2] \in {"InOrder", "OutOfOrder"} /\ built
                     => last'[1] \notin handled
<1>0. WindowInv /\ [Next]_vars => WindowInv'
  BY WindowNextInv
<1>1. ASSUME WindowInv, [Next]_vars PROVE [Once]_vars
  <2>1. ASSUME NEW n \in Frames, InOrder(n) \/ OutOfOrder(n) PROVE Once
    <3>1. n \notin handled
      BY <1>1, <2>1, WindowInOrderInv, WindowOutOfOrderInv
    <3>2. last' = <<n, "InOrder">> \/ last' = <<n, "OutOfOrder">>
      BY <2>1 DEF InOrder, OutOfOrder, Arrived
    <3> QED
      BY <3>1, <3>2
  <2>2. ASSUME NEW n \in Frames, FirstFrame(n) \/ Duplicate(n) \/ TooFar(n) PROVE Once
    <3>1. ~built \/ last' = <<n, "Duplicate">> \/ last' = <<n, "TooFar">>
      BY <2>2 DEF FirstFrame, Duplicate, TooFar, Arrived
    <3> QED
      BY <3>1
  <2>3. CASE UNCHANGED vars
    BY <2>3
  <2> QED
    BY <1>1, <2>1, <2>2, <2>3 DEF Next, Arrive
<1>2. WindowInv /\ [Next]_vars => [Once]_vars
  BY <1>1
<1> QED
  BY WindowInitInv, <1>0, <1>2, PTL DEF Spec, AtMostOnce

(***************************************************************************)
(* The chat view.                                                          *)
(***************************************************************************)
Items == [from_me : BOOLEAN, id : Nat, status : {"sending", "delivered", "failed"}]
Convs == [messages : Seq(Items), unread : Nat]

ChatEvents ==
  [kind : {"queued"}, to : Peers, id : Nat]
  \cup [kind : {"message"}, from : Peers, id : Nat]
  \cup [kind : {"batch"}, from : Peers, id : Nat, from2 : Peers, id2 : Nat]
  \cup [kind : {"ack", "failed"}, id : Nat]
  \cup [kind : {"connected", "disconnected", "rejected"}]

TheirPlaces(v) == {i \in 1..Len(v.messages) : ~v.messages[i].from_me}

\* A conversation of which the messages in onScreen were on the screen.
Consistent(v, onScreen) ==
  /\ v \in Convs
  /\ IsFiniteSet(Theirs(v)) /\ IsFiniteSet(TheirPlaces(v))
  /\ Cardinality(Theirs(v)) = Cardinality(TheirPlaces(v))
  /\ onScreen \subseteq Theirs(v)
  /\ v.unread = Cardinality(Theirs(v) \ onScreen)

\* The conversations, with a bound on the ids for HighestOf.
Convos(c, sh) ==
  /\ c = [p \in known(c) |-> c[p]] /\ known(c) \subseteq Peers
  /\ \E m \in Nat : \A p \in known(c) : p <= m
  /\ \A p \in known(c) : Consistent(c[p], sh[p])
  /\ \A p \in Peers \ known(c) : sh[p] = {}

ChatTypes ==
  /\ selected \in Peers \cup {Nobody} /\ (ui = "sending" => selected \in Peers)
  /\ chatCmds \in Seq(Peers) /\ queuedTo \in Seq(Peers)
  /\ chatEvents \in Seq(ChatEvents)
  /\ raising \in {<<>>} \cup {<<e>> : e \in ChatEvents}
  /\ shown = [p \in Peers |-> shown[p]]

(***************************************************************************)
(* The conversation on the screen has nothing unread: TextSent draws       *)
(* without touching the counts.                                            *)
(***************************************************************************)
SelectedRead == selected \in known(conversations) => conversations[selected].unread = 0

ChatInv == ChatTypes /\ Convos(conversations, shown) /\ SelectedRead

(***************************************************************************)
(* One conversation.                                                       *)
(***************************************************************************)
LEMMA TheirsPlaced ==
  ASSUME NEW v
  PROVE  \A id : id \in Theirs(v) <=> \E i \in TheirPlaces(v) : v.messages[i].id = id
BY DEF Theirs, TheirPlaces

LEMMA NewConsistent == Consistent(Empty, {})
<1>1. Empty \in Convs /\ Theirs(Empty) = {} /\ TheirPlaces(Empty) = {} /\ Empty.unread = 0
  BY DEF Empty, Convs, Theirs, TheirPlaces
<1> QED BY <1>1, FS_EmptySet DEF Consistent

LEMMA Appends ==
  ASSUME NEW v \in Convs, NEW m \in Items, NEW w \in Convs, w.messages = Append(v.messages, m)
  PROVE  /\ Len(v.messages) \in Nat /\ Len(v.messages) + 1 \notin TheirPlaces(v)
         /\ Theirs(w) = IF m.from_me THEN Theirs(v) ELSE Theirs(v) \cup {m.id}
         /\ TheirPlaces(w) = IF m.from_me THEN TheirPlaces(v)
                             ELSE TheirPlaces(v) \cup {Len(v.messages) + 1}
<1>1. PICK q \in Seq(Items) : q = v.messages
  BY DEF Convs
<1>2. PICK n \in Nat : n = Len(q)
  OBVIOUS
<1>3. PICK r \in Seq(Items) : r = Append(q, m) /\ r = w.messages
  <2>1. Append(q, m) \in Seq(Items)
    BY AppendExtends
  <2> QED BY <1>1, <2>1
<1>4. /\ Len(r) = n + 1 /\ r[n + 1] = m
      /\ \A i \in 1..n : r[i] = q[i]
  <2>1. /\ Len(Append(q, m)) = Len(q) + 1 /\ Append(q, m)[Len(q) + 1] = m
        /\ \A i \in 1..Len(q) : Append(q, m)[i] = q[i]
    BY AppendExtends
  <2>2. Len(r) = Len(q) + 1 /\ r[Len(q) + 1] = m /\ \A i \in 1..Len(q) : r[i] = q[i]
    BY <1>3, <2>1
  <2> QED BY <1>2, <2>2
<1>5. \A i : i \in 1..(n + 1) <=> i \in 1..n \/ i = n + 1
  BY <1>2
<1>6. n + 1 \notin 1..n
  BY <1>2
<1>7. /\ TheirPlaces(v) = {i \in 1..n : ~q[i].from_me}
      /\ TheirPlaces(w) = {i \in 1..(n + 1) : ~r[i].from_me}
  BY <1>1, <1>2, <1>3, <1>4 DEF TheirPlaces
<1>8. /\ m.from_me => TheirPlaces(w) = TheirPlaces(v)
      /\ ~m.from_me => TheirPlaces(w) = TheirPlaces(v) \cup {n + 1}
  BY <1>4, <1>5, <1>6, <1>7
<1>9. \A i \in TheirPlaces(v) : r[i].id = q[i].id
  BY <1>4, <1>7
<1>10. /\ \A id : id \in Theirs(v) <=> \E i \in TheirPlaces(v) : q[i].id = id
       /\ \A id : id \in Theirs(w) <=> \E i \in TheirPlaces(w) : r[i].id = id
  <2>1. /\ \A id : id \in Theirs(v) <=> \E i \in TheirPlaces(v) : v.messages[i].id = id
        /\ \A id : id \in Theirs(w) <=> \E i \in TheirPlaces(w) : w.messages[i].id = id
    BY TheirsPlaced
  <2> QED BY <1>1, <1>3, <2>1
<1>11. ASSUME m.from_me PROVE Theirs(w) = Theirs(v)
  <2>1. \A id : id \in Theirs(w) <=> id \in Theirs(v)
    BY <1>8, <1>9, <1>10, <1>11
  <2> QED BY <2>1
<1>12. ASSUME ~m.from_me PROVE Theirs(w) = Theirs(v) \cup {m.id}
  <2>1. ASSUME NEW id \in Theirs(w) PROVE id \in Theirs(v) \cup {m.id}
    <3>1. PICK i \in TheirPlaces(w) : r[i].id = id
      BY <1>10
    <3>2. CASE i = n + 1
      BY <1>4, <3>1, <3>2
    <3>3. CASE i \in TheirPlaces(v)
      BY <1>9, <1>10, <3>1, <3>3
    <3> QED BY <1>8, <1>12, <3>2, <3>3
  <2>2. ASSUME NEW id \in Theirs(v) PROVE id \in Theirs(w)
    BY <1>8, <1>9, <1>10, <1>12
  <2>3. m.id \in Theirs(w)
    BY <1>4, <1>8, <1>10, <1>12
  <2> QED BY <2>1, <2>2, <2>3
<1> QED BY <1>1, <1>2, <1>6, <1>7, <1>8, <1>11, <1>12

\* A message of the peer that was not there yet counts once.
LEMMA TheirsCounts ==
  ASSUME NEW v, NEW onScreen, Consistent(v, onScreen), NEW id \in Nat, id \notin Theirs(v), NEW w,
         w = [messages |-> Append(v.messages, [from_me |-> FALSE, id |-> id,
                                               status |-> "delivered"]),
              unread |-> v.unread + 1]
  PROVE  Consistent(w, onScreen)
<1>1. PICK m : m = [from_me |-> FALSE, id |-> id, status |-> "delivered"]
  OBVIOUS
<1>2. m \in Items /\ ~m.from_me /\ m.id = id
  BY <1>1 DEF Items
<1>3. v \in Convs /\ v.messages \in Seq(Items) /\ v.unread \in Nat
  BY DEF Consistent, Convs
<1>4. Append(v.messages, m) \in Seq(Items)
  BY <1>2, <1>3
<1>5. w \in Convs /\ w.messages = Append(v.messages, m) /\ w.unread = v.unread + 1
  BY <1>1, <1>3, <1>4 DEF Convs
<1>6. PICK n : n = Len(v.messages) + 1
  OBVIOUS
<1>7. Theirs(w) = Theirs(v) \cup {id} /\ TheirPlaces(w) = TheirPlaces(v) \cup {n}
        /\ n \notin TheirPlaces(v)
  <2>1. m \in Items /\ v \in Convs /\ w \in Convs /\ w.messages = Append(v.messages, m)
    BY <1>2, <1>3, <1>5
  <2>2. /\ Len(v.messages) + 1 \notin TheirPlaces(v)
        /\ Theirs(w) = IF m.from_me THEN Theirs(v) ELSE Theirs(v) \cup {m.id}
        /\ TheirPlaces(w) = IF m.from_me THEN TheirPlaces(v)
                            ELSE TheirPlaces(v) \cup {Len(v.messages) + 1}
    BY ONLY <2>1, Appends
  <2> QED BY <1>2, <1>6, <2>2
<1>8. PICK S, P, U : S = Theirs(v) /\ P = TheirPlaces(v) /\ U = Theirs(v) \ onScreen
  OBVIOUS
<1>9. /\ IsFiniteSet(S) /\ IsFiniteSet(P) /\ Cardinality(S) = Cardinality(P) /\ onScreen \subseteq S
      /\ v.unread = Cardinality(U) /\ U \subseteq S /\ id \notin S /\ n \notin P
  BY <1>7, <1>8 DEF Consistent
<1>10. IsFiniteSet(U)
  BY <1>9, FS_Subset
<1>11. IsFiniteSet(S \cup {id}) /\ Cardinality(S \cup {id}) = Cardinality(S) + 1
  BY <1>9, FS_AddElement
<1>12. IsFiniteSet(P \cup {n}) /\ Cardinality(P \cup {n}) = Cardinality(P) + 1
  BY <1>9, FS_AddElement
<1>13. Cardinality(U \cup {id}) = Cardinality(U) + 1
  BY <1>9, <1>10, FS_AddElement
<1>14. Theirs(w) \ onScreen = U \cup {id}
  BY <1>7, <1>8, <1>9
<1> QED BY <1>5, <1>7, <1>8, <1>9, <1>11, <1>12, <1>13, <1>14 DEF Consistent

\* An own message does not count.
LEMMA MineCounts ==
  ASSUME NEW v, NEW onScreen, Consistent(v, onScreen), NEW id \in Nat, NEW w,
         w = [v EXCEPT !.messages =
                Append(@, [from_me |-> TRUE, id |-> id, status |-> "sending"])]
  PROVE  Consistent(w, onScreen)
<1>1. PICK m : m = [from_me |-> TRUE, id |-> id, status |-> "sending"]
  OBVIOUS
<1>2. m \in Items /\ m.from_me
  BY <1>1 DEF Items
<1>3. v \in Convs /\ v.messages \in Seq(Items) /\ v.unread \in Nat
  BY DEF Consistent, Convs
<1>4. Append(v.messages, m) \in Seq(Items)
  BY <1>2, <1>3
<1>5. w \in Convs /\ w.messages = Append(v.messages, m) /\ w.unread = v.unread
  BY <1>1, <1>3, <1>4 DEF Convs
<1>6. Theirs(w) = Theirs(v) /\ TheirPlaces(w) = TheirPlaces(v)
  <2>1. m \in Items /\ v \in Convs /\ w \in Convs /\ w.messages = Append(v.messages, m)
    BY <1>2, <1>3, <1>5
  <2>2. /\ Theirs(w) = IF m.from_me THEN Theirs(v) ELSE Theirs(v) \cup {m.id}
        /\ TheirPlaces(w) = IF m.from_me THEN TheirPlaces(v)
                            ELSE TheirPlaces(v) \cup {Len(v.messages) + 1}
    BY ONLY <2>1, Appends
  <2> QED BY <1>2, <2>2
<1> QED BY <1>5, <1>6 DEF Consistent

\* One conversation under Marked.
MarkedIn(v, id, status) ==
  [v EXCEPT !.messages =
     [i \in DOMAIN v.messages |->
        LET m == v.messages[i]
        IN IF m.from_me /\ m.id = id THEN [m EXCEPT !.status = status] ELSE m]]

\* A mark changes the status of own messages and nothing else.
LEMMA MarkCounts ==
  ASSUME NEW v, NEW onScreen, Consistent(v, onScreen), NEW id,
         NEW status \in {"sending", "delivered", "failed"}, NEW w,
         w = MarkedIn(v, id, status)
  PROVE  Consistent(w, onScreen)
<1>1. PICK q \in Seq(Items) : q = v.messages
  BY DEF Consistent, Convs
<1>2. PICK n \in Nat : n = Len(q) /\ DOMAIN q = 1..n
  OBVIOUS
<1>3. PICK r : r = [i \in 1..n |-> IF q[i].from_me /\ q[i].id = id
                                   THEN [q[i] EXCEPT !.status = status] ELSE q[i]]
  OBVIOUS
<1>4. ASSUME NEW i \in 1..n PROVE r[i] \in Items /\ r[i].from_me = q[i].from_me /\ r[i].id = q[i].id
  <2>1. PICK m \in Items : m = q[i]
    BY <1>2
  <2>2. r[i] = IF m.from_me /\ m.id = id THEN [m EXCEPT !.status = status] ELSE m
    BY <1>3, <2>1
  <2>3. PICK x : x = [m EXCEPT !.status = status]
    OBVIOUS
  <2>4. x \in Items /\ x.from_me = m.from_me /\ x.id = m.id
    BY <2>3 DEF Items
  <2> QED BY <2>1, <2>2, <2>3, <2>4
<1>5. r \in Seq(Items) /\ Len(r) = n
  <2>1. r = [i \in 1..n |-> r[i]]
    BY <1>3
  <2>2. \A i \in 1..n : r[i] \in Items
    BY <1>4
  <2> QED BY <2>1, <2>2
<1>6. v \in Convs
  BY DEF Consistent
<1>7. w = [v EXCEPT !.messages = r]
  BY <1>1, <1>2, <1>3 DEF MarkedIn
<1>8. w \in Convs /\ w.messages = r /\ w.unread = v.unread
  BY <1>5, <1>6, <1>7 DEF Convs
<1>9. TheirPlaces(v) = {i \in 1..n : ~q[i].from_me} /\ TheirPlaces(w) = {i \in 1..n : ~r[i].from_me}
  BY <1>1, <1>2, <1>5, <1>8 DEF TheirPlaces
<1>10. TheirPlaces(w) = TheirPlaces(v)
  BY <1>4, <1>9
<1>11. \A i \in TheirPlaces(v) : v.messages[i].id = w.messages[i].id
  BY <1>1, <1>4, <1>8, <1>9
<1>12. Theirs(w) = Theirs(v)
  <2>1. ASSUME NEW k PROVE k \in Theirs(w) <=> k \in Theirs(v)
    <3>1. k \in Theirs(w) <=> \E i \in TheirPlaces(w) : w.messages[i].id = k
      BY TheirsPlaced
    <3>2. k \in Theirs(v) <=> \E i \in TheirPlaces(v) : v.messages[i].id = k
      BY TheirsPlaced
    <3> QED BY <1>10, <1>11, <3>1, <3>2
  <2> QED BY <2>1
<1> QED BY <1>8, <1>10, <1>12 DEF Consistent

\* A conversation that is shown and counted as read.
LEMMA ReadCounts ==
  ASSUME NEW v, NEW onScreen, Consistent(v, onScreen), NEW w, w = [v EXCEPT !.unread = 0]
  PROVE  Consistent(w, Theirs(v)) /\ w.unread = 0 /\ Theirs(w) = Theirs(v)
           /\ [w EXCEPT !.unread = 0] = w
<1>1. v \in Convs
  BY DEF Consistent
<1>2. w \in Convs /\ w.messages = v.messages /\ w.unread = 0
  BY <1>1 DEF Convs
<1>3. Theirs(w) = Theirs(v) /\ TheirPlaces(w) = TheirPlaces(v)
  BY <1>2 DEF Theirs, TheirPlaces
<1>4. Theirs(v) \ Theirs(v) = {}
  OBVIOUS
<1>5. Cardinality({}) = 0
  BY FS_EmptySet
<1>6. [w EXCEPT !.unread = 0] = w
  BY <1>2 DEF Convs
<1> QED BY <1>2, <1>3, <1>4, <1>5, <1>6 DEF Consistent

LEMMA ZeroCounts ==
  ASSUME NEW v, NEW onScreen, Consistent(v, onScreen), v.unread = 0
  PROVE  Consistent(v, Theirs(v))
<1>1. Theirs(v) \ Theirs(v) = {}
  OBVIOUS
<1> QED BY <1>1, FS_EmptySet DEF Consistent

(***************************************************************************)
(* All conversations.                                                      *)
(***************************************************************************)
\* Writing one conversation, old or new.
LEMMA WithConvos ==
  ASSUME NEW c, NEW sh, Convos(c, sh), NEW p \in Peers, NEW v,
         Consistent(v, sh[p]), NEW d, d = With(c, p, v)
  PROVE  Convos(d, sh)
<1>1. d = [q \in known(c) \cup {p} |-> IF q = p THEN v ELSE c[q]]
  BY DEF With
<1>2. known(d) = known(c) \cup {p} /\ d = [q \in known(d) |-> d[q]]
  BY <1>1 DEF known
<1>3. \A q \in known(d) : Consistent(d[q], sh[q])
  BY <1>1, <1>2 DEF Convos
<1>4. \E m \in Nat : \A q \in known(d) : q <= m
  <2>1. PICK m \in Nat : \A q \in known(c) : q <= m
    BY DEF Convos
  <2>2. p \in Nat /\ known(c) \subseteq Nat
    BY ChatAssumption DEF Convos
  <2>3. PICK h \in Nat : h = IF p <= m THEN m ELSE p
    BY <2>2
  <2>4. \A q \in known(d) : q <= h
    BY <1>2, <2>1, <2>2, <2>3
  <2> QED BY <2>4
<1> QED BY <1>2, <1>3, <1>4 DEF Convos

LEMMA EntryConsistent ==
  ASSUME NEW c, NEW sh, Convos(c, sh), NEW p \in Peers
  PROVE  Consistent(entry(c, p), sh[p])
BY NewConsistent DEF entry, Convos

LEMMA AcceptConvos ==
  ASSUME NEW c, NEW sh, Convos(c, sh), NEW p \in Peers, NEW id \in Nat
  PROVE  Convos(accept_incoming(c, p, id), sh)
<1>1. PICK old : old = entry(c, p)
  OBVIOUS
<1>2. Consistent(old, sh[p])
  BY <1>1, EntryConsistent
<1>3. CASE id \in Theirs(old)
  <2>1. accept_incoming(c, p, id) = With(c, p, old)
    BY <1>1, <1>3 DEF accept_incoming
  <2> QED BY <1>2, <2>1, WithConvos
<1>4. CASE id \notin Theirs(old)
  <2>1. PICK w : w = [messages |-> Append(old.messages, [from_me |-> FALSE, id |-> id,
                                                        status |-> "delivered"]),
                      unread |-> old.unread + 1]
    OBVIOUS
  <2>2. accept_incoming(c, p, id) = With(c, p, w)
    BY <1>1, <1>4, <2>1 DEF accept_incoming
  <2>3. Consistent(w, sh[p])
    BY <1>2, <1>4, <2>1, TheirsCounts
  <2> QED BY <2>2, <2>3, WithConvos
<1> QED BY <1>3, <1>4

LEMMA MarkedConvos ==
  ASSUME NEW c, NEW sh, Convos(c, sh), NEW id, NEW status \in {"sending", "delivered", "failed"}
  PROVE  Convos(Marked(c, id, status), sh)
<1>1. PICK d : d = Marked(c, id, status)
  OBVIOUS
<1>2. /\ known(d) = known(c) /\ d = [p \in known(d) |-> d[p]]
      /\ \A p \in known(c) : d[p] =
           [c[p] EXCEPT !.messages =
              [i \in DOMAIN c[p].messages |->
                 LET m == c[p].messages[i]
                 IN IF m.from_me /\ m.id = id THEN [m EXCEPT !.status = status] ELSE m]]
  BY <1>1 DEF Marked, known
<1>3. ASSUME NEW p \in known(c) PROVE Consistent(d[p], sh[p])
  <2>1. PICK v, w, onScreen : v = c[p] /\ w = d[p] /\ onScreen = sh[p]
    OBVIOUS
  <2>2. Consistent(v, onScreen)
    BY <2>1 DEF Convos
  <2>3. w = MarkedIn(v, id, status)
    BY <1>2, <2>1 DEF MarkedIn
  <2> QED BY <2>1, <2>2, <2>3, MarkCounts
<1> QED BY <1>1, <1>2, <1>3 DEF Convos

LEMMA EventConvos ==
  ASSUME NEW c, NEW sh, Convos(c, sh), NEW e \in ChatEvents
  PROVE  Convos(on_event(c, e), sh)
<1>1. CASE e \in [kind : {"queued"}, to : Peers, id : Nat]
  <2>1. PICK p \in Peers : p = e.to
    BY <1>1
  <2>2. e.kind = "queued" /\ e.id \in Nat
    BY <1>1
  <2>3. PICK old : old = entry(c, p)
    OBVIOUS
  <2>4. PICK w : w = [old EXCEPT !.messages =
                        Append(@, [from_me |-> TRUE, id |-> e.id, status |-> "sending"])]
    OBVIOUS
  <2>5. on_event(c, e) = With(c, p, w)
    BY <2>1, <2>2, <2>3, <2>4 DEF on_event
  <2>6. Consistent(w, sh[p])
    BY <2>2, <2>3, <2>4, EntryConsistent, MineCounts
  <2> QED BY <2>5, <2>6, WithConvos
<1>2. CASE e \in [kind : {"message"}, from : Peers, id : Nat]
  <2>1. e.kind = "message" /\ e.from \in Peers /\ e.id \in Nat
    BY <1>2
  <2>2. on_event(c, e) = accept_incoming(c, e.from, e.id)
    BY <2>1 DEF on_event
  <2> QED BY <2>1, <2>2, AcceptConvos
<1>3. CASE e \in [kind : {"batch"}, from : Peers, id : Nat, from2 : Peers, id2 : Nat]
  <2>1. e.kind = "batch" /\ e.from \in Peers /\ e.id \in Nat /\ e.from2 \in Peers /\ e.id2 \in Nat
    BY <1>3
  <2>2. PICK d : d = accept_incoming(c, e.from, e.id)
    OBVIOUS
  <2>3. on_event(c, e) = accept_incoming(d, e.from2, e.id2)
    BY <2>1, <2>2 DEF on_event
  <2>4. Convos(d, sh)
    BY <2>1, <2>2, AcceptConvos
  <2> QED BY <2>1, <2>3, <2>4, AcceptConvos
<1>4. CASE e \in [kind : {"ack", "failed"}, id : Nat]
  <2>1. e.kind = "ack" \/ e.kind = "failed"
    BY <1>4
  <2>2. on_event(c, e) = Marked(c, e.id, "delivered") \/ on_event(c, e) = Marked(c, e.id, "failed")
    BY <2>1 DEF on_event
  <2> QED BY <2>2, MarkedConvos
<1>5. CASE e \in [kind : {"connected", "disconnected", "rejected"}]
  <2>1. e.kind \in {"connected", "disconnected", "rejected"}
    BY <1>5
  <2>2. on_event(c, e) = c
    BY <2>1 DEF on_event
  <2> QED BY <2>2
<1> QED BY <1>1, <1>2, <1>3, <1>4, <1>5 DEF ChatEvents

\* What a drawing does: the selected conversation is read and was on the screen.
LEMMA DrawnConvos ==
  ASSUME NEW c, Convos(c, shown), shown = [p \in Peers |-> shown[p]], NEW p,
         NEW d, d = mark_read(c, p), NEW sh, sh = Drawn(c, p)
  PROVE  /\ Convos(d, sh) /\ mark_read(d, p) = d /\ sh = [q \in Peers |-> sh[q]]
         /\ p \in known(d) => d[p].unread = 0
<1>1. CASE p \notin known(c)
  BY <1>1 DEF mark_read, Drawn
<1>2. CASE p \in known(c)
  <2>1. p \in Peers /\ c = [q \in known(c) |-> c[q]]
    BY <1>2 DEF Convos
  <2>2. PICK v, w : v = c[p] /\ w = [v EXCEPT !.unread = 0]
    OBVIOUS
  <2>3. d = [c EXCEPT ![p] = w]
    BY <1>2, <2>2 DEF mark_read
  <2>4. /\ known(d) = known(c) /\ d = [q \in known(d) |-> d[q]] /\ d[p] = w
        /\ \A q \in known(c) : q # p => d[q] = c[q]
    BY <1>2, <2>1, <2>3 DEF known
  <2>5. sh = [shown EXCEPT ![p] = Theirs(v)]
    BY <1>2, <2>2 DEF Drawn
  <2>6. /\ sh = [q \in Peers |-> sh[q]] /\ sh[p] = Theirs(v)
        /\ \A q \in Peers : q # p => sh[q] = shown[q]
    BY <2>1, <2>5
  <2>7. Consistent(v, shown[p])
    BY <1>2, <2>2 DEF Convos
  <2>8. Consistent(w, Theirs(v)) /\ w.unread = 0 /\ [w EXCEPT !.unread = 0] = w
    BY <2>2, <2>7, ReadCounts
  <2>9. mark_read(d, p) = d
    <3>1. mark_read(d, p) = [d EXCEPT ![p] = [w EXCEPT !.unread = 0]]
      BY <1>2, <2>4 DEF mark_read
    <3>2. mark_read(d, p) = [d EXCEPT ![p] = w]
      BY <2>8, <3>1
    <3> QED BY <2>4, <3>2
  <2>10. \A q \in known(d) : Consistent(d[q], sh[q])
    BY <2>4, <2>6, <2>8 DEF Convos
  <2>11. Convos(d, sh)
    BY <1>2, <2>4, <2>6, <2>10 DEF Convos
  <2> QED BY <2>4, <2>6, <2>8, <2>9, <2>11
<1> QED BY <1>1, <1>2

\* A drawing of a conversation that counts as read already.
LEMMA DrawnAgain ==
  ASSUME NEW c, Convos(c, shown), shown = [p \in Peers |-> shown[p]], NEW p,
         p \in known(c) => c[p].unread = 0, NEW sh, sh = Drawn(c, p)
  PROVE  Convos(c, sh) /\ sh = [q \in Peers |-> sh[q]]
<1>1. CASE p \notin known(c)
  BY <1>1 DEF Drawn
<1>2. CASE p \in known(c)
  <2>1. p \in Peers
    BY <1>2 DEF Convos
  <2>2. /\ sh = [q \in Peers |-> sh[q]] /\ sh[p] = Theirs(c[p])
        /\ \A q \in Peers : q # p => sh[q] = shown[q]
    BY <1>2, <2>1 DEF Drawn
  <2>3. Consistent(c[p], sh[p])
    BY <1>2, <2>2, ZeroCounts DEF Convos
  <2> QED BY <1>2, <2>2, <2>3 DEF Convos
<1> QED BY <1>1, <1>2

(***************************************************************************)
(* Which conversation is chosen.                                           *)
(***************************************************************************)
LEMMA Chosen ==
  ASSUME NEW c, NEW sh, Convos(c, sh), known(c) # {}
  PROVE  HighestOf(known(c)) \in known(c) /\ \A p : next_peer(c, p) \in known(c)
<1>1. PICK S : S = known(c)
  OBVIOUS
<1>2. S \subseteq Nat /\ S # {} /\ \E m \in Nat : \A p \in S : p <= m
  BY <1>1, ChatAssumption DEF Convos
<1>3. HighestOf(S) \in S
  <2>1. PICK B : B = {m \in Nat : \A p \in S : p <= m}
    OBVIOUS
  <2>2. B \subseteq Nat /\ B # {}
    BY <1>2, <2>1
  <2>3. PICK m \in B : \A y \in B : m <= y
    BY <2>2, LeastNatural
  <2>4. m \in Nat /\ \A p \in S : p <= m
    BY <2>1
  <2>5. m \in S
    <3> SUFFICES ASSUME m \notin S PROVE FALSE
      OBVIOUS
    <3>1. PICK p \in S : p \in Nat
      BY <1>2
    <3>2. \A q \in S : q \in Nat /\ q < m
      BY <1>2, <2>4
    <3>3. m - 1 \in Nat /\ \A q \in S : q <= m - 1
      BY <2>4, <3>1, <3>2
    <3>4. m <= m - 1
      BY <2>1, <2>3, <3>3
    <3> QED BY <2>4, <3>4
  <2>6. \E p \in S : \A q \in S : q <= p
    BY <2>4, <2>5
  <2> QED BY <2>6 DEF HighestOf
<1>4. ASSUME NEW T, T \subseteq Nat, T # {} PROVE LowestOf(T) \in T
  BY <1>4, LeastNatural DEF LowestOf
<1>5. ASSUME NEW p PROVE next_peer(c, p) \in S
  <2>1. PICK later : later = {q \in S : p \in S /\ q > p}
    OBVIOUS
  <2>2. next_peer(c, p) = IF later = {} THEN LowestOf(S) ELSE LowestOf(later)
    BY <1>1, <2>1 DEF next_peer
  <2>3. later \subseteq S /\ later \subseteq Nat
    BY <1>2, <2>1
  <2> QED BY <1>2, <1>4, <2>2, <2>3
<1> QED BY <1>1, <1>3, <1>5

(***************************************************************************)
(* The steps.                                                              *)
(***************************************************************************)
LEMMA ChatInitInv == ChatInit => ChatInv
<1> SUFFICES ASSUME ChatInit PROVE ChatInv
  OBVIOUS
<1>1. known(conversations) = {} /\ conversations = [p \in known(conversations) |-> conversations[p]]
  BY DEF ChatInit, known
<1>2. Convos(conversations, shown)
  BY <1>1 DEF ChatInit, Convos
<1>3. ChatTypes
  BY DEF ChatInit, ChatTypes
<1> QED BY <1>1, <1>2, <1>3 DEF ChatInv, SelectedRead

LEMMA SelectInv ==
  ASSUME ChatInv, NEW p \in Peers, select(p), ui = "loop",
         UNCHANGED <<online, ui, chatCmds, chatEvents, raising, queuedTo, settled, raised>>
  PROVE  ChatInv'
<1>1. Convos(conversations, shown) /\ shown = [q \in Peers |-> shown[q]]
  BY DEF ChatInv, ChatTypes
<1>2. /\ selected' = p /\ conversations' = mark_read(conversations, p)
      /\ shown' = Drawn(conversations, p)
  BY DEF select
<1>3. PICK c, d, sh : c = conversations /\ d = conversations' /\ sh = shown'
  OBVIOUS
<1>4. /\ Convos(d, sh) /\ sh = [q \in Peers |-> sh[q]]
      /\ p \in known(d) => d[p].unread = 0
  BY <1>1, <1>2, <1>3, DrawnConvos
<1>5. Convos(conversations, shown)'
  BY <1>3, <1>4
<1>6. SelectedRead'
  BY <1>2, <1>3, <1>4 DEF SelectedRead
<1>7. ChatTypes'
  BY <1>2, <1>3, <1>4 DEF ChatInv, ChatTypes
<1> QED BY <1>5, <1>6, <1>7 DEF ChatInv

LEMMA UiEventInv ==
  ASSUME ChatInv, UiEvent
  PROVE  ChatInv'
<1>1. Convos(conversations, shown) /\ shown = [q \in Peers |-> shown[q]]
  BY DEF ChatInv, ChatTypes
<1>2. PICK e \in ChatEvents : e = Head(chatEvents)
  BY DEF ChatInv, ChatTypes, UiEvent
<1>3. PICK c : c = on_event(conversations, e)
  OBVIOUS
<1>4. PICK p : p = IF selected = Nobody /\ known(c) # {} THEN HighestOf(known(c)) ELSE selected
  OBVIOUS
<1>5. PICK chosen : chosen = IF p = selected THEN c ELSE mark_read(c, p)
  OBVIOUS
<1>6. /\ selected' = p /\ conversations' = Seen(chosen, p) /\ shown' = Drawn(c, p)
      /\ chatEvents' = Tail(chatEvents)
      /\ UNCHANGED <<ui, chatCmds, raising, queuedTo, settled, raised>> /\ ui = "loop"
  BY <1>2, <1>3, <1>4, <1>5 DEF UiEvent
<1>7. Convos(c, shown)
  BY <1>1, <1>3, EventConvos
<1>8. p \in Peers \cup {Nobody}
  <2>1. known(c) # {} => HighestOf(known(c)) \in Peers
    BY <1>7, Chosen DEF Convos
  <2> QED BY <1>4, <2>1 DEF ChatInv, ChatTypes
<1>9. PICK d, sh : d = mark_read(c, p) /\ sh = Drawn(c, p)
  OBVIOUS
<1>10. /\ Convos(d, sh) /\ mark_read(d, p) = d /\ sh = [q \in Peers |-> sh[q]]
       /\ p \in known(d) => d[p].unread = 0
  BY <1>1, <1>7, <1>9, DrawnConvos
<1>11. conversations' = d
  BY <1>5, <1>6, <1>9, <1>10 DEF Seen
<1>12. Convos(conversations, shown)'
  BY <1>6, <1>9, <1>10, <1>11
<1>13. SelectedRead'
  BY <1>6, <1>10, <1>11 DEF SelectedRead
<1>14. ChatTypes'
  <2>1. chatEvents' \in Seq(ChatEvents)
    BY <1>6 DEF ChatInv, ChatTypes, UiEvent
  <2>2. shown' = [q \in Peers |-> shown'[q]]
    BY <1>6, <1>9, <1>10
  <2>3. ui' # "sending"
    BY <1>6
  <2> QED BY <1>6, <1>8, <2>1, <2>2, <2>3 DEF ChatInv, ChatTypes
<1> QED BY <1>12, <1>13, <1>14 DEF ChatInv

\* The steps of the connection task leave the view alone.
LEMMA RaiseInv ==
  ASSUME ChatInv, NEW e \in ChatEvents, Raise(e), queuedTo' \in Seq(Peers), chatCmds' \in Seq(Peers),
         UNCHANGED <<conversations, selected, ui, chatEvents, shown>>
  PROVE  ChatInv'
<1>1. raising' = <<e>>
  BY DEF Raise
<1>2. ChatTypes'
  BY <1>1 DEF ChatInv, ChatTypes
<1> QED BY <1>2 DEF ChatInv, SelectedRead

LEMMA ChatStep == ChatInv /\ [ChatNext]_chatVars => ChatInv'
<1> SUFFICES ASSUME ChatInv, [ChatNext]_chatVars
             PROVE  ChatInv'
  OBVIOUS
<1>1. CASE PressTab
  <2>1. next_peer(conversations, selected) \in Peers
    BY <1>1, Chosen DEF PressTab, ChatInv, Convos
  <2>2. PICK p \in Peers : p = next_peer(conversations, selected)
    BY <2>1
  <2> QED BY <1>1, <2>2, SelectInv DEF PressTab
<1>2. ASSUME NEW p \in Peers, EnterSwitchTo(p) PROVE ChatInv'
  BY <1>2, SelectInv DEF EnterSwitchTo
<1>3. CASE EnterText
  <2>1. ChatTypes'
    BY <1>3 DEF EnterText, ChatInv, ChatTypes
  <2> QED BY <1>3, <2>1 DEF EnterText, ChatInv, SelectedRead
<1>4. CASE TextSent
  <2>1. PICK c, sh : c = conversations /\ sh = shown'
    OBVIOUS
  <2>2. /\ Convos(c, shown) /\ shown = [q \in Peers |-> shown[q]]
        /\ selected \in known(c) => c[selected].unread = 0
        /\ sh = Drawn(c, selected)
    BY <1>4, <2>1 DEF TextSent, ChatInv, ChatTypes, SelectedRead
  <2>3. Convos(c, sh) /\ sh = [q \in Peers |-> sh[q]]
    BY <2>2, DrawnAgain
  <2>4. /\ ui' = "loop" /\ chatCmds' = Append(chatCmds, selected) /\ selected \in Peers
        /\ UNCHANGED <<conversations, selected, chatEvents, raising, queuedTo>>
    BY <1>4 DEF TextSent, ChatInv, ChatTypes
  <2>5. chatCmds' \in Seq(Peers)
    BY <2>4 DEF ChatInv, ChatTypes
  <2>6. ChatTypes'
    BY <2>1, <2>3, <2>4, <2>5 DEF ChatInv, ChatTypes
  <2> QED BY <2>1, <2>3, <2>4, <2>6 DEF ChatInv, SelectedRead
<1>5. CASE Quit
  <2>1. ChatTypes'
    BY <1>5 DEF Quit, ChatInv, ChatTypes
  <2> QED BY <1>5, <2>1 DEF Quit, ChatInv, SelectedRead
<1>6. CASE UiEvent
  BY <1>6, UiEventInv
<1>7. CASE RaiseSent
  <2>1. PICK e \in ChatEvents : raising = <<e>>
    BY <1>7 DEF RaiseSent, ChatInv, ChatTypes
  <2>2. chatEvents' = Append(chatEvents, e) /\ raising' = <<>>
    BY <1>7, <2>1 DEF RaiseSent
  <2>3. chatEvents' \in Seq(ChatEvents)
    BY <2>2 DEF ChatInv, ChatTypes
  <2>4. ChatTypes'
    BY <1>7, <2>2, <2>3 DEF RaiseSent, ChatInv, ChatTypes
  <2> QED BY <1>7, <2>4 DEF RaiseSent, ChatInv, SelectedRead
<1>8. CASE TaskSends
  <2>1. PICK p \in Peers : p = Head(chatCmds)
    BY <1>8 DEF TaskSends, ChatInv, ChatTypes
  <2>2. PICK e : e = [kind |-> "queued", to |-> p, id |-> Len(queuedTo) + 1]
    OBVIOUS
  <2>3. e \in ChatEvents
    BY <2>2 DEF ChatEvents, ChatInv, ChatTypes
  <2>4. queuedTo' \in Seq(Peers) /\ chatCmds' \in Seq(Peers)
    BY <1>8, <2>1 DEF TaskSends, ChatInv, ChatTypes
  <2>5. Raise(e) /\ UNCHANGED <<conversations, selected, ui, chatEvents, shown>>
    BY <1>8, <2>1, <2>2 DEF TaskSends
  <2> QED BY <2>3, <2>4, <2>5, RaiseInv
<1>9. CASE TaskSettles
  <2>1. PICK n \in 1..Len(queuedTo) :
          Raise([kind |-> "ack", id |-> n]) \/ Raise([kind |-> "failed", id |-> n])
    BY <1>9 DEF TaskSettles
  <2>2. n \in Nat
    BY DEF ChatInv, ChatTypes
  <2>3. PICK e : Raise(e) /\ (e = [kind |-> "ack", id |-> n] \/ e = [kind |-> "failed", id |-> n])
    BY <2>1
  <2>4. e \in ChatEvents
    BY <2>2, <2>3 DEF ChatEvents
  <2> QED BY <1>9, <2>3, <2>4, RaiseInv DEF TaskSettles, ChatInv, ChatTypes
<1>10. CASE TaskReceives
  <2>1. PICK p, q \in Peers, i, j \in 1..MaxTheirs :
          \/ Raise([kind |-> "message", from |-> p, id |-> i])
          \/ Raise([kind |-> "batch", from |-> p, id |-> i, from2 |-> q, id2 |-> j])
    BY <1>10 DEF TaskReceives
  <2>2. i \in Nat /\ j \in Nat
    BY ChatAssumption
  <2>3. PICK e : /\ Raise(e)
                 /\ \/ e = [kind |-> "message", from |-> p, id |-> i]
                    \/ e = [kind |-> "batch", from |-> p, id |-> i, from2 |-> q, id2 |-> j]
    BY <2>1
  <2>4. e \in ChatEvents
    BY <2>2, <2>3 DEF ChatEvents
  <2> QED BY <1>10, <2>3, <2>4, RaiseInv DEF TaskReceives, ChatInv, ChatTypes
<1>11. CASE TaskConnects
  <2>1. PICK k \in {"connected", "disconnected", "rejected"} : Raise([kind |-> k])
    BY <1>11 DEF TaskConnects
  <2>2. PICK e : Raise(e) /\ e = [kind |-> k]
    BY <2>1
  <2>3. e \in ChatEvents
    BY <2>2 DEF ChatEvents
  <2> QED BY <1>11, <2>2, <2>3, RaiseInv DEF TaskConnects, ChatInv, ChatTypes
<1>12. CASE UNCHANGED chatVars
  <2>1. ChatTypes'
    BY <1>12 DEF chatVars, ChatInv, ChatTypes
  <2> QED BY <1>12, <2>1 DEF chatVars, ChatInv, SelectedRead
<1> QED BY <1>1, <1>2, <1>3, <1>4, <1>5, <1>6, <1>7, <1>8, <1>9, <1>10, <1>11, <1>12
    DEF ChatNext

(***************************************************************************)
(* The count of a conversation is what was not on the screen (chat.rs      *)
(* accept_incoming, mark_read; tui.rs ui_loop).                            *)
(***************************************************************************)
THEOREM UnreadAlwaysExact == ChatSpec => []UnreadExact
<1>1. ChatInv => UnreadExact
  BY DEF ChatInv, Convos, Consistent, UnreadExact, TheirPlaces
<1> QED BY ChatInitInv, ChatStep, <1>1, PTL DEF ChatSpec

(***************************************************************************)
(* The weak link.                                                          *)
(***************************************************************************)
HeapItems == [ready : Nat, seq : Nat, frame : Nat]

LinkTypes ==
  /\ jitter \in Nat /\ clock \in Nat
  /\ seen \in [LinkDirs -> Nat]
  /\ holding \in [LinkDirs -> {<<>>} \cup (Nat \X Nat)]
  /\ inTask \in [LinkDirs -> {"run", "done"}]
  /\ outTask \in [LinkDirs -> {"run", "done", "broken"}]
  /\ channel \in [LinkDirs -> Seq(Nat \X Nat)]
  /\ heap \in [LinkDirs -> SUBSET HeapItems]
  /\ enqueued \in [LinkDirs -> Nat]
  /\ dropped \in [LinkDirs -> SUBSET Nat]
  /\ forwarded \in [LinkDirs -> Seq(Nat)]

\* The frames of direction d that are under way, each with its time.
Pending(d) ==
  (IF holding[d] = <<>> THEN {} ELSE {holding[d]})
  \cup {channel[d][i] : i \in 1..Len(channel[d])}
  \cup {<<x.frame, x.ready>> : x \in heap[d]}

(***************************************************************************)
(* A frame that was seen is under way, written, or dropped on purpose;     *)
(* nothing is under way once the direction has ended.                      *)
(***************************************************************************)
Flow(d) ==
  /\ dropped[d] \subseteq 1..seen[d] /\ Written(d) \subseteq 1..seen[d]
  /\ \A x \in Pending(d) : x[1] \in 1..seen[d]
  /\ outTask[d] # "broken" =>
       \A n \in 1..seen[d] : n \notin dropped[d] => n \in Written(d) \/ \E x \in Pending(d) : x[1] = n
  /\ Written(d) \cap dropped[d] = {} /\ \A x \in Pending(d) : x[1] \notin dropped[d]
  /\ inTask[d] = "done" => holding[d] = <<>>
  /\ outTask[d] = "done" => Pending(d) = {} /\ inTask[d] = "done"

(***************************************************************************)
(* Frames pass from the reader to the channel, to the heap and out in the  *)
(* order of their numbers; without jitter so do their times.               *)
(***************************************************************************)
LinkOrdered(d) ==
  /\ \A x \in Pending(d) : x[2] <= clock + Delay
  /\ \A x, y \in Pending(d) : x[1] <= y[1] => x[2] <= y[2]
  /\ \A i, j \in 1..Len(channel[d]) : i < j => channel[d][i][1] < channel[d][j][1]
  /\ holding[d] # <<>> =>
       /\ \A i \in 1..Len(channel[d]) : channel[d][i][1] < holding[d][1]
       /\ \A a \in heap[d] : a.frame < holding[d][1]
  /\ \A a \in heap[d] : a.seq <= enqueued[d] /\ \A i \in 1..Len(channel[d]) : a.frame < channel[d][i][1]
  /\ \A a, b \in heap[d] : a.seq = b.seq => a = b
  /\ \A a, b \in heap[d] : a.seq < b.seq => a.frame < b.frame
  /\ \A i \in 1..Len(forwarded[d]) : \A x \in Pending(d) : forwarded[d][i] < x[1]
  /\ \A i, j \in 1..Len(forwarded[d]) : i < j => forwarded[d][i] < forwarded[d][j]

LinkInv == LinkTypes /\ \A d \in LinkDirs : Flow(d) /\ (jitter = 0 => LinkOrdered(d))

LEMMA LinkInitInv == LinkInit => LinkInv
<1> SUFFICES ASSUME LinkInit PROVE LinkInv
  OBVIOUS
<1>1. LinkTypes
  BY WeakLinkAssumption DEF LinkInit, LinkTypes, HeapItems
<1>2. ASSUME NEW d \in LinkDirs PROVE Flow(d) /\ LinkOrdered(d)
  <2>1. /\ seen[d] = 0 /\ holding[d] = <<>> /\ channel[d] = <<>> /\ heap[d] = {}
        /\ dropped[d] = {} /\ forwarded[d] = <<>> /\ inTask[d] = "run" /\ outTask[d] = "run"
    BY DEF LinkInit
  <2>2. Pending(d) = {} /\ Written(d) = {} /\ Len(channel[d]) = 0 /\ Len(forwarded[d]) = 0
    BY <2>1 DEF Pending, Written
  <2> QED BY <2>1, <2>2 DEF Flow, LinkOrdered
<1> QED BY <1>1, <1>2 DEF LinkInv

\* A direction that a step leaves alone stays as it is.
\* The numbers and the times of what is under way.
LEMMA PendingTimes ==
  ASSUME LinkInv, NEW d \in LinkDirs
  PROVE  \A x \in Pending(d) : x[1] \in 1..seen[d] /\ x[2] \in Nat
<1>1. /\ holding[d] \in {<<>>} \cup (Nat \X Nat) /\ channel[d] \in Seq(Nat \X Nat)
      /\ heap[d] \subseteq HeapItems
  BY DEF LinkInv, LinkTypes
<1>2. holding[d] # <<>> => holding[d][2] \in Nat
  BY <1>1
<1>3. \A i \in 1..Len(channel[d]) : channel[d][i][2] \in Nat
  BY <1>1
<1>4. \A a \in heap[d] : <<a.frame, a.ready>>[2] \in Nat
  BY <1>1 DEF HeapItems
<1>5. \A x \in Pending(d) : x[2] \in Nat
  BY <1>2, <1>3, <1>4 DEF Pending
<1>6. \A x \in Pending(d) : x[1] \in 1..seen[d]
  BY DEF LinkInv, Flow
<1> QED BY <1>5, <1>6

LEMMA LinkSame ==
  ASSUME LinkInv, NEW d \in LinkDirs, LinkTypes', jitter' = jitter, clock <= clock',
         seen'[d] = seen[d], holding'[d] = holding[d], inTask'[d] = inTask[d],
         outTask'[d] = outTask[d], channel'[d] = channel[d], heap'[d] = heap[d],
         enqueued'[d] = enqueued[d], dropped'[d] = dropped[d], forwarded'[d] = forwarded[d]
  PROVE  Flow(d)' /\ (jitter = 0 => LinkOrdered(d))'
<1>1. Pending(d)' = Pending(d) /\ Written(d)' = Written(d)
  BY DEF Pending, Written
<1>2. Flow(d)'
  BY <1>1 DEF Flow, LinkInv
<1>3. jitter = 0 => LinkOrdered(d)'
  <2>1. \A x \in Pending(d) : x[2] \in Nat
    BY PendingTimes
  <2>2. clock \in Nat /\ clock' \in Nat /\ Delay \in Nat
    BY WeakLinkAssumption DEF LinkInv, LinkTypes
  <2>3. jitter = 0 => \A x \in Pending(d) : x[2] <= clock' + Delay
    BY <2>1, <2>2 DEF LinkOrdered, LinkInv
  <2> QED BY <1>1, <2>3 DEF LinkOrdered, LinkInv
<1> QED BY <1>2, <1>3

LEMMA PumpReadInv ==
  ASSUME LinkInv, NEW d \in LinkDirs, PumpRead(d)
  PROVE  LinkTypes' /\ Flow(d)' /\ (jitter = 0 => LinkOrdered(d))'
<1>0. PICK extra \in below(jitter) :
        holding' = [holding EXCEPT ![d] = <<seen[d] + 1, clock + Delay + extra>>]
  BY DEF PumpRead
<1>1. PICK new : /\ new = <<seen[d] + 1, clock + Delay + extra>>
                 /\ holding' = [holding EXCEPT ![d] = new]
  BY <1>0
<1>2. extra \in Nat /\ (jitter = 0 => extra = 0)
  BY DEF below, LinkInv, LinkTypes
<1>3. seen' = [seen EXCEPT ![d] = @ + 1] /\ holding[d] = <<>> /\ inTask[d] = "run"
      /\ UNCHANGED <<jitter, clock, lossy, open, inTask, outTask, channel, heap, enqueued,
                     dropped, forwarded>>
  BY DEF PumpRead
<1>4. /\ seen[d] \in Nat /\ clock \in Nat /\ Delay \in Nat
      /\ new \in Nat \X Nat /\ new[1] = seen[d] + 1 /\ new[2] = clock + Delay + extra
      /\ new # <<>>
  BY <1>1, <1>2, WeakLinkAssumption DEF LinkInv, LinkTypes
<1>5. holding'[d] = new /\ seen'[d] = seen[d] + 1
  BY <1>1, <1>3 DEF LinkInv, LinkTypes
<1>6. LinkTypes'
  BY <1>1, <1>3, <1>4 DEF LinkInv, LinkTypes
<1>7. Pending(d)' = Pending(d) \cup {new} /\ Written(d)' = Written(d)
  BY <1>3, <1>4, <1>5 DEF Pending, Written
<1>8. \A x \in Pending(d) : x[1] \in Nat /\ x[2] \in Nat /\ x[1] < new[1]
  <2>1. \A x \in Pending(d) : x[1] \in 1..seen[d] /\ x[2] \in Nat
    BY PendingTimes
  <2> QED BY <1>4, <2>1
<1>9. Flow(d)'
  <2>1. Flow(d)
    BY DEF LinkInv
  <2>2. dropped'[d] = dropped[d] /\ outTask'[d] = outTask[d] /\ inTask'[d] = inTask[d]
    BY <1>3
  <2>3. 1..(seen[d] + 1) = 1..seen[d] \cup {seen[d] + 1} /\ seen[d] + 1 \notin 1..seen[d]
    BY <1>4
  <2>4. seen[d] + 1 \notin dropped[d]
    BY <2>1, <2>3 DEF Flow
  <2>5. 1..seen'[d] = 1..seen[d] \cup {new[1]}
    BY <1>4, <1>5, <2>3
  <2>6. outTask[d] # "done"
    BY <1>3, <2>1 DEF Flow
  <2> QED BY <1>3, <1>4, <1>7, <2>1, <2>2, <2>4, <2>5, <2>6 DEF Flow
<1>10. ASSUME jitter = 0 PROVE LinkOrdered(d)'
  <2>1. LinkOrdered(d)
    BY <1>10 DEF LinkInv
  <2>2. channel'[d] = channel[d] /\ heap'[d] = heap[d] /\ forwarded'[d] = forwarded[d]
        /\ enqueued'[d] = enqueued[d] /\ clock' = clock
    BY <1>3
  <2>3. new[2] = clock + Delay
    BY <1>2, <1>4, <1>10
  <2>4. \A x \in Pending(d)' : x[2] <= clock' + Delay
    BY <1>4, <1>7, <2>1, <2>2, <2>3 DEF LinkOrdered
  <2>5. \A x, y \in Pending(d)' : x[1] <= y[1] => x[2] <= y[2]
    <3>1. \A x \in Pending(d) : x[2] <= new[2] /\ ~(new[1] <= x[1])
      BY <1>4, <1>8, <2>1, <2>3 DEF LinkOrdered
    <3>2. new[2] <= new[2]
      BY <1>4, <2>3
    <3> QED BY <1>7, <2>1, <3>1, <3>2 DEF LinkOrdered
  <2>6. /\ \A i \in 1..Len(channel[d]) : channel[d][i][1] < new[1]
        /\ \A a \in heap[d] : a.frame < new[1]
    <3>1. \A i \in 1..Len(channel[d]) : channel[d][i] \in Pending(d)
      BY DEF Pending
    <3>2. \A a \in heap[d] : <<a.frame, a.ready>> \in Pending(d)
      BY DEF Pending
    <3> QED BY <1>8, <3>1, <3>2
  <2>7. \A i \in 1..Len(forwarded[d]) : forwarded[d][i] < new[1]
    <3>1. \A i \in 1..Len(forwarded[d]) : forwarded[d][i] \in 1..seen[d]
      BY DEF Flow, Written, LinkInv
    <3> QED BY <1>4, <3>1
  <2> QED BY <1>5, <1>7, <2>1, <2>2, <2>4, <2>5, <2>6, <2>7 DEF LinkOrdered
<1> QED BY <1>3, <1>6, <1>9, <1>10

LEMMA PumpDropInv ==
  ASSUME LinkInv, NEW d \in LinkDirs, PumpDrop(d)
  PROVE  LinkTypes' /\ Flow(d)' /\ (jitter = 0 => LinkOrdered(d))'
<1>1. /\ seen' = [seen EXCEPT ![d] = @ + 1]
      /\ dropped' = [dropped EXCEPT ![d] = @ \cup {seen[d] + 1}]
      /\ UNCHANGED <<jitter, clock, lossy, open, holding, inTask, outTask, channel, heap,
                     enqueued, forwarded>>
  BY DEF PumpDrop
<1>2. seen[d] \in Nat /\ seen'[d] = seen[d] + 1 /\ dropped'[d] = dropped[d] \cup {seen[d] + 1}
  BY <1>1 DEF LinkInv, LinkTypes
<1>3. LinkTypes'
  BY <1>1, <1>2 DEF LinkInv, LinkTypes
<1>4. Pending(d)' = Pending(d) /\ Written(d)' = Written(d)
  BY <1>1 DEF Pending, Written
<1>5. 1..(seen[d] + 1) = 1..seen[d] \cup {seen[d] + 1} /\ seen[d] + 1 \notin 1..seen[d]
  BY <1>2
<1>6. Flow(d)'
  <2>1. Flow(d)
    BY DEF LinkInv
  <2>2. 1..seen'[d] = 1..seen[d] \cup {seen[d] + 1}
    BY <1>2, <1>5
  <2>3. UNCHANGED <<inTask[d], outTask[d], holding[d]>>
    BY <1>1
  <2> QED BY <1>2, <1>4, <1>5, <2>1, <2>2, <2>3 DEF Flow
<1>7. jitter = 0 => LinkOrdered(d)'
  BY <1>1, <1>4 DEF LinkOrdered, LinkInv
<1> QED BY <1>1, <1>3, <1>6, <1>7

LEMMA PumpEofInv ==
  ASSUME LinkInv, NEW d \in LinkDirs, PumpEof(d)
  PROVE  LinkTypes' /\ Flow(d)' /\ (jitter = 0 => LinkOrdered(d))'
<1>1. /\ inTask' = [inTask EXCEPT ![d] = "done"] /\ holding[d] = <<>>
      /\ UNCHANGED <<jitter, clock, lossy, open, seen, holding, outTask, channel, heap,
                     enqueued, dropped, forwarded>>
  BY DEF PumpEof
<1>2. LinkTypes' /\ inTask'[d] = "done"
  BY <1>1 DEF LinkInv, LinkTypes
<1>3. Pending(d)' = Pending(d) /\ Written(d)' = Written(d)
  BY <1>1 DEF Pending, Written
<1>4. Flow(d)'
  BY <1>1, <1>2, <1>3 DEF Flow, LinkInv
<1>5. jitter = 0 => LinkOrdered(d)'
  BY <1>1, <1>3 DEF LinkOrdered, LinkInv
<1> QED BY <1>1, <1>2, <1>4, <1>5

LEMMA PumpReturnsInv ==
  ASSUME LinkInv, NEW d \in LinkDirs, PumpReturns(d)
  PROVE  LinkTypes' /\ Flow(d)' /\ (jitter = 0 => LinkOrdered(d))'
<1>1. /\ outTask' = [outTask EXCEPT ![d] = "done"] /\ outTask[d] = "run"
      /\ inTask[d] = "done" /\ channel[d] = <<>> /\ heap[d] = {}
      /\ UNCHANGED <<jitter, clock, lossy, open, seen, holding, inTask, channel, heap,
                     enqueued, dropped, forwarded>>
  BY DEF PumpReturns
<1>2. LinkTypes' /\ outTask'[d] = "done"
  BY <1>1 DEF LinkInv, LinkTypes
<1>3. Pending(d)' = Pending(d) /\ Written(d)' = Written(d)
  BY <1>1 DEF Pending, Written
<1>4. Pending(d) = {}
  BY <1>1 DEF Pending, Flow, LinkInv
<1>5. Flow(d)'
  BY <1>1, <1>2, <1>3, <1>4 DEF Flow, LinkInv
<1>6. jitter = 0 => LinkOrdered(d)'
  BY <1>1, <1>3 DEF LinkOrdered, LinkInv
<1> QED BY <1>1, <1>2, <1>5, <1>6

LEMMA PumpSendInv ==
  ASSUME LinkInv, NEW d \in LinkDirs, PumpSend(d)
  PROVE  LinkTypes' /\ Flow(d)' /\ (jitter = 0 => LinkOrdered(d))'
<1>1. /\ inTask[d] = "run" /\ holding[d] # <<>>
      /\ holding' = [holding EXCEPT ![d] = <<>>]
      /\ UNCHANGED <<jitter, clock, lossy, open, seen, outTask, heap, enqueued, dropped,
                     forwarded>>
  BY DEF PumpSend
<1>2. PICK x \in Nat \X Nat : x = holding[d]
  BY <1>1 DEF LinkInv, LinkTypes
<1>3. holding'[d] = <<>> /\ Written(d)' = Written(d)
  BY <1>1 DEF LinkInv, LinkTypes, Written
<1>4. x \in Pending(d) /\ x # <<>> /\ Flow(d)
  BY <1>1, <1>2 DEF Pending, LinkInv
<1>5. CASE outTask[d] # "run"
  <2>1. inTask' = [inTask EXCEPT ![d] = "done"] /\ channel' = channel
    BY <1>5 DEF PumpSend
  <2>2. LinkTypes' /\ inTask'[d] = "done"
    BY <1>1, <2>1 DEF LinkInv, LinkTypes
  <2>3. outTask[d] = "broken"
    BY <1>4, <1>5 DEF Flow, LinkInv, LinkTypes
  <2>4. Pending(d)' \subseteq Pending(d)
    BY <1>1, <1>3, <2>1 DEF Pending
  <2>5. Flow(d)'
    BY <1>1, <1>3, <1>4, <2>2, <2>3, <2>4 DEF Flow
  <2>6. jitter = 0 => LinkOrdered(d)'
    BY <1>1, <1>3, <2>1, <2>4 DEF LinkOrdered, LinkInv
  <2> QED BY <1>1, <2>2, <2>5, <2>6
<1>6. CASE outTask[d] = "run"
  <2>1. channel' = [channel EXCEPT ![d] = Append(@, x)] /\ inTask' = inTask
    BY <1>2, <1>6 DEF PumpSend
  <2>2. channel[d] \in Seq(Nat \X Nat)
    BY DEF LinkInv, LinkTypes
  <2>3. /\ channel'[d] = Append(channel[d], x) /\ Len(channel[d]) \in Nat
        /\ channel' \in [LinkDirs -> Seq(Nat \X Nat)]
    BY <2>1, <2>2 DEF LinkInv, LinkTypes
  <2>4. /\ Len(channel'[d]) = Len(channel[d]) + 1
        /\ \A i \in 1..Len(channel[d]) : i \in 1..Len(channel'[d]) /\ channel'[d][i] = channel[d][i]
        /\ Len(channel[d]) + 1 \in 1..Len(channel'[d]) /\ channel'[d][Len(channel[d]) + 1] = x
        /\ \A i \in 1..Len(channel'[d]) : i \in 1..Len(channel[d]) \/ i = Len(channel[d]) + 1
    <3>1. PICK q \in Seq(Nat \X Nat) : q = channel[d]
      BY <2>2
    <3>2. /\ Len(Append(q, x)) = Len(q) + 1
          /\ \A i \in 1..Len(q) : i \in 1..Len(Append(q, x)) /\ Append(q, x)[i] = q[i]
          /\ Len(q) + 1 \in 1..Len(Append(q, x)) /\ Append(q, x)[Len(q) + 1] = x
          /\ \A i \in 1..Len(Append(q, x)) : i \in 1..Len(q) \/ i = Len(q) + 1
      BY <1>2, AppendExtends
    <3> QED BY <2>3, <3>1, <3>2
  <2>5. LinkTypes'
    BY <1>1, <2>1, <2>3 DEF LinkInv, LinkTypes
  <2>7. {channel'[d][i] : i \in 1..Len(channel'[d])} = {channel[d][i] : i \in 1..Len(channel[d])} \cup {x}
    <3>1. ASSUME NEW i \in 1..Len(channel'[d])
          PROVE  channel'[d][i] \in {channel[d][j] : j \in 1..Len(channel[d])} \cup {x}
      BY <2>4
    <3>2. ASSUME NEW i \in 1..Len(channel[d])
          PROVE  channel[d][i] \in {channel'[d][j] : j \in 1..Len(channel'[d])}
      BY <2>4
    <3>3. x \in {channel'[d][j] : j \in 1..Len(channel'[d])}
      BY <2>4
    <3> QED BY <3>1, <3>2, <3>3
  <2>8. Pending(d)' = Pending(d)
    BY <1>1, <1>2, <1>3, <2>7 DEF Pending
  <2>9. Flow(d)'
    BY <1>1, <1>3, <1>4, <2>1, <2>8 DEF Flow
  <2>10. ASSUME jitter = 0 PROVE LinkOrdered(d)'
    <3>1. LinkOrdered(d)
      BY <2>10 DEF LinkInv
    <3>2. \A i, j \in 1..Len(channel'[d]) : i < j => channel'[d][i][1] < channel'[d][j][1]
      <4> SUFFICES ASSUME NEW i \in 1..Len(channel'[d]), NEW j \in 1..Len(channel'[d]), i < j
                   PROVE  channel'[d][i][1] < channel'[d][j][1]
        OBVIOUS
      <4>1. i \in 1..Len(channel[d])
        BY <2>3, <2>4
      <4>2. \A h \in 1..Len(channel[d]) : channel[d][h][1] < x[1]
        BY <1>1, <1>2, <3>1 DEF LinkOrdered
      <4>3. j \in 1..Len(channel[d]) => channel[d][i][1] < channel[d][j][1]
        BY <3>1, <4>1 DEF LinkOrdered
      <4> QED BY <2>4, <4>1, <4>2, <4>3
    <3>3. \A a \in heap[d] : \A i \in 1..Len(channel'[d]) : a.frame < channel'[d][i][1]
      BY <1>1, <1>2, <2>4, <3>1 DEF LinkOrdered
    <3> QED BY <1>1, <1>3, <2>8, <3>1, <3>2, <3>3 DEF LinkOrdered
  <2> QED BY <1>1, <2>5, <2>9, <2>10
<1> QED BY <1>5, <1>6

LEMMA PumpTakeInv ==
  ASSUME LinkInv, NEW d \in LinkDirs, PumpTake(d)
  PROVE  LinkTypes' /\ Flow(d)' /\ (jitter = 0 => LinkOrdered(d))'
<1>1. /\ channel[d] # <<>>
      /\ enqueued' = [enqueued EXCEPT ![d] = @ + 1]
      /\ channel' = [channel EXCEPT ![d] = Tail(@)]
      /\ UNCHANGED <<jitter, clock, lossy, open, seen, holding, inTask, outTask, dropped,
                     forwarded>>
  BY DEF PumpTake
<1>2. PICK h \in Nat \X Nat : h = Head(channel[d])
  BY <1>1 DEF LinkInv, LinkTypes
<1>3. PICK new : new = [ready |-> h[2], seq |-> enqueued[d] + 1, frame |-> h[1]]
  OBVIOUS
<1>4. heap' = [heap EXCEPT ![d] = @ \cup {new}]
  BY <1>2, <1>3 DEF PumpTake
<1>5. channel[d] \in Seq(Nat \X Nat) /\ enqueued[d] \in Nat /\ heap[d] \subseteq HeapItems
  BY DEF LinkInv, LinkTypes
<1>6. new \in HeapItems /\ new.ready = h[2] /\ new.frame = h[1] /\ new.seq = enqueued[d] + 1
  BY <1>3, <1>5 DEF HeapItems
<1>7. /\ channel'[d] = Tail(channel[d]) /\ heap'[d] = heap[d] \cup {new}
      /\ enqueued'[d] = enqueued[d] + 1
  BY <1>1, <1>4 DEF LinkInv, LinkTypes
<1>8. /\ Len(channel[d]) \in Nat /\ Len(channel[d]) >= 1 /\ channel'[d] \in Seq(Nat \X Nat)
      /\ channel[d][1] = h /\ 1 \in 1..Len(channel[d])
      /\ \A i \in 1..Len(channel'[d]) :
           i \in Nat /\ i >= 1 /\ i + 1 \in 1..Len(channel[d]) /\ channel'[d][i] = channel[d][i + 1]
      /\ \A i \in 1..Len(channel[d]) : i = 1 \/ \E j \in 1..Len(channel'[d]) : i = j + 1
  <2>1. /\ Len(channel[d]) \in Nat /\ Len(channel[d]) >= 1 /\ channel'[d] \in Seq(Nat \X Nat)
        /\ channel[d][1] = h
        /\ \A i \in 1..Len(channel'[d]) : i + 1 \in 1..Len(channel[d]) /\ channel'[d][i] = channel[d][i + 1]
        /\ \A i \in 1..Len(channel[d]) : i = 1 \/ \E j \in 1..Len(channel'[d]) : i = j + 1
    <3>1. PICK q \in Seq(Nat \X Nat) : q = channel[d]
      BY <1>5
    <3>2. q # <<>> /\ h = Head(q) /\ channel'[d] = Tail(q)
      BY <1>1, <1>2, <1>7, <3>1
    <3>3. /\ Len(q) \in Nat /\ Len(q) >= 1 /\ Tail(q) \in Seq(Nat \X Nat) /\ Head(q) = q[1]
          /\ \A i \in 1..Len(Tail(q)) : i + 1 \in 1..Len(q) /\ Tail(q)[i] = q[i + 1]
          /\ \A i \in 1..Len(q) : i = 1 \/ \E j \in 1..Len(Tail(q)) : i = j + 1
      BY <3>2, TailShifts
    <3> QED BY <3>1, <3>2, <3>3
  <2>2. 1 \in 1..Len(channel[d]) /\ \A i \in 1..Len(channel'[d]) : i \in Nat /\ i >= 1
    BY <2>1
  <2> QED BY <2>1, <2>2
<1>9. LinkTypes'
  <2>1. channel' \in [LinkDirs -> Seq(Nat \X Nat)]
    BY <1>1, <1>7, <1>8 DEF LinkInv, LinkTypes
  <2>2. heap' \in [LinkDirs -> SUBSET HeapItems]
    BY <1>4, <1>5, <1>6 DEF LinkInv, LinkTypes
  <2>3. enqueued' \in [LinkDirs -> Nat]
    BY <1>1, <1>5 DEF LinkInv, LinkTypes
  <2>4. LinkTypes
    BY DEF LinkInv
  <2> QED BY <1>1, <2>1, <2>2, <2>3, <2>4 DEF LinkTypes
<1>11. {channel[d][i] : i \in 1..Len(channel[d])} = {channel'[d][i] : i \in 1..Len(channel'[d])} \cup {h}
  <2>1. ASSUME NEW i \in 1..Len(channel[d])
        PROVE  channel[d][i] = h \/ \E j \in 1..Len(channel'[d]) : channel[d][i] = channel'[d][j]
    BY <1>8
  <2>2. ASSUME NEW j \in 1..Len(channel'[d])
        PROVE  \E i \in 1..Len(channel[d]) : channel'[d][j] = channel[d][i]
    BY <1>8
  <2>3. h = channel[d][1] /\ 1 \in 1..Len(channel[d])
    BY <1>8
  <2>4. ASSUME NEW y \in {channel[d][i] : i \in 1..Len(channel[d])}
        PROVE  y \in {channel'[d][i] : i \in 1..Len(channel'[d])} \cup {h}
    BY <2>1
  <2>5. ASSUME NEW y \in {channel'[d][i] : i \in 1..Len(channel'[d])} \cup {h}
        PROVE  y \in {channel[d][i] : i \in 1..Len(channel[d])}
    BY <2>2, <2>3
  <2> QED BY <2>4, <2>5
<1>12. {<<x.frame, x.ready>> : x \in heap'[d]} = {<<x.frame, x.ready>> : x \in heap[d]} \cup {h}
  <2>1. h = <<new.frame, new.ready>>
    BY <1>6
  <2> QED BY <1>7, <2>1
<1>13. Pending(d)' = Pending(d) /\ Written(d)' = Written(d)
  BY <1>1, <1>11, <1>12 DEF Pending, Written
<1>14. Flow(d)'
  BY <1>1, <1>13 DEF Flow, LinkInv
<1>15. ASSUME jitter = 0 PROVE LinkOrdered(d)'
  <2>1. LinkOrdered(d)
    BY <1>15 DEF LinkInv
  <2>2. \A i, j \in 1..Len(channel'[d]) : i < j => channel'[d][i][1] < channel'[d][j][1]
    <3> SUFFICES ASSUME NEW i \in 1..Len(channel'[d]), NEW j \in 1..Len(channel'[d]), i < j
                 PROVE  channel'[d][i][1] < channel'[d][j][1]
      OBVIOUS
    <3>1. i + 1 < j + 1
      BY <1>8
    <3> QED BY <1>8, <2>1, <3>1 DEF LinkOrdered
  <2>3. \A i \in 1..Len(channel'[d]) : h[1] < channel'[d][i][1]
    <3> SUFFICES ASSUME NEW i \in 1..Len(channel'[d]) PROVE h[1] < channel'[d][i][1]
      OBVIOUS
    <3>1. 1 < i + 1 /\ 1 \in 1..Len(channel[d]) /\ i + 1 \in 1..Len(channel[d])
      BY <1>8
    <3>2. channel[d][1][1] < channel[d][i + 1][1]
      BY <2>1, <3>1 DEF LinkOrdered
    <3> QED BY <1>8, <3>2
  <2>4. \A a \in heap[d] : a.seq < new.seq /\ a.frame < new.frame
    <3> SUFFICES ASSUME NEW a \in heap[d] PROVE a.seq < new.seq /\ a.frame < new.frame
      OBVIOUS
    <3>1. a.seq \in Nat /\ a.frame \in Nat
      BY <1>5 DEF HeapItems
    <3>2. a.seq <= enqueued[d] /\ a.frame < channel[d][1][1]
      BY <1>8, <2>1 DEF LinkOrdered
    <3>3. a.frame < new.frame
      BY <1>6, <1>8, <3>2
    <3>4. a.seq < new.seq
      BY <1>5, <1>6, <3>1, <3>2
    <3> QED BY <3>3, <3>4
  <2>5. \A a \in heap'[d] :
           a.seq <= enqueued'[d] /\ \A i \in 1..Len(channel'[d]) : a.frame < channel'[d][i][1]
    <3>1. ASSUME NEW a \in heap[d] PROVE a.seq <= enqueued[d] + 1
      BY <1>5, <2>1 DEF LinkOrdered, HeapItems
    <3>2. ASSUME NEW a \in heap[d], NEW i \in 1..Len(channel'[d]) PROVE a.frame < channel'[d][i][1]
      BY <1>8, <2>1 DEF LinkOrdered
    <3>3. new.seq <= enqueued[d] + 1
      BY <1>5, <1>6
    <3> QED BY <1>6, <1>7, <2>3, <3>1, <3>2, <3>3
  <2>6. /\ \A a, b \in heap'[d] : a.seq = b.seq => a = b
        /\ \A a, b \in heap'[d] : a.seq < b.seq => a.frame < b.frame
    <3>1. \A a \in heap[d] : a.seq \in Nat /\ a.frame \in Nat
      BY <1>5 DEF HeapItems
    <3>2. /\ \A a, b \in heap[d] : a.seq = b.seq => a = b
          /\ \A a, b \in heap[d] : a.seq < b.seq => a.frame < b.frame
      BY <2>1 DEF LinkOrdered
    <3>3. new.seq \in Nat /\ new.frame \in Nat
      BY <1>6 DEF HeapItems
    <3>4. \A a \in heap[d] : a.seq # new.seq /\ ~(new.seq < a.seq)
      BY <2>4, <3>1, <3>3
    <3>5. \A a \in heap'[d] : a \in heap[d] \/ a = new
      BY <1>7
    <3>6. \A a, b \in heap'[d] : a.seq = b.seq => a = b
      BY <3>2, <3>4, <3>5
    <3>7. \A a, b \in heap'[d] : a.seq < b.seq => a.frame < b.frame
      BY <2>4, <3>2, <3>3, <3>4, <3>5
    <3> QED BY <3>6, <3>7
  <2>7. holding[d] # <<>> =>
          /\ \A i \in 1..Len(channel'[d]) : channel'[d][i][1] < holding[d][1]
          /\ \A a \in heap'[d] : a.frame < holding[d][1]
    BY <1>6, <1>7, <1>8, <2>1 DEF LinkOrdered
  <2> QED BY <1>1, <1>13, <2>1, <2>2, <2>5, <2>6, <2>7 DEF LinkOrdered
<1> QED BY <1>1, <1>9, <1>14, <1>15

LEMMA PumpWriteInv ==
  ASSUME LinkInv, NEW d \in LinkDirs, PumpWrite(d)
  PROVE  LinkTypes' /\ Flow(d)' /\ (jitter = 0 => LinkOrdered(d))'
<1>1. PICK top \in heap[d] :
        /\ \A other \in heap[d] : Precedes(top, other)
        /\ heap' = [heap EXCEPT ![d] = @ \ {top}]
        /\ \/ forwarded' = [forwarded EXCEPT ![d] = Append(@, top.frame)] /\ outTask' = outTask
           \/ outTask' = [outTask EXCEPT ![d] = "broken"] /\ forwarded' = forwarded
  BY DEF PumpWrite
<1>2. /\ outTask[d] = "run"
      /\ UNCHANGED <<jitter, clock, lossy, open, seen, holding, inTask, channel, enqueued,
                     dropped>>
  BY DEF PumpWrite
<1>3. PICK frame, pair : frame = top.frame /\ pair = <<top.frame, top.ready>>
  OBVIOUS
<1>4. heap[d] \subseteq HeapItems /\ heap'[d] = heap[d] \ {top} /\ frame \in Nat
      /\ pair \in Pending(d) /\ pair[1] = frame
  BY <1>1, <1>3 DEF LinkInv, LinkTypes, HeapItems, Pending
<1>5. Pending(d)' \subseteq Pending(d) /\ Pending(d) \subseteq Pending(d)' \cup {pair}
  BY <1>2, <1>3, <1>4 DEF Pending
<1>6. Flow(d)
  BY DEF LinkInv
<1>7. ASSUME jitter = 0
      PROVE  \A x \in Pending(d)' : frame < x[1]
  <2>1. LinkOrdered(d)
    BY <1>7 DEF LinkInv
  <2>2. ASSUME NEW b \in heap[d] \ {top} PROVE frame < b.frame
    <3>1. b.seq # top.seq
      BY <2>1 DEF LinkOrdered
    <3>2. Precedes(top, b)
      BY <1>1
    <3>3. /\ b.seq \in Nat /\ b.ready \in Nat /\ b.frame \in Nat
          /\ top.seq \in Nat /\ top.ready \in Nat /\ top.frame \in Nat
      BY <1>4 DEF HeapItems
    <3>4. b.seq < top.seq => b.frame < top.frame
      BY <2>1 DEF LinkOrdered
    <3>5. b.frame <= top.frame => b.ready <= top.ready
      <4>1. PICK y : y = <<b.frame, b.ready>>
        OBVIOUS
      <4>2. y \in Pending(d) /\ y[1] = b.frame /\ y[2] = b.ready
        BY <4>1 DEF Pending
      <4>3. pair[1] = top.frame /\ pair[2] = top.ready
        BY <1>3
      <4> QED BY <1>4, <2>1, <4>2, <4>3 DEF LinkOrdered
    <3>6. ~(b.seq < top.seq)
      BY <3>2, <3>3, <3>4, <3>5 DEF Precedes
    <3>7. top.seq < b.seq
      BY <3>1, <3>3, <3>6
    <3> QED BY <1>3, <2>1, <3>7 DEF LinkOrdered
  <2>3. \A i \in 1..Len(channel[d]) : frame < channel[d][i][1]
    BY <1>3, <2>1 DEF LinkOrdered
  <2>4. holding[d] # <<>> => frame < holding[d][1]
    BY <1>3, <2>1 DEF LinkOrdered
  <2>5. \A y \in {<<x.frame, x.ready>> : x \in heap'[d]} : frame < y[1]
    BY <1>4, <2>2
  <2> QED BY <1>2, <2>3, <2>4, <2>5 DEF Pending
<1>8. ASSUME jitter = 0
      PROVE  /\ \A x \in Pending(d)' : x[2] <= clock' + Delay
             /\ \A x, y \in Pending(d)' : x[1] <= y[1] => x[2] <= y[2]
             /\ \A i, j \in 1..Len(channel'[d]) : i < j => channel'[d][i][1] < channel'[d][j][1]
             /\ holding'[d] # <<>> =>
                  /\ \A i \in 1..Len(channel'[d]) : channel'[d][i][1] < holding'[d][1]
                  /\ \A a \in heap'[d] : a.frame < holding'[d][1]
             /\ \A a \in heap'[d] : /\ a.seq <= enqueued'[d]
                                    /\ \A i \in 1..Len(channel'[d]) : a.frame < channel'[d][i][1]
             /\ \A a, b \in heap'[d] : a.seq = b.seq => a = b
             /\ \A a, b \in heap'[d] : a.seq < b.seq => a.frame < b.frame
  BY <1>2, <1>4, <1>5, <1>8 DEF LinkOrdered, LinkInv
<1>9. CASE forwarded' = [forwarded EXCEPT ![d] = Append(@, top.frame)] /\ outTask' = outTask
  <2>1. forwarded[d] \in Seq(Nat) /\ forwarded'[d] = Append(forwarded[d], frame)
    BY <1>3, <1>9 DEF LinkInv, LinkTypes
  <2>2. /\ Len(forwarded[d]) \in Nat /\ forwarded'[d] \in Seq(Nat)
        /\ \A i \in 1..Len(forwarded[d]) : i \in 1..Len(forwarded'[d]) /\ forwarded'[d][i] = forwarded[d][i]
        /\ Len(forwarded[d]) + 1 \in 1..Len(forwarded'[d])
        /\ forwarded'[d][Len(forwarded[d]) + 1] = frame
        /\ \A i \in 1..Len(forwarded'[d]) : i \in 1..Len(forwarded[d]) \/ i = Len(forwarded[d]) + 1
    BY <1>4, <2>1, AppendExtends
  <2>4. LinkTypes'
    <3>1. forwarded' \in [LinkDirs -> Seq(Nat)]
      BY <1>9, <2>1, <2>2 DEF LinkInv, LinkTypes
    <3>2. heap' \in [LinkDirs -> SUBSET HeapItems]
      BY <1>1, <1>4 DEF LinkInv, LinkTypes
    <3> QED BY <1>2, <1>9, <3>1, <3>2 DEF LinkInv, LinkTypes
  <2>5. Written(d)' = Written(d) \cup {frame}
    BY <2>2 DEF Written
  <2>6. Flow(d)'
    <3>1. frame \in 1..seen[d] /\ frame \notin dropped[d]
      BY <1>4, <1>6 DEF Flow
    <3> QED BY <1>2, <1>4, <1>5, <1>6, <1>9, <2>5, <3>1 DEF Flow
  <2>7. ASSUME jitter = 0 PROVE LinkOrdered(d)'
    <3>1. LinkOrdered(d)
      BY <2>7 DEF LinkInv
    <3>2. \A i \in 1..Len(forwarded'[d]) : \A x \in Pending(d)' : forwarded'[d][i] < x[1]
      BY <1>5, <1>7, <2>2, <2>7, <3>1 DEF LinkOrdered
    <3>3. \A i \in 1..Len(forwarded[d]) : forwarded[d][i] < frame
      BY <1>4, <3>1 DEF LinkOrdered
    <3>4. \A i, j \in 1..Len(forwarded'[d]) : i < j => forwarded'[d][i] < forwarded'[d][j]
      <4> SUFFICES ASSUME NEW i \in 1..Len(forwarded'[d]), NEW j \in 1..Len(forwarded'[d]), i < j
                   PROVE  forwarded'[d][i] < forwarded'[d][j]
        OBVIOUS
      <4>1. i \in 1..Len(forwarded[d])
        <5>1. PICK n \in Nat : n = Len(forwarded[d])
          BY <2>2
        <5>2. /\ i \in 1..n \/ i = n + 1
              /\ j \in 1..n \/ j = n + 1
          BY <2>2, <5>1
        <5>3. i \in 1..n
          BY <5>1, <5>2
        <5> QED BY <5>1, <5>3
      <4>2. j \in 1..Len(forwarded[d]) => forwarded[d][i] < forwarded[d][j]
        BY <3>1, <4>1 DEF LinkOrdered
      <4>3. j = Len(forwarded[d]) + 1 => forwarded[d][i] < forwarded'[d][j]
        BY <2>2, <3>3, <4>1
      <4>4. forwarded'[d][i] = forwarded[d][i]
        BY <2>2, <4>1
      <4>5. j \in 1..Len(forwarded[d]) => forwarded'[d][j] = forwarded[d][j]
        BY <2>2
      <4> QED BY <2>2, <4>2, <4>3, <4>4, <4>5
    <3> QED BY <1>8, <2>7, <3>2, <3>4 DEF LinkOrdered
  <2> QED BY <1>2, <2>4, <2>6, <2>7
<1>10. CASE outTask' = [outTask EXCEPT ![d] = "broken"] /\ forwarded' = forwarded
  <2>1. outTask'[d] = "broken" /\ LinkTypes'
    BY <1>1, <1>2, <1>4, <1>10 DEF LinkInv, LinkTypes
  <2>2. Written(d)' = Written(d)
    BY <1>10 DEF Written
  <2>3. Flow(d)'
    BY <1>2, <1>5, <1>6, <2>1, <2>2 DEF Flow
  <2>4. ASSUME jitter = 0 PROVE LinkOrdered(d)'
    <3>1. LinkOrdered(d)
      BY <2>4 DEF LinkInv
    <3>2. \A i \in 1..Len(forwarded'[d]) : \A x \in Pending(d)' : forwarded'[d][i] < x[1]
      BY <1>5, <1>10, <3>1 DEF LinkOrdered
    <3>3. \A i, j \in 1..Len(forwarded'[d]) : i < j => forwarded'[d][i] < forwarded'[d][j]
      BY <1>10, <3>1 DEF LinkOrdered
    <3> QED BY <1>8, <2>4, <3>2, <3>3 DEF LinkOrdered
  <2> QED BY <1>2, <2>1, <2>3, <2>4
<1> QED BY <1>1, <1>9, <1>10

LEMMA LinkStep == LinkInv /\ [LinkNext]_linkVars => LinkInv'
<1> SUFFICES ASSUME LinkInv, [LinkNext]_linkVars
             PROVE  LinkInv'
  OBVIOUS
<1>1. ASSUME NEW d \in LinkDirs,
             PumpRead(d) \/ PumpDrop(d) \/ PumpSend(d) \/ PumpEof(d)
               \/ PumpTake(d) \/ PumpWrite(d) \/ PumpReturns(d)
      PROVE  LinkInv'
  <2>1. LinkTypes' /\ Flow(d)' /\ (jitter = 0 => LinkOrdered(d))'
    BY <1>1, PumpReadInv, PumpDropInv, PumpSendInv, PumpEofInv, PumpTakeInv, PumpWriteInv,
       PumpReturnsInv
  <2>2. ASSUME NEW e \in LinkDirs, e # d PROVE Flow(e)' /\ (jitter = 0 => LinkOrdered(e))'
    <3>1. /\ jitter' = jitter /\ clock' = clock
          /\ seen'[e] = seen[e] /\ holding'[e] = holding[e] /\ inTask'[e] = inTask[e]
          /\ outTask'[e] = outTask[e] /\ channel'[e] = channel[e] /\ heap'[e] = heap[e]
          /\ enqueued'[e] = enqueued[e] /\ dropped'[e] = dropped[e]
          /\ forwarded'[e] = forwarded[e]
      <4>1. CASE PumpRead(d) \/ PumpDrop(d) \/ PumpSend(d) \/ PumpEof(d)
        BY <2>2, <4>1 DEF PumpRead, PumpDrop, PumpSend, PumpEof, LinkInv, LinkTypes
      <4>2. CASE PumpTake(d) \/ PumpReturns(d)
        BY <2>2, <4>2 DEF PumpTake, PumpReturns, LinkInv, LinkTypes
      <4>3. CASE PumpWrite(d)
        BY <2>2, <4>3 DEF PumpWrite, LinkInv, LinkTypes
      <4> QED BY <1>1, <4>1, <4>2, <4>3
    <3>2. clock <= clock'
      BY <3>1 DEF LinkInv, LinkTypes
    <3> QED BY <2>1, <3>1, <3>2, LinkSame
  <2> QED BY <2>1, <2>2 DEF LinkInv
<1>2. ASSUME UNCHANGED <<jitter, seen, holding, inTask, outTask, channel, heap, enqueued,
                         dropped, forwarded>>,
             clock' \in Nat, clock <= clock'
      PROVE  LinkInv'
  <2>1. LinkTypes'
    BY <1>2 DEF LinkInv, LinkTypes
  <2>2. ASSUME NEW d \in LinkDirs PROVE Flow(d)' /\ (jitter = 0 => LinkOrdered(d))'
    BY <1>2, <2>1, LinkSame
  <2> QED BY <2>1, <2>2 DEF LinkInv
<1>3. ASSUME NEW e \in Ends, EndCloses(e) PROVE LinkInv'
  BY <1>2, <1>3 DEF EndCloses, LinkInv, LinkTypes
<1>4. CASE TimePasses
  BY <1>2, <1>4 DEF TimePasses, LinkInv, LinkTypes
<1>5. CASE UNCHANGED linkVars
  BY <1>2, <1>5 DEF linkVars, LinkInv, LinkTypes
<1> QED BY <1>1, <1>3, <1>4, <1>5 DEF LinkNext

(***************************************************************************)
(* The order without jitter, and the frames all accounted for at the end   *)
(* (weaklink.rs pump_in, pump_out).                                        *)
(***************************************************************************)
THEOREM LinkAlwaysFaithful == LinkSpec => []LinkFaithful
<1>1. LinkInv => LinkFaithful
  <2> SUFFICES ASSUME LinkInv, NEW d \in LinkDirs
               PROVE  /\ jitter = 0 => \A i, j \in 1..Len(forwarded[d]) :
                                          i < j => forwarded[d][i] < forwarded[d][j]
                      /\ outTask[d] = "done" => Written(d) = (1..seen[d]) \ dropped[d]
    BY DEF LinkFaithful
  <2>1. jitter = 0 => \A i, j \in 1..Len(forwarded[d]) : i < j => forwarded[d][i] < forwarded[d][j]
    BY DEF LinkInv, LinkOrdered
  <2>2. outTask[d] = "done" => Written(d) = (1..seen[d]) \ dropped[d]
    BY DEF LinkInv, Flow
  <2> QED BY <2>1, <2>2
<1> QED BY LinkInitInv, LinkStep, <1>1, PTL DEF LinkSpec

-----------------------------------------------------------------------------
(***************************************************************************)
(* Runs of numbers: the first is a, and the i-th comes from the one before *)
(* by step[i]. The shifts and the running sums of the modules are such     *)
(* runs, so that what one of them computes follows from the first place    *)
(* at which it would go wrong.                                             *)
(***************************************************************************)
Run(r, a, step, n) ==
  /\ r \in [0..n -> Nat]
  /\ r[0] = a
  /\ \A i \in 1..n : r[i] = step[i][r[i - 1]]

\* f takes these steps up to the m-th, as far as its values are numbers.
Follows(f, a, step, m) ==
  /\ f[0] = a
  /\ \A i \in 1..m : f[i - 1] \in Nat => f[i] = step[i][f[i - 1]]

LEMMA RunExists ==
  ASSUME NEW a \in Nat, NEW n \in Nat, NEW step, \A i \in 1..n, x \in Nat : step[i][x] \in Nat
  PROVE  \E r : Run(r, a, step, n)
<1> DEFINE Bad == {k \in 0..n : ~ \E r : Run(r, a, step, k)}
<1>1. Bad = {}
  <2> SUFFICES ASSUME Bad # {} PROVE FALSE
    OBVIOUS
  <2>1. PICK k \in Bad : \A h \in Bad : k <= h
    <3>1. Bad \subseteq Nat
      OBVIOUS
    <3> HIDE DEF Bad
    <3> QED BY <3>1, LeastNatural
  <2>2. CASE k = 0
    <3>1. Run([i \in 0..0 |-> a], a, step, 0)
      BY DEF Run
    <3> QED BY <2>2, <3>1
  <2>3. CASE k # 0
    <3>1. k \in Nat /\ k - 1 \in 0..n /\ ~(k <= k - 1) /\ k \in 1..n
      BY <2>3
    <3>2. PICK r : Run(r, a, step, k - 1)
      BY <3>1, <2>1
    <3>3. r \in [0..(k - 1) -> Nat] /\ r[0] = a /\ \A i \in 1..(k - 1) : r[i] = step[i][r[i - 1]]
      BY <3>2 DEF Run
    <3> DEFINE next == [i \in 0..k |-> IF i = k THEN step[k][r[k - 1]] ELSE r[i]]
    <3>4. \A i \in 0..k : i = k \/ i \in 0..(k - 1)
      BY <3>1
    <3>5. r[k - 1] \in Nat
      BY <3>1, <3>3
    <3>6. step[k][r[k - 1]] \in Nat
      BY <3>1, <3>5
    <3>7. next \in [0..k -> Nat] /\ next[0] = a
      BY <3>1, <3>3, <3>4, <3>6, <2>3
    <3>8. \A i \in 1..k : next[i] = step[i][next[i - 1]]
      <4> TAKE i \in 1..k
      <4>1. i - 1 \in 0..k /\ i - 1 # k /\ i \in 0..k
        BY <3>1
      <4>2. next[i - 1] = r[i - 1]
        BY <4>1
      <4>3. CASE i = k
        BY <4>1, <4>2, <4>3
      <4>4. CASE i # k
        <5>1. i \in 1..(k - 1)
          BY <4>4, <3>1
        <5> QED BY <5>1, <4>1, <4>2, <4>4, <3>3
      <4> QED BY <4>3, <4>4
    <3>9. Run(next, a, step, k)
      BY <3>7, <3>8 DEF Run
    <3> QED BY <3>9
  <2> QED BY <2>2, <2>3
<1> QED BY <1>1

\* Whatever follows the same steps from the same number is the run.
LEMMA RunAlone ==
  ASSUME NEW a, NEW step, NEW n \in Nat, NEW r, Run(r, a, step, n), NEW f, Follows(f, a, step, n)
  PROVE  f[n] = r[n]
<1> DEFINE Differ == {k \in 0..n : f[k] # r[k]}
<1>1. r[0] = a /\ r \in [0..n -> Nat] /\ \A k \in 1..n : r[k] = step[k][r[k - 1]]
  BY DEF Run
<1>2. Differ = {}
  <2> SUFFICES ASSUME Differ # {} PROVE FALSE
    OBVIOUS
  <2>1. PICK k \in Differ : \A h \in Differ : k <= h
    <3>1. Differ \subseteq Nat
      OBVIOUS
    <3> HIDE DEF Differ
    <3> QED BY <3>1, LeastNatural
  <2>2. k \in 1..n
    BY <1>1 DEF Follows
  <2>3. k - 1 \in 0..n /\ ~(k <= k - 1)
    BY <2>2
  <2>4. f[k - 1] = r[k - 1] /\ r[k - 1] \in Nat
    BY <2>1, <2>3, <1>1
  <2> QED BY <2>2, <2>4, <1>1 DEF Follows
<1>3. n \in 0..n
  OBVIOUS
<1> QED BY <1>2, <1>3

-----------------------------------------------------------------------------
(***************************************************************************)
(* Shifts are runs of doublings: twice as much one place on, and so the    *)
(* products and the order of powers.                                       *)
(***************************************************************************)
Doubling == [i \in Nat |-> [y \in Nat |-> 2 * y]]

LEMMA ShiftRun ==
  ASSUME NEW x \in Nat, NEW n \in Nat
  PROVE  \E r : Run(r, x, Doubling, n) /\ ShiftLeft(x, n) = r[n]
<1> DEFINE Rec(f) == [i \in 0..n |-> IF i = 0 THEN x ELSE 2 * f[i - 1]]
           shifted == CHOOSE f : f = Rec(f)
<1>1. \A i \in Nat, y \in Nat : Doubling[i][y] = 2 * y
  BY DEF Doubling
<1>2. PICK r : Run(r, x, Doubling, n)
  <2>1. \A i \in 1..n, y \in Nat : Doubling[i][y] \in Nat
    BY <1>1
  <2> QED BY <2>1, RunExists
<1>3. r = Rec(r)
  <2>1. r \in [0..n -> Nat] /\ r[0] = x /\ \A i \in 1..n : r[i] = Doubling[i][r[i - 1]]
    BY <1>2 DEF Run
  <2>2. \A i \in 1..n : i \in Nat /\ i - 1 \in 0..n
    OBVIOUS
  <2>3. \A i \in 1..n : r[i] = 2 * r[i - 1]
    BY <2>1, <2>2, <1>1
  <2>4. \A i \in 0..n : i = 0 \/ i \in 1..n
    OBVIOUS
  <2>5. \A i \in 0..n : r[i] = IF i = 0 THEN x ELSE 2 * r[i - 1]
    BY <2>1, <2>3, <2>4
  <2> QED BY <2>1, <2>5
<1>4. shifted = Rec(shifted)
  BY <1>3
<1>5. ShiftLeft(x, n) = shifted[n]
  BY DEF ShiftLeft
<1> HIDE DEF shifted
<1>6. shifted[0] = x /\ \A i \in 1..n : shifted[i] = 2 * shifted[i - 1]
  <2>1. \A i \in 0..n : shifted[i] = IF i = 0 THEN x ELSE 2 * shifted[i - 1]
    BY <1>4
  <2> HIDE DEF Rec
  <2>2. 0 \in 0..n /\ \A i \in 1..n : i \in 0..n /\ i # 0
    OBVIOUS
  <2> QED BY <2>1, <2>2
<1> HIDE DEF Rec
<1>7. Follows(shifted, x, Doubling, n)
  <2>1. \A i \in 1..n : i \in Nat
    OBVIOUS
  <2> QED BY <2>1, <1>1, <1>6 DEF Follows
<1>8. shifted[n] = r[n]
  BY <1>2, <1>7, RunAlone
<1> QED BY <1>2, <1>5, <1>8

LEMMA ShiftSteps ==
  ASSUME NEW x \in Nat
  PROVE  /\ ShiftLeft(x, 0) = x
         /\ \A n \in Nat : ShiftLeft(x, n) \in Nat
         /\ \A n \in Nat : ShiftLeft(x, n + 1) = 2 * ShiftLeft(x, n)
<1>1. ShiftLeft(x, 0) = x
  <2>1. PICK r : Run(r, x, Doubling, 0) /\ ShiftLeft(x, 0) = r[0]
    BY ShiftRun
  <2> QED BY <2>1 DEF Run
<1>2. ASSUME NEW n \in Nat
      PROVE  ShiftLeft(x, n) \in Nat /\ ShiftLeft(x, n + 1) = 2 * ShiftLeft(x, n)
  <2>1. n + 1 \in Nat /\ n + 1 \in 1..(n + 1) /\ (n + 1) - 1 = n /\ n \in 0..n
    OBVIOUS
  <2>2. PICK f : Run(f, x, Doubling, n) /\ ShiftLeft(x, n) = f[n]
    BY ShiftRun
  <2>3. PICK g : Run(g, x, Doubling, n + 1) /\ ShiftLeft(x, n + 1) = g[n + 1]
    BY <2>1, ShiftRun
  <2>4. f[n] \in Nat
    BY <2>1, <2>2 DEF Run
  <2>5. g[n] = f[n]
    <3>1. \A i \in 1..n : i \in 1..(n + 1)
      OBVIOUS
    <3>2. Follows(g, x, Doubling, n)
      BY <2>3, <3>1 DEF Run, Follows
    <3> QED BY <2>2, <3>2, RunAlone
  <2>6. g[n + 1] = Doubling[n + 1][g[n]]
    BY <2>1, <2>3 DEF Run
  <2>7. Doubling[n + 1][f[n]] = 2 * f[n]
    BY <2>1, <2>4 DEF Doubling
  <2> QED BY <2>2, <2>3, <2>4, <2>5, <2>6, <2>7
<1> QED BY <1>1, <1>2

\* One shift after another is one shift, and a shift is a product.
LEMMA ShiftAdds ==
  ASSUME NEW x \in Nat, NEW m \in Nat, NEW n \in Nat
  PROVE  ShiftLeft(x, m + n) = ShiftLeft(x, m) * ShiftLeft(1, n)
<1> DEFINE P(k) == ShiftLeft(x, m + k) = ShiftLeft(x, m) * ShiftLeft(1, k)
           Bad == {k \in Nat : ~P(k)}
<1>1. ShiftLeft(x, m) \in Nat /\ ShiftLeft(1, 0) = 1
      /\ \A k \in Nat : ShiftLeft(1, k) \in Nat /\ ShiftLeft(1, k + 1) = 2 * ShiftLeft(1, k)
  BY ShiftSteps
<1>2. P(0)
  BY <1>1
<1>3. ASSUME NEW k \in Nat, P(k) PROVE P(k + 1)
  <2>1. m + k \in Nat /\ (m + k) + 1 = m + (k + 1)
    OBVIOUS
  <2>2. ShiftLeft(x, m + (k + 1)) = 2 * ShiftLeft(x, m + k)
    BY <2>1, ShiftSteps
  <2>3. \A a, b \in Nat : a * (2 * b) = 2 * (a * b)
    OBVIOUS
  <2>4. ShiftLeft(x, m) * (2 * ShiftLeft(1, k)) = 2 * (ShiftLeft(x, m) * ShiftLeft(1, k))
    BY <2>3, <1>1
  <2> QED BY <2>2, <2>4, <1>1, <1>3
<1>4. Bad = {}
  <2> SUFFICES ASSUME Bad # {} PROVE FALSE
    OBVIOUS
  <2>1. PICK k \in Bad : \A h \in Bad : k <= h
    <3>1. Bad \subseteq Nat
      OBVIOUS
    <3> HIDE DEF Bad
    <3> QED BY <3>1, LeastNatural
  <2>2. k # 0
    BY <1>2
  <2>3. k - 1 \in Nat /\ ~(k <= k - 1) /\ (k - 1) + 1 = k
    BY <2>2
  <2>4. P(k - 1)
    BY <2>1, <2>3
  <2>5. P((k - 1) + 1)
    BY <2>3, <2>4, <1>3
  <2> QED BY <2>3, <2>5
<1> QED BY <1>4

LEMMA TimesGrows ==
  ASSUME NEW a \in Nat, NEW b \in Nat, NEW c \in Nat, a <= b
  PROVE  a * c <= b * c
OBVIOUS

LEMMA PowersGrow ==
  ASSUME NEW m \in Nat, NEW n \in Nat, m <= n
  PROVE  ShiftLeft(1, m) \in Nat \ {0} /\ ShiftLeft(1, m) <= ShiftLeft(1, n)
<1>1. ASSUME NEW k \in Nat PROVE ShiftLeft(1, k) \in Nat /\ ShiftLeft(1, k) # 0
  <2>1. CASE ShiftLeft(1, k) = 0
    <3> DEFINE Z == {h \in Nat : ShiftLeft(1, h) = 0}
    <3>1. PICK h \in Z : \A j \in Z : h <= j
      <4>1. Z \subseteq Nat /\ Z # {}
        BY <2>1
      <4> HIDE DEF Z
      <4> QED BY <4>1, LeastNatural
    <3>2. h # 0
      BY ShiftSteps
    <3>3. h - 1 \in Nat /\ (h - 1) + 1 = h /\ ~(h <= h - 1)
      BY <3>2
    <3>4. ShiftLeft(1, h - 1) \in Nat /\ ShiftLeft(1, (h - 1) + 1) = 2 * ShiftLeft(1, h - 1)
      BY <3>3, ShiftSteps
    <3>5. h - 1 \in Z
      BY <3>3, <3>4
    <3> QED BY <3>1, <3>3, <3>5
  <2> QED BY <2>1, ShiftSteps
<1>2. n - m \in Nat /\ m + (n - m) = n
  OBVIOUS
<1>3. ShiftLeft(1, m + (n - m)) = ShiftLeft(1, m) * ShiftLeft(1, n - m)
  BY <1>2, ShiftAdds
<1>4. \A a, b \in Nat \ {0} : a <= a * b
  OBVIOUS
<1>5. ShiftLeft(1, m) \in Nat \ {0} /\ ShiftLeft(1, n - m) \in Nat \ {0}
  BY <1>1, <1>2
<1> QED BY <1>2, <1>3, <1>4, <1>5

LEMMA ShiftsGrow ==
  ASSUME NEW x \in Nat, NEW m \in Nat, NEW n \in Nat, m <= n
  PROVE  ShiftLeft(x, m) \in Nat /\ ShiftLeft(x, m) <= ShiftLeft(x, n)
<1>1. PICK k \in Nat : m + k = n
  <2>1. n - m \in Nat /\ m + (n - m) = n
    OBVIOUS
  <2> QED BY <2>1
<1>2. ShiftLeft(x, m + k) = ShiftLeft(x, m) * ShiftLeft(1, k)
  BY ShiftAdds
<1>3. ShiftLeft(1, k) \in Nat \ {0}
  <2>1. k <= k
    OBVIOUS
  <2> QED BY <2>1, PowersGrow
<1>4. ShiftLeft(x, m) \in Nat
  BY ShiftSteps
<1>5. \A a \in Nat, b \in Nat \ {0} : a <= a * b
  OBVIOUS
<1> QED BY <1>1, <1>2, <1>3, <1>4, <1>5

-----------------------------------------------------------------------------
(***************************************************************************)
(* The first delay doubled as often as the shift allows, and held at a     *)
(* limit: ceiling and backoff_delay are both of this form.                 *)
(***************************************************************************)
Held(x, n, stop, limit) == Smaller(ShiftLeft(x, Smaller(n, stop)), limit)

LEMMA HeldDoubles ==
  ASSUME NEW x \in Nat, NEW n \in Nat, NEW stop \in Nat, NEW limit \in Nat
  PROVE  /\ Held(x, n, stop, limit) \in Nat
         /\ Held(x, n + 1, stop, limit)
              = Smaller(2 * Held(x, n, stop, limit), Smaller(ShiftLeft(x, stop), limit))
         /\ Held(x, n + 1, stop, limit) >= Held(x, n, stop, limit)
<1>1. ShiftLeft(x, stop) \in Nat /\ ShiftLeft(x, n) \in Nat
      /\ ShiftLeft(x, n + 1) = 2 * ShiftLeft(x, n)
  BY ShiftSteps
<1>2. CASE n < stop
  <2>1. Smaller(n, stop) = n /\ Smaller(n + 1, stop) = n + 1
    BY <1>2 DEF Smaller
  <2>2. Held(x, n, stop, limit) = Smaller(ShiftLeft(x, n), limit)
        /\ Held(x, n + 1, stop, limit) = Smaller(2 * ShiftLeft(x, n), limit)
    BY <2>1, <1>1 DEF Held
  <2>3. 2 * ShiftLeft(x, n) <= ShiftLeft(x, stop)
    <3>1. n + 1 \in Nat /\ n + 1 <= stop
      BY <1>2
    <3> QED BY <1>1, <3>1, ShiftsGrow
  <2> QED BY <2>2, <2>3, <1>1 DEF Smaller
<1>3. CASE n >= stop
  <2>1. Smaller(n, stop) = stop /\ Smaller(n + 1, stop) = stop
    BY <1>3 DEF Smaller
  <2>2. Held(x, n, stop, limit) = Smaller(ShiftLeft(x, stop), limit)
        /\ Held(x, n + 1, stop, limit) = Smaller(ShiftLeft(x, stop), limit)
    BY <2>1 DEF Held
  <2> QED BY <2>2, <1>1 DEF Smaller
<1> QED BY <1>2, <1>3

\* The width of the counter is one more limit.
CounterLimit == Smaller(ShiftLeft(1, NanoBits) - 1, MaxNanos)

LEMMA CeilingHeld ==
  ASSUME NEW n \in Nat
  PROVE  ceiling(n) = Held(BaseNanos, n, NanoBits - 1, CounterLimit)
<1>1. Smaller(n, NanoBits - 1) \in Nat /\ BaseNanos \in Nat /\ MaxNanos \in Nat /\ NanoBits \in Nat
  BY BackoffAssumption DEF Smaller
<1>2. PICK a \in Nat : a = ShiftLeft(BaseNanos, Smaller(n, NanoBits - 1))
  BY <1>1, ShiftSteps
<1>3. PICK b \in Nat : b = ShiftLeft(1, NanoBits) - 1
  BY <1>1, PowersGrow
<1>4. ceiling(n) = Smaller(Smaller(a, b), MaxNanos)
  BY <1>2, <1>3 DEF ceiling, Nanos
<1>5. Held(BaseNanos, n, NanoBits - 1, CounterLimit) = Smaller(a, Smaller(b, MaxNanos))
  BY <1>2, <1>3 DEF Held, CounterLimit
<1> HIDE DEF ceiling
<1>6. Smaller(Smaller(a, b), MaxNanos) = Smaller(a, Smaller(b, MaxNanos))
  BY <1>1 DEF Smaller
<1> QED BY <1>4, <1>5, <1>6

LEMMA CeilingSteps ==
  ASSUME NEW n \in Nat
  PROVE  /\ ceiling(n) \in Nat
         /\ ceiling(n + 1) = Smaller(2 * ceiling(n), LongestDelay)
         /\ ceiling(n + 1) >= ceiling(n)
<1>1. BaseNanos \in Nat /\ MaxNanos \in Nat /\ NanoBits \in Nat /\ NanoBits - 1 \in Nat /\ n + 1 \in Nat
  BY BackoffAssumption
<1>2. CounterLimit \in Nat
  <2>1. ShiftLeft(1, NanoBits) \in Nat \ {0}
    BY <1>1, PowersGrow
  <2> QED BY <1>1, <2>1 DEF CounterLimit, Smaller
<1>3. ceiling(n) = Held(BaseNanos, n, NanoBits - 1, CounterLimit)
      /\ ceiling(n + 1) = Held(BaseNanos, n + 1, NanoBits - 1, CounterLimit)
  BY <1>1, CeilingHeld
<1>4. LongestDelay = Smaller(ShiftLeft(BaseNanos, NanoBits - 1), CounterLimit)
  BY DEF LongestDelay, CounterLimit
<1> HIDE DEF ceiling
<1> QED BY <1>1, <1>2, <1>3, <1>4, HeldDoubles

LEMMA ResendSteps ==
  ASSUME NEW n \in Nat \ {0}
  PROVE  backoff_delay(n + 1) = Smaller(2 * backoff_delay(n), LongestResend)
<1>1. Rto \in Nat /\ RetryDelayCap \in Nat /\ MaxShift \in Nat
  BY BackoffAssumption
<1>2. n - 1 \in Nat /\ n # 0 /\ n + 1 # 0 /\ (n + 1) - 1 = n /\ (n - 1) + 1 = n
  OBVIOUS
<1>3. backoff_delay(n) = Held(Rto, n - 1, MaxShift, RetryDelayCap)
  BY <1>2 DEF backoff_delay, Held
<1>4. backoff_delay(n + 1) = Held(Rto, n, MaxShift, RetryDelayCap)
  BY <1>2 DEF backoff_delay, Held
<1>5. Held(Rto, (n - 1) + 1, MaxShift, RetryDelayCap)
        = Smaller(2 * Held(Rto, n - 1, MaxShift, RetryDelayCap), LongestResend)
  BY <1>1, <1>2, HeldDoubles DEF LongestResend
<1> QED BY <1>2, <1>3, <1>4, <1>5

\* A number of whole milliseconds within a limit is within it.
LEMMA WholeMillis ==
  ASSUME NEW c \in Nat, NEW m \in Nat \ {0}, NEW ms \in 0..(c \div m)
  PROVE  ms * m \in Nat /\ ms * m <= c
<1>1. c \div m \in Nat /\ (c \div m) * m <= c
  OBVIOUS
<1>2. PICK q \in Nat : q = c \div m
  BY <1>1
<1>3. ms \in Nat /\ ms <= q /\ q * m <= c
  BY <1>1, <1>2
<1>4. ms * m <= q * m
  BY <1>3
<1> QED BY <1>3, <1>4

AttemptInRange == attempt \in 0..MaxAttempt

(***************************************************************************)
(* Every failure doubles the ceiling until it is the limit, whatever the   *)
(* base, the limit and the width of the counter (backoff.rs, ceiling and   *)
(* next_delay; im-client's outbox.rs, backoff_delay).                      *)
(***************************************************************************)
THEOREM CeilingAlwaysDoubles == BackoffSpec => CeilingDoubles
<1> USE BackoffAssumption
<1>1. BackoffInit => AttemptInRange
  BY DEF BackoffInit, AttemptInRange
<1>2. AttemptInRange /\ [BackoffNext]_backoffVars => AttemptInRange'
  BY DEF AttemptInRange, BackoffNext, next_delay, reset, backoffVars, Smaller
<1> DEFINE Doubles ==
      attempt' # 0 =>
        /\ delay' <= ceiling(attempt)
        /\ attempt < MaxAttempt => ceiling(attempt') = Smaller(2 * ceiling(attempt), LongestDelay)
        /\ ceiling(attempt') >= ceiling(attempt)
        /\ attempt \in 1..MaxAttempt-1 =>
             backoff_delay(attempt') = Smaller(2 * backoff_delay(attempt), LongestResend)
<1>3. ASSUME AttemptInRange, next_delay PROVE Doubles
  <2>1. attempt \in Nat /\ attempt <= MaxAttempt
    BY <1>3 DEF AttemptInRange
  <2>2. ceiling(attempt) \in Nat
        /\ ceiling(attempt + 1) = Smaller(2 * ceiling(attempt), LongestDelay)
        /\ ceiling(attempt + 1) >= ceiling(attempt)
    BY <2>1, CeilingSteps
  <2>3. PICK ms \in 0..(ceiling(attempt) \div MilliNanos) : delay' = ms * MilliNanos
    BY <1>3 DEF next_delay, Draws
  <2>4. delay' <= ceiling(attempt)
    BY <2>2, <2>3, WholeMillis
  <2>5. attempt' = IF attempt < MaxAttempt THEN attempt + 1 ELSE attempt
    BY <1>3, <2>1 DEF next_delay, Smaller
  <2>6. attempt < MaxAttempt => ceiling(attempt') = Smaller(2 * ceiling(attempt), LongestDelay)
    BY <2>2, <2>5
  <2>7. ceiling(attempt') >= ceiling(attempt)
    BY <2>2, <2>5
  <2>8. ASSUME attempt \in 1..MaxAttempt-1
        PROVE  backoff_delay(attempt') = Smaller(2 * backoff_delay(attempt), LongestResend)
    <3>1. attempt' = attempt + 1 /\ attempt \in Nat \ {0}
      BY <2>5, <2>8
    <3> QED BY <3>1, ResendSteps
  <2> QED BY <2>4, <2>6, <2>7, <2>8
<1>4. ASSUME AttemptInRange, [BackoffNext]_backoffVars PROVE [Doubles]_backoffVars
  <2>1. CASE reset
    BY <2>1 DEF reset
  <2> QED BY <1>3, <1>4, <2>1 DEF BackoffNext
<1> QED BY <1>1, <1>2, <1>4, PTL DEF BackoffSpec, CeilingDoubles

-----------------------------------------------------------------------------
(***************************************************************************)
(* The running sums of the histogram: what one more sample adds to them.   *)
(***************************************************************************)
Adding(f) == [i \in Nat |-> [y \in Nat |-> y + f[i]]]

LEMMA SumRun ==
  ASSUME NEW n \in Nat, NEW f, \A i \in 0..n : f[i] \in Nat
  PROVE  \E r : Run(r, f[0], Adding(f), n) /\ SumTo(f, n) = r[n]
<1> DEFINE Rec(g) == [i \in 0..n |-> IF i = 0 THEN f[0] ELSE g[i - 1] + f[i]]
           running == CHOOSE g : g = Rec(g)
<1>1. \A i \in Nat, y \in Nat : Adding(f)[i][y] = y + f[i]
  BY DEF Adding
<1>2. PICK r : Run(r, f[0], Adding(f), n)
  <2>1. \A i \in 1..n : i \in 0..n /\ i \in Nat
    OBVIOUS
  <2>2. \A i \in 1..n, y \in Nat : Adding(f)[i][y] \in Nat
    BY <1>1, <2>1
  <2>3. f[0] \in Nat
    OBVIOUS
  <2> QED BY <2>2, <2>3, RunExists
<1>3. r = Rec(r)
  <2>1. r \in [0..n -> Nat] /\ r[0] = f[0] /\ \A i \in 1..n : r[i] = Adding(f)[i][r[i - 1]]
    BY <1>2 DEF Run
  <2>2. \A i \in 1..n : i \in Nat /\ i - 1 \in 0..n
    OBVIOUS
  <2>3. \A i \in 1..n : r[i] = r[i - 1] + f[i]
    BY <2>1, <2>2, <1>1
  <2>4. \A i \in 0..n : i = 0 \/ i \in 1..n
    OBVIOUS
  <2>5. \A i \in 0..n : r[i] = IF i = 0 THEN f[0] ELSE r[i - 1] + f[i]
    BY <2>1, <2>3, <2>4
  <2> QED BY <2>1, <2>5
<1>4. running = Rec(running)
  BY <1>3
<1>5. SumTo(f, n) = running[n]
  BY DEF SumTo
<1> HIDE DEF running
<1>6. running[0] = f[0] /\ \A i \in 1..n : running[i] = running[i - 1] + f[i]
  <2>1. \A i \in 0..n : running[i] = IF i = 0 THEN f[0] ELSE running[i - 1] + f[i]
    BY <1>4
  <2> HIDE DEF Rec
  <2>2. 0 \in 0..n /\ \A i \in 1..n : i \in 0..n /\ i # 0
    OBVIOUS
  <2> QED BY <2>1, <2>2
<1> HIDE DEF Rec
<1>7. Follows(running, f[0], Adding(f), n)
  <2>1. \A i \in 1..n : i \in Nat
    OBVIOUS
  <2> QED BY <2>1, <1>1, <1>6 DEF Follows
<1>8. running[n] = r[n]
  BY <1>2, <1>7, RunAlone
<1> QED BY <1>2, <1>5, <1>8

LEMMA SumSteps ==
  ASSUME NEW n \in Nat, NEW f, \A i \in 0..n : f[i] \in Nat
  PROVE  /\ SumTo(f, 0) = f[0] /\ SumTo(f, n) \in Nat
         /\ n # 0 => SumTo(f, n) = SumTo(f, n - 1) + f[n]
<1>1. f[0] \in Nat /\ n \in 0..n
  OBVIOUS
<1>2. SumTo(f, 0) = f[0]
  <2>1. \A i \in 0..0 : f[i] \in Nat
    BY <1>1
  <2>2. PICK r : Run(r, f[0], Adding(f), 0) /\ SumTo(f, 0) = r[0]
    BY <2>1, SumRun
  <2> QED BY <2>2 DEF Run
<1>3. PICK r : Run(r, f[0], Adding(f), n) /\ SumTo(f, n) = r[n]
  BY SumRun
<1>4. r[n] \in Nat
  BY <1>1, <1>3 DEF Run
<1>5. ASSUME n # 0 PROVE SumTo(f, n) = SumTo(f, n - 1) + f[n]
  <2>1. n - 1 \in Nat /\ n \in 1..n /\ n - 1 \in 0..n /\ \A i \in 0..(n - 1) : i \in 0..n
    BY <1>5
  <2>2. PICK g : Run(g, f[0], Adding(f), n - 1) /\ SumTo(f, n - 1) = g[n - 1]
    BY <2>1, SumRun
  <2>3. r[n - 1] = g[n - 1]
    <3>1. \A i \in 1..(n - 1) : i \in 1..n
      BY <2>1
    <3>2. Follows(r, f[0], Adding(f), n - 1)
      BY <1>3, <3>1 DEF Run, Follows
    <3> QED BY <2>1, <2>2, <3>2, RunAlone
  <2>4. r[n] = Adding(f)[n][r[n - 1]] /\ r[n - 1] \in Nat
    BY <2>1, <1>3 DEF Run
  <2> QED BY <2>2, <2>3, <2>4, <1>3 DEF Adding
<1> QED BY <1>2, <1>3, <1>4, <1>5

\* Nothing is recorded yet.
LEMMA SumOfNone ==
  ASSUME NEW n \in Nat, NEW f, \A i \in 0..n : f[i] = 0
  PROVE  SumTo(f, n) = 0
<1> DEFINE Bad == {k \in 0..n : SumTo(f, k) # 0}
<1>1. Bad = {}
  <2> SUFFICES ASSUME Bad # {} PROVE FALSE
    OBVIOUS
  <2>1. PICK k \in Bad : \A h \in Bad : k <= h
    <3>1. Bad \subseteq Nat
      OBVIOUS
    <3> HIDE DEF Bad
    <3> QED BY <3>1, LeastNatural
  <2>2. k \in Nat /\ \A i \in 0..k : f[i] \in Nat /\ f[i] = 0
    OBVIOUS
  <2>3. SumTo(f, 0) = f[0] /\ (k # 0 => SumTo(f, k) = SumTo(f, k - 1) + f[k])
    BY <2>2, SumSteps
  <2>4. f[0] = 0 /\ f[k] = 0
    BY <2>2
  <2>5. k # 0
    BY <2>3, <2>4
  <2>6. k - 1 \in 0..n /\ ~(k <= k - 1)
    BY <2>5
  <2>7. SumTo(f, k - 1) = 0
    BY <2>1, <2>6
  <2> QED BY <2>3, <2>4, <2>5, <2>7
<1>2. n \in 0..n
  OBVIOUS
<1> QED BY <1>1, <1>2

\* One more at place p: the sums from p on grow by one.
LEMMA SumGrows ==
  ASSUME NEW top \in Nat, NEW f \in [0..top -> Nat], NEW p \in 0..top, NEW n \in 0..top
  PROVE  SumTo([f EXCEPT ![p] = @ + 1], n) = SumTo(f, n) + IF p <= n THEN 1 ELSE 0
<1>1. PICK g : g = [f EXCEPT ![p] = @ + 1]
  OBVIOUS
<1>2. g \in [0..top -> Nat] /\ \A i \in 0..top : g[i] = f[i] + IF i = p THEN 1 ELSE 0
  BY <1>1
<1> DEFINE Good(k) == SumTo(g, k) = SumTo(f, k) + IF p <= k THEN 1 ELSE 0
           Bad == {k \in 0..n : ~Good(k)}
<1>3. Bad = {}
  <2> SUFFICES ASSUME Bad # {} PROVE FALSE
    OBVIOUS
  <2>1. PICK k \in Bad : \A h \in Bad : k <= h
    <3>1. Bad \subseteq Nat
      OBVIOUS
    <3> HIDE DEF Bad
    <3> QED BY <3>1, LeastNatural
  <2>2. k \in Nat /\ k \in 0..top /\ 0 \in 0..top /\ \A i \in 0..k : i \in 0..top
    OBVIOUS
  <2>3. \A i \in 0..k : f[i] \in Nat /\ g[i] \in Nat
    BY <1>2, <2>2
  <2>4. SumTo(f, 0) = f[0] /\ (k # 0 => SumTo(f, k) = SumTo(f, k - 1) + f[k])
    BY <2>2, <2>3, SumSteps
  <2>5. SumTo(g, 0) = g[0] /\ (k # 0 => SumTo(g, k) = SumTo(g, k - 1) + g[k])
    BY <2>2, <2>3, SumSteps
  <2>6. g[0] = f[0] + (IF 0 = p THEN 1 ELSE 0) /\ g[k] = f[k] + IF k = p THEN 1 ELSE 0
    BY <1>2, <2>2
  <2>7. CASE k = 0
    <3>1. p <= 0 <=> 0 = p
      OBVIOUS
    <3>2. Good(0)
      BY <2>4, <2>5, <2>6, <3>1
    <3> QED BY <2>7, <3>2
  <2>8. CASE k # 0
    <3>1. k - 1 \in Nat /\ k - 1 \in 0..n /\ ~(k <= k - 1) /\ \A i \in 0..(k - 1) : i \in 0..k
      BY <2>8, <2>2
    <3>2. Good(k - 1)
      BY <2>1, <3>1
    <3>3. SumTo(f, k - 1) \in Nat /\ SumTo(g, k - 1) \in Nat
      BY <2>3, <3>1, SumSteps
    <3>4. f[k] \in Nat /\ g[k] \in Nat
      BY <2>2, <1>2
    <3>5. SumTo(g, k) = SumTo(g, k - 1) + g[k] /\ SumTo(f, k) = SumTo(f, k - 1) + f[k]
      BY <2>4, <2>5, <2>8
    <3>6. CASE p <= k - 1
      <4>1. k # p /\ p <= k
        BY <2>2, <3>6
      <4>2. g[k] = f[k]
        BY <2>6, <3>4, <4>1
      <4>3. SumTo(g, k - 1) = SumTo(f, k - 1) + 1
        BY <3>2, <3>6
      <4>4. SumTo(g, k) = SumTo(f, k) + 1
        BY <3>3, <3>4, <3>5, <4>2, <4>3
      <4> QED BY <4>1, <4>4
    <3>7. CASE ~(p <= k - 1)
      <4>1. p <= k <=> k = p
        BY <2>2, <3>7
      <4>2. SumTo(g, k - 1) = SumTo(f, k - 1)
        BY <3>2, <3>3, <3>7
      <4>3. CASE k = p
        <5>1. g[k] = f[k] + 1 /\ p <= k
          BY <2>2, <2>6, <4>3
        <5>2. SumTo(g, k) = SumTo(f, k) + 1
          BY <3>3, <3>4, <3>5, <4>2, <5>1
        <5> QED BY <5>1, <5>2
      <4>4. CASE k # p
        <5>1. g[k] = f[k] /\ ~(p <= k)
          BY <2>6, <3>4, <4>1, <4>4
        <5>2. SumTo(g, k) = SumTo(f, k) + 0
          BY <3>3, <3>4, <3>5, <4>2, <5>1
        <5> QED BY <5>1, <5>2
      <4> QED BY <4>3, <4>4
    <3> QED BY <3>6, <3>7
  <2> QED BY <2>7, <2>8
<1>4. n \in 0..n
  OBVIOUS
<1> QED BY <1>1, <1>3, <1>4

-----------------------------------------------------------------------------
(***************************************************************************)
(* The place of a value among the slots.                                   *)
(***************************************************************************)
Place(v) == locate(v)[1] * SLOTS + locate(v)[2]

LEMMA DivBounds ==
  ASSUME NEW v \in Nat, NEW h \in Nat \ {0}
  PROVE  /\ v \div h \in Nat /\ (v \div h) * h <= v /\ v < (v \div h) * h + h
         /\ \A s \in Nat : h * s <= v => s <= v \div h
         /\ \A t \in Nat : v < h * t => v \div h < t
<1>1. PICK q \in Nat : q = v \div h /\ q * h <= v /\ v < q * h + h
  <2>1. v \div h \in Nat /\ (v \div h) * h <= v /\ v < (v \div h) * h + h
    OBVIOUS
  <2> QED BY <2>1
<1>2. ASSUME NEW s \in Nat, h * s <= v PROVE s <= q
  <2>1. CASE s > q
    <3>1. h * (q + 1) <= h * s
      BY <2>1
    <3>2. h * (q + 1) = q * h + h
      OBVIOUS
    <3> QED BY <3>1, <3>2, <1>1, <1>2
  <2> QED BY <2>1
<1>3. ASSUME NEW t \in Nat, v < h * t PROVE q < t
  <2>1. CASE t <= q
    <3>1. h * t <= h * q
      BY <2>1
    <3>2. h * q = q * h
      OBVIOUS
    <3> QED BY <3>1, <3>2, <1>1, <1>3
  <2> QED BY <2>1
<1> QED BY <1>1, <1>2, <1>3

LEMMA DivRest ==
  ASSUME NEW i \in Nat, NEW c \in Nat \ {0}, NEW q \in Nat, q = i \div c,
         NEW r \in Nat, r = i % c
  PROVE  i = q * c + r
OBVIOUS

LEMMA DivMod ==
  ASSUME NEW b \in Nat, NEW c \in Nat \ {0}, NEW s \in 0..(c - 1)
  PROVE  (b * c + s) \div c = b /\ (b * c + s) % c = s
<1>1. PICK i \in Nat : i = b * c + s
  OBVIOUS
<1>2. PICK q \in Nat : q = i \div c /\ q * c <= i /\ i < q * c + c
  BY DivBounds
<1>3. q = b
  <2>1. CASE q < b
    <3>1. (q + 1) * c <= b * c
      BY <2>1
    <3>2. (q + 1) * c = q * c + c
      OBVIOUS
    <3> QED BY <3>1, <3>2, <1>1, <1>2
  <2>2. CASE q > b
    <3>1. (b + 1) * c <= q * c
      BY <2>2
    <3>2. (b + 1) * c = b * c + c
      OBVIOUS
    <3> QED BY <3>1, <3>2, <1>1, <1>2
  <2> QED BY <2>1, <2>2
<1>4. PICK r \in Nat : r = i % c
  OBVIOUS
<1>5. i = q * c + r
  BY <1>2, <1>4, DivRest
<1>6. r = s
  <2>1. PICK t \in Nat : t = b * c
    OBVIOUS
  <2> QED BY <1>1, <1>3, <1>5, <2>1
<1> QED BY <1>1, <1>2, <1>3, <1>4, <1>6

LEMMA Widths ==
  /\ SIGNIFICANT_BITS \in Nat /\ SampleBits \in Nat /\ SIGNIFICANT_BITS < SampleBits
  /\ SLOTS \in Nat \ {0} /\ MAX_BUCKET \in Nat
  /\ ShiftLeft(1, SampleBits) \in Nat \ {0}
  /\ Samples \subseteq Nat /\ 0 \in Samples
  /\ \A v \in Samples : v < ShiftLeft(1, SampleBits)
<1>1. SIGNIFICANT_BITS \in Nat /\ SampleBits \in Nat /\ SIGNIFICANT_BITS < SampleBits
  BY HistogramAssumption
<1>2. ShiftLeft(1, SIGNIFICANT_BITS) \in Nat \ {0} /\ ShiftLeft(1, SampleBits) \in Nat \ {0}
  BY <1>1, PowersGrow
<1> QED BY <1>1, <1>2 DEF SLOTS, MAX_BUCKET, Samples

LEMMA Magnitude ==
  ASSUME NEW v \in Samples, ~(v < SLOTS)
  PROVE  /\ ilog2(v) \in SIGNIFICANT_BITS..(SampleBits - 1)
         /\ ShiftLeft(1, ilog2(v)) <= v /\ v < ShiftLeft(1, ilog2(v) + 1)
<1> DEFINE B == {b \in Nat : v < ShiftLeft(1, b + 1)}
<1>1. v \in Nat /\ v < ShiftLeft(1, SampleBits) /\ v >= 1 /\ v >= SLOTS
  BY Widths
<1>2. SampleBits - 1 \in Nat /\ (SampleBits - 1) + 1 = SampleBits /\ SIGNIFICANT_BITS \in Nat
  BY Widths
<1>3. SampleBits - 1 \in B
  BY <1>1, <1>2
<1>4. PICK b \in B : \A h \in B : b <= h
  <2>1. B \subseteq Nat /\ B # {}
    BY <1>3
  <2> HIDE DEF B
  <2> QED BY <2>1, LeastNatural
<1>5. ShiftLeft(1, b) <= v
  <2>1. CASE b = 0
    <3>1. ShiftLeft(1, 0) = 1
      BY ShiftSteps
    <3> QED BY <2>1, <3>1, <1>1
  <2>2. CASE b # 0
    <3>1. b - 1 \in Nat /\ (b - 1) + 1 = b /\ ~(b <= b - 1)
      BY <2>2
    <3>2. b - 1 \notin B
      BY <3>1, <1>4
    <3>3. ShiftLeft(1, b) \in Nat
      BY ShiftSteps
    <3> QED BY <3>1, <3>2, <3>3, <1>1
  <2> QED BY <2>1, <2>2
<1>6. b \in 0..(SampleBits - 1) /\ ShiftLeft(1, b) <= v /\ v < ShiftLeft(1, b + 1)
  BY <1>2, <1>3, <1>4, <1>5
<1>7. PICK m : m = ilog2(v)
  OBVIOUS
<1>8. m \in 0..(SampleBits - 1) /\ ShiftLeft(1, m) <= v /\ v < ShiftLeft(1, m + 1)
  <2> HIDE DEF B
  <2> QED BY <1>6, <1>7 DEF ilog2
<1>9. SIGNIFICANT_BITS <= m
  <2>1. CASE m < SIGNIFICANT_BITS
    <3>1. m + 1 \in Nat /\ m + 1 <= SIGNIFICANT_BITS
      BY <2>1, <1>2, <1>8
    <3>2. ShiftLeft(1, m + 1) \in Nat /\ ShiftLeft(1, m + 1) <= SLOTS
      BY <3>1, <1>2, PowersGrow DEF SLOTS
    <3>3. SLOTS \in Nat
      BY Widths
    <3> QED BY <3>2, <3>3, <1>1, <1>8
  <2> QED BY <2>1, <1>2, <1>8
<1>10. m \in SIGNIFICANT_BITS..(SampleBits - 1)
  BY <1>2, <1>8, <1>9
<1> QED BY <1>7, <1>8, <1>10

\* What locate says of a value: its bucket, and its slot in it.
Located(v, b, s) ==
  /\ locate(v) = <<b, s>>
  /\ b \in 0..MAX_BUCKET /\ s \in 0..(SLOTS - 1)
  /\ b = 0 => v < SLOTS /\ s = v
  /\ b # 0 => /\ s = v \div ShiftLeft(1, b - 1) - SLOTS
              /\ SLOTS <= v
              /\ ShiftLeft(1, (b - 1) + SIGNIFICANT_BITS) <= v
              /\ v < ShiftLeft(1, b + SIGNIFICANT_BITS)

LEMMA LocatedAt ==
  ASSUME NEW v \in Samples
  PROVE  \E b, s : Located(v, b, s)
<1>1. CASE v < SLOTS
  <2>1. locate(v) = <<0, v>>
    BY <1>1 DEF locate
  <2>2. 0 \in 0..MAX_BUCKET /\ v \in 0..(SLOTS - 1)
    BY <1>1, Widths
  <2>3. Located(v, 0, v)
    BY <2>1, <2>2, <1>1 DEF Located
  <2> QED BY <2>3
<1>2. CASE ~(v < SLOTS)
  <2>1. PICK m : m = ilog2(v)
    OBVIOUS
  <2>2. /\ m \in SIGNIFICANT_BITS..(SampleBits - 1)
        /\ ShiftLeft(1, m) <= v /\ v < ShiftLeft(1, m + 1)
    BY <1>2, <2>1, Magnitude
  <2>3. PICK b : b = m - SIGNIFICANT_BITS + 1
    OBVIOUS
  <2>4. /\ b \in 1..MAX_BUCKET /\ b - 1 \in Nat /\ m = (b - 1) + SIGNIFICANT_BITS
        /\ m + 1 = b + SIGNIFICANT_BITS /\ SIGNIFICANT_BITS \in Nat
    BY <2>2, <2>3, Widths DEF MAX_BUCKET
  <2>5. PICK h : h = ShiftLeft(1, b - 1)
    OBVIOUS
  <2>6. h \in Nat \ {0}
    BY <2>4, <2>5, PowersGrow
  <2>7. ShiftLeft(1, m) = h * SLOTS
    BY <2>4, <2>5, ShiftAdds DEF SLOTS
  <2>8. ShiftLeft(1, m + 1) = 2 * ShiftLeft(1, m)
    BY <2>4, ShiftSteps
  <2>9. v \in Nat /\ SLOTS \in Nat \ {0}
    BY Widths
  <2>10. h * SLOTS <= v /\ v < h * (2 * SLOTS)
    <3>1. 2 * (h * SLOTS) = h * (2 * SLOTS)
      BY <2>6, <2>9
    <3>2. PICK t \in Nat : t = h * SLOTS
      BY <2>6, <2>9
    <3>3. t <= v /\ v < 2 * t
      BY <2>2, <2>7, <2>8, <3>2
    <3> QED BY <2>6, <2>9, <3>1, <3>2, <3>3
  <2>11. v \div h \in Nat /\ SLOTS <= v \div h /\ v \div h < 2 * SLOTS
    <3>1. PICK t \in Nat : t = 2 * SLOTS
      BY <2>9
    <3>2. h * SLOTS <= v /\ v < h * t
      BY <2>10, <3>1
    <3>3. v \div h \in Nat /\ SLOTS <= v \div h /\ v \div h < t
      BY <2>6, <2>9, <3>2, DivBounds
    <3> QED BY <3>1, <3>3
  <2>12. PICK s : s = v \div h - SLOTS
    OBVIOUS
  <2>13. s \in 0..(SLOTS - 1)
    BY <2>9, <2>11, <2>12
  <2>14. locate(v) = <<b, s>>
    BY <1>2, <2>1, <2>3, <2>5, <2>12 DEF locate, ShiftRight
  <2>15. b # 0 /\ b \in 0..MAX_BUCKET /\ SLOTS <= v
    BY <1>2, <2>4, <2>9, Widths
  <2>16. /\ ShiftLeft(1, (b - 1) + SIGNIFICANT_BITS) <= v
         /\ v < ShiftLeft(1, b + SIGNIFICANT_BITS)
    BY <2>2, <2>4
  <2>17. Located(v, b, s)
    BY <2>5, <2>12, <2>13, <2>14, <2>15, <2>16 DEF Located
  <2> QED BY <2>17
<1> QED BY <1>1, <1>2

LEMMA PlaceOf ==
  ASSUME NEW v, NEW b, NEW s, Located(v, b, s)
  PROVE  /\ Place(v) = b * SLOTS + s /\ Place(v) \in Slots
         /\ Place(v) \div SLOTS = b /\ Place(v) % SLOTS = s
<1>1. SLOTS \in Nat \ {0} /\ MAX_BUCKET \in Nat
  BY Widths
<1>2. b \in Nat /\ b <= MAX_BUCKET /\ s \in Nat /\ s \in 0..(SLOTS - 1) /\ locate(v) = <<b, s>>
  BY <1>1 DEF Located
<1>3. Place(v) = b * SLOTS + s
  BY <1>2 DEF Place
<1>4. b * SLOTS \in Nat /\ b * SLOTS <= MAX_BUCKET * SLOTS
  BY <1>1, <1>2, TimesGrows
<1>5. (MAX_BUCKET + 1) * SLOTS = MAX_BUCKET * SLOTS + SLOTS /\ MAX_BUCKET * SLOTS \in Nat
  BY <1>1
<1>6. Place(v) \in Slots
  <2>1. PICK t, w \in Nat : t = b * SLOTS /\ w = MAX_BUCKET * SLOTS
    BY <1>4, <1>5
  <2>2. PICK z \in Nat : z = (MAX_BUCKET + 1) * SLOTS /\ z = w + SLOTS
    BY <1>1, <1>5, <2>1
  <2>3. t + s \in 0..(z - 1)
    BY <1>1, <1>2, <1>4, <2>1, <2>2
  <2>4. Slots = 0..(z - 1)
    BY <2>2 DEF Slots
  <2>5. Place(v) = t + s
    BY <1>3, <2>1
  <2> QED BY <2>3, <2>4, <2>5
<1>7. (b * SLOTS + s) \div SLOTS = b /\ (b * SLOTS + s) % SLOTS = s
  BY <1>1, <1>2, DivMod
<1> QED BY <1>3, <1>6, <1>7

LEMMA PlaceGrows ==
  ASSUME NEW u \in Samples, NEW v \in Samples, u <= v
  PROVE  Place(u) <= Place(v)
<1>1. PICK a, r : Located(u, a, r)
  BY LocatedAt
<1>2. PICK b, s : Located(v, b, s)
  BY LocatedAt
<1>3. Place(u) = a * SLOTS + r /\ Place(v) = b * SLOTS + s
  BY <1>1, <1>2, PlaceOf
<1>4. SLOTS \in Nat \ {0} /\ MAX_BUCKET \in Nat /\ u \in Nat /\ v \in Nat /\ SIGNIFICANT_BITS \in Nat
  BY Widths
<1>5. a \in Nat /\ b \in Nat /\ r \in Nat /\ s \in Nat /\ r < SLOTS /\ s < SLOTS
  BY <1>1, <1>2, <1>4 DEF Located
<1>6. CASE a = b
  <2>1. CASE b = 0
    <3>1. r = u /\ s = v
      BY <1>1, <1>2, <1>6, <2>1 DEF Located
    <3>2. a * SLOTS = b * SLOTS /\ a * SLOTS \in Nat
      BY <1>4, <1>5, <1>6
    <3> QED BY <1>3, <1>4, <3>1, <3>2
  <2>2. CASE b # 0
    <3>1. PICK h : h = ShiftLeft(1, b - 1)
      OBVIOUS
    <3>2. b - 1 \in Nat
      BY <1>5, <2>2
    <3>3. h \in Nat \ {0}
      BY <3>1, <3>2, PowersGrow
    <3>4. r = u \div h - SLOTS /\ s = v \div h - SLOTS
      BY <1>1, <1>2, <1>6, <2>2, <3>1 DEF Located
    <3>5. PICK q \in Nat : q = u \div h /\ q * h <= u
      BY <3>3, <1>4, DivBounds
    <3>6. h * q <= v /\ v \div h \in Nat
      BY <3>3, <3>5, <1>4, DivBounds
    <3>7. q <= v \div h
      BY <3>3, <3>5, <3>6, <1>4, DivBounds
    <3>8. r <= s
      BY <1>4, <3>4, <3>5, <3>6, <3>7
    <3>9. a * SLOTS = b * SLOTS /\ a * SLOTS \in Nat
      BY <1>4, <1>5, <1>6
    <3> QED BY <1>3, <1>5, <3>8, <3>9
  <2> QED BY <2>1, <2>2
<1>7. CASE a < b
  <2>1. (a + 1) * SLOTS <= b * SLOTS /\ (a + 1) * SLOTS = a * SLOTS + SLOTS
        /\ a * SLOTS \in Nat /\ b * SLOTS \in Nat
    <3>1. a + 1 \in Nat /\ a + 1 <= b
      BY <1>5, <1>7
    <3> QED BY <1>4, <1>5, <3>1, TimesGrows
  <2> QED BY <1>3, <1>4, <1>5, <2>1
<1>8. CASE b < a
  <2>1. a # 0 /\ a - 1 \in Nat
    BY <1>5, <1>8
  <2>2. ShiftLeft(1, (a - 1) + SIGNIFICANT_BITS) <= u /\ SLOTS <= u
    BY <1>1, <2>1 DEF Located
  <2>3. CASE b = 0
    <3>1. v < SLOTS
      BY <1>2, <2>3 DEF Located
    <3> QED BY <3>1, <2>2, <1>4
  <2>4. CASE b # 0
    <3>1. v < ShiftLeft(1, b + SIGNIFICANT_BITS)
      BY <1>2, <2>4 DEF Located
    <3>2. PICK m, n \in Nat : m = b + SIGNIFICANT_BITS /\ n = (a - 1) + SIGNIFICANT_BITS /\ m <= n
      BY <1>4, <1>5, <1>8, <2>1
    <3>3. ShiftLeft(1, m) \in Nat /\ ShiftLeft(1, m) <= ShiftLeft(1, n) /\ ShiftLeft(1, n) \in Nat
      BY <3>2, PowersGrow
    <3> QED BY <3>1, <3>2, <3>3, <2>2, <1>4
  <2> QED BY <2>3, <2>4
<1> QED BY <1>5, <1>6, <1>7, <1>8

\* The value reported for the slot of v: at most v, and near to it.
LEMMA Reported ==
  ASSUME NEW v \in Samples
  PROVE  /\ Place(v) \in Slots
         /\ bucket_value(Place(v) \div SLOTS, Place(v) % SLOTS) \in Nat
         /\ bucket_value(Place(v) \div SLOTS, Place(v) % SLOTS) <= v
         /\ (v - bucket_value(Place(v) \div SLOTS, Place(v) % SLOTS)) * SLOTS <= v
<1>1. PICK b, s : Located(v, b, s)
  BY LocatedAt
<1>2. Place(v) \in Slots /\ Place(v) \div SLOTS = b /\ Place(v) % SLOTS = s
  BY <1>1, PlaceOf
<1>3. SLOTS \in Nat \ {0} /\ MAX_BUCKET \in Nat /\ v \in Nat /\ SIGNIFICANT_BITS \in Nat
  BY Widths
<1>4. b \in Nat /\ s \in Nat
  BY <1>1, <1>3 DEF Located
<1>5. CASE b = 0
  <2>1. bucket_value(b, s) = v
    BY <1>1, <1>5 DEF Located, bucket_value
  <2>2. v - v = 0 /\ 0 * SLOTS = 0
    BY <1>3
  <2> QED BY <1>2, <1>3, <2>1, <2>2
<1>6. CASE b # 0
  <2>1. PICK h : h = ShiftLeft(1, b - 1)
    OBVIOUS
  <2>2. b - 1 \in Nat /\ 0 + (b - 1) = b - 1
    BY <1>4, <1>6
  <2>3. h \in Nat \ {0}
    BY <2>1, <2>2, PowersGrow
  <2>4. PICK q \in Nat : q = v \div h /\ q * h <= v /\ v < q * h + h
    BY <1>3, <2>3, DivBounds
  <2>5. s + SLOTS = q
    <3>1. s = q - SLOTS
      BY <1>1, <1>6, <2>1, <2>4 DEF Located
    <3> QED BY <3>1, <1>3, <1>4, <2>4
  <2>6. bucket_value(b, s) = ShiftLeft(q, b - 1)
    <3>1. bucket_value(b, s) = ShiftLeft(s + SLOTS, b - 1)
      BY <1>6 DEF bucket_value
    <3> QED BY <2>5, <3>1
  <2>7. ShiftLeft(q, 0 + (b - 1)) = ShiftLeft(q, 0) * ShiftLeft(1, b - 1) /\ ShiftLeft(q, 0) = q
    <3>1. ShiftLeft(q, 0) = q
      BY ShiftSteps
    <3>2. 0 \in Nat
      OBVIOUS
    <3>3. ShiftLeft(q, 0 + (b - 1)) = ShiftLeft(q, 0) * ShiftLeft(1, b - 1)
      BY <2>2, <3>2, ShiftAdds
    <3> QED BY <3>1, <3>3
  <2>8. bucket_value(b, s) = q * h
    BY <2>1, <2>2, <2>6, <2>7
  <2>9. ShiftLeft(1, (b - 1) + SIGNIFICANT_BITS) = h * SLOTS
    BY <1>3, <2>1, <2>2, ShiftAdds DEF SLOTS
  <2>10. h * SLOTS <= v
    <3>1. ShiftLeft(1, (b - 1) + SIGNIFICANT_BITS) <= v
      BY <1>1, <1>6 DEF Located
    <3> QED BY <2>9, <3>1
  <2>11. PICK d \in Nat : d = v - q * h
    <3>1. PICK t \in Nat : t = q * h
      BY <2>3
    <3> QED BY <1>3, <2>4, <3>1
  <2>12. d <= h
    BY <1>3, <2>3, <2>4, <2>11
  <2>13. d * SLOTS <= h * SLOTS
    BY <1>3, <2>3, <2>12, TimesGrows
  <2>14. d * SLOTS <= v
    BY <1>3, <2>3, <2>10, <2>13
  <2>15. q * h \in Nat
    BY <2>3
  <2> QED BY <1>2, <2>4, <2>8, <2>11, <2>14, <2>15
<1> QED BY <1>5, <1>6

-----------------------------------------------------------------------------
(***************************************************************************)
(* Samples and slots count alike: up to the slot of v there are at least   *)
(* the samples up to v, and before it at most the samples below v.         *)
(***************************************************************************)
TopSlot == (MAX_BUCKET + 1) * SLOTS - 1
TopSample == ShiftLeft(1, SampleBits) - 1

HistTypes ==
  /\ counts \in [Slots -> Nat] /\ taken \in [Samples -> Nat]
  /\ total \in Nat /\ sum_ns \in Nat /\ least \in Samples /\ most \in Samples

CountsAlike ==
  \A v \in Samples, i \in Slots :
    /\ Place(v) <= i => Below(v) <= CountedTo(i)
    /\ i < Place(v) => v # 0 /\ CountedTo(i) <= Below(v - 1)

AllCounted == CountedTo(TopSlot) = total /\ Below(TopSample) = total

SumBounded == total * least <= sum_ns /\ sum_ns <= total * most

HistInv == HistTypes /\ CountsAlike /\ AllCounted /\ SumBounded

LEMMA Tops ==
  /\ TopSlot \in Nat /\ Slots = 0..TopSlot
  /\ TopSample \in Nat /\ Samples = 0..TopSample
  /\ \A v \in Samples : v \in Nat /\ (v # 0 => v - 1 \in Samples) /\ Place(v) \in Slots
<1>1. SLOTS \in Nat \ {0} /\ MAX_BUCKET \in Nat /\ ShiftLeft(1, SampleBits) \in Nat \ {0}
  BY Widths
<1>2. TopSlot \in Nat
  <2>1. (MAX_BUCKET + 1) * SLOTS \in Nat \ {0}
    BY <1>1
  <2> QED BY <2>1 DEF TopSlot
<1>3. TopSample \in Nat /\ Samples = 0..TopSample /\ Slots = 0..TopSlot
  BY <1>1 DEF TopSample, TopSlot, Samples, Slots
<1>4. \A v \in Samples : v \in Nat /\ (v # 0 => v - 1 \in Samples)
  BY <1>3
<1> QED BY <1>2, <1>3, <1>4, Reported

LEMMA SumsAreNumbers ==
  ASSUME HistTypes
  PROVE  /\ \A v \in Samples : Below(v) \in Nat
         /\ \A i \in Slots : CountedTo(i) \in Nat
<1>1. ASSUME NEW v \in Samples PROVE Below(v) \in Nat
  <2>1. v \in Nat /\ \A i \in 0..v : taken[i] \in Nat
    BY Tops DEF HistTypes
  <2> QED BY <2>1, SumSteps DEF Below
<1>2. ASSUME NEW i \in Slots PROVE CountedTo(i) \in Nat
  <2>1. i \in Nat /\ \A j \in 0..i : counts[j] \in Nat
    BY Tops DEF HistTypes
  <2> QED BY <2>1, SumSteps DEF CountedTo
<1> QED BY <1>1, <1>2

LEMMA RecordSums ==
  ASSUME HistTypes, NEW u \in Samples, record_ns(u)
  PROVE  /\ \A v \in Samples : Below(v)' = Below(v) + IF u <= v THEN 1 ELSE 0
         /\ \A i \in Slots : CountedTo(i)' = CountedTo(i) + IF Place(u) <= i THEN 1 ELSE 0
<1>1. taken' = [taken EXCEPT ![u] = @ + 1]
  BY DEF record_ns
<1>2. counts' = [counts EXCEPT ![Place(u)] = @ + 1]
  BY DEF record_ns, Place
<1>3. TopSample \in Nat /\ taken \in [0..TopSample -> Nat] /\ Samples = 0..TopSample
      /\ TopSlot \in Nat /\ counts \in [0..TopSlot -> Nat] /\ Slots = 0..TopSlot /\ Place(u) \in Slots
  BY Tops DEF HistTypes
<1>4. ASSUME NEW v \in Samples PROVE Below(v)' = Below(v) + IF u <= v THEN 1 ELSE 0
  BY <1>1, <1>3, SumGrows DEF Below
<1>5. ASSUME NEW i \in Slots
      PROVE  CountedTo(i)' = CountedTo(i) + IF Place(u) <= i THEN 1 ELSE 0
  <2>1. SumTo([counts EXCEPT ![Place(u)] = @ + 1], i) = SumTo(counts, i) + IF Place(u) <= i THEN 1 ELSE 0
    BY <1>3, SumGrows
  <2> QED BY <1>2, <2>1 DEF CountedTo
<1> QED BY <1>4, <1>5

LEMMA HistInitInv == HistInit => HistInv
<1> SUFFICES ASSUME HistInit PROVE HistInv
  OBVIOUS
<1>1. HistTypes
  BY Tops DEF HistInit, HistTypes, TopSample
<1>2. ASSUME NEW v \in Samples PROVE Below(v) = 0
  <2>1. v \in Nat /\ \A i \in 0..v : taken[i] = 0
    BY Tops DEF HistInit
  <2> QED BY <2>1, SumOfNone DEF Below
<1>3. ASSUME NEW i \in Slots PROVE CountedTo(i) = 0
  <2>1. i \in Nat /\ \A j \in 0..i : counts[j] = 0
    BY Tops DEF HistInit
  <2> QED BY <2>1, SumOfNone DEF CountedTo
<1>4. CountsAlike
  <2> SUFFICES ASSUME NEW v \in Samples, NEW i \in Slots
               PROVE  /\ Place(v) <= i => Below(v) <= CountedTo(i)
                      /\ i < Place(v) => v # 0 /\ CountedTo(i) <= Below(v - 1)
    BY DEF CountsAlike
  <2>1. Below(v) = 0 /\ CountedTo(i) = 0 /\ (v # 0 => Below(v - 1) = 0)
    BY <1>2, <1>3, Tops
  <2>2. i \in Nat
    BY Tops
  <2>3. ASSUME v = 0 PROVE Place(v) = 0
    <3>1. v < SLOTS
      BY <2>3, Widths
    <3>2. locate(v) = <<0, 0>>
      BY <2>3, <3>1 DEF locate
    <3>3. 0 * SLOTS + 0 = 0
      BY Widths
    <3> QED BY <3>2, <3>3 DEF Place
  <2> QED BY <2>1, <2>2, <2>3
<1>5. AllCounted
  <2>1. TopSlot \in Slots /\ TopSample \in Samples /\ total = 0
    BY Tops DEF HistInit
  <2> QED BY <2>1, <1>2, <1>3 DEF AllCounted
<1>6. SumBounded
  <2>1. total = 0 /\ sum_ns = 0 /\ least \in Nat /\ most \in Nat
    BY <1>1, Tops DEF HistInit, HistTypes
  <2>2. 0 * least = 0 /\ 0 * most = 0
    BY <2>1
  <2> QED BY <2>1, <2>2 DEF SumBounded
<1> QED BY <1>1, <1>4, <1>5, <1>6 DEF HistInv

\* The bounds of a sum of n numbers once v is one of them.
LEMMA SumStaysBounded ==
  ASSUME NEW n \in Nat, NEW sum \in Nat, NEW lo \in Nat, NEW hi \in Nat, NEW v \in Nat,
         n * lo <= sum, sum <= n * hi,
         NEW low \in Nat, low <= lo, low <= v, NEW high \in Nat, hi <= high, v <= high
  PROVE  (n + 1) * low <= sum + v /\ sum + v <= (n + 1) * high
<1>1. low * n <= lo * n /\ hi * n <= high * n
  BY TimesGrows
<1>2. PICK a, b, c, d \in Nat : a = low * n /\ b = lo * n /\ c = hi * n /\ d = high * n
  OBVIOUS
<1>3. n * lo = b /\ n * hi = c /\ (n + 1) * low = a + low /\ (n + 1) * high = d + high
  BY <1>2
<1> QED BY <1>1, <1>2, <1>3

LEMMA RecordKeeps ==
  ASSUME HistInv, NEW u \in Samples, record_ns(u)
  PROVE  HistInv'
<1>1. HistTypes /\ u \in Nat /\ Place(u) \in Slots
  BY Tops DEF HistInv
<1>2. total' = total + 1 /\ sum_ns' = sum_ns + u
      /\ least' = (IF u < least THEN u ELSE least) /\ most' = (IF u > most THEN u ELSE most)
      /\ taken' = [taken EXCEPT ![u] = @ + 1] /\ counts' = [counts EXCEPT ![Place(u)] = @ + 1]
  BY DEF record_ns, Place
<1>3. HistTypes'
  <2>1. counts' \in [Slots -> Nat]
    BY <1>1, <1>2 DEF HistTypes
  <2>2. taken' \in [Samples -> Nat]
    BY <1>1, <1>2 DEF HistTypes
  <2>3. total' \in Nat /\ sum_ns' \in Nat /\ least' \in Samples /\ most' \in Samples
    BY <1>1, <1>2 DEF HistTypes
  <2> QED BY <2>1, <2>2, <2>3 DEF HistTypes
<1>4. /\ \A v \in Samples : Below(v)' = Below(v) + IF u <= v THEN 1 ELSE 0
      /\ \A i \in Slots : CountedTo(i)' = CountedTo(i) + IF Place(u) <= i THEN 1 ELSE 0
      /\ \A v \in Samples : Below(v) \in Nat
      /\ \A i \in Slots : CountedTo(i) \in Nat
  BY <1>1, RecordSums, SumsAreNumbers
<1>5. CountsAlike'
  <2> SUFFICES ASSUME NEW v \in Samples, NEW i \in Slots
               PROVE  /\ Place(v) <= i => Below(v)' <= CountedTo(i)'
                      /\ i < Place(v) => v # 0 /\ CountedTo(i)' <= Below(v - 1)'
    BY DEF CountsAlike, Place, locate, ilog2, SLOTS, Samples, Slots, MAX_BUCKET, ShiftLeft, ShiftRight
  <2>1. v \in Nat /\ i \in Nat /\ Place(v) \in Nat /\ Place(u) \in Nat
    BY <1>1, Tops
  <2>2. /\ Place(v) <= i => Below(v) <= CountedTo(i)
        /\ i < Place(v) => v # 0 /\ CountedTo(i) <= Below(v - 1)
    BY DEF HistInv, CountsAlike
  <2>3. u <= v => Place(u) <= Place(v)
    BY PlaceGrows
  <2>4. v <= u => Place(v) <= Place(u)
    BY PlaceGrows
  <2>5. ASSUME Place(v) <= i PROVE Below(v)' <= CountedTo(i)'
    <3>1. u <= v => Place(u) <= i
      BY <2>1, <2>3, <2>5
    <3> QED BY <1>4, <2>2, <2>5, <3>1
  <2>6. ASSUME i < Place(v) PROVE v # 0 /\ CountedTo(i)' <= Below(v - 1)'
    <3>1. v - 1 \in Samples /\ v # 0
      BY <2>2, <2>6, Tops
    <3>2. Place(u) <= i => u <= v - 1
      BY <1>1, <2>1, <2>4, <2>6
    <3>3. Below(v - 1)' = Below(v - 1) + (IF u <= v - 1 THEN 1 ELSE 0) /\ Below(v - 1) \in Nat
      BY <1>4, <3>1
    <3>4. CountedTo(i)' = CountedTo(i) + (IF Place(u) <= i THEN 1 ELSE 0) /\ CountedTo(i) \in Nat
      BY <1>4
    <3>5. CountedTo(i) <= Below(v - 1)
      BY <2>2, <2>6
    <3> QED BY <3>1, <3>2, <3>3, <3>4, <3>5
  <2> QED BY <2>5, <2>6
<1>6. AllCounted'
  <2>1. TopSlot \in Slots /\ TopSample \in Samples /\ u <= TopSample /\ Place(u) <= TopSlot
    BY <1>1, Tops
  <2>2. CountedTo(TopSlot)' = total + 1 /\ Below(TopSample)' = total + 1
    BY <1>4, <2>1 DEF HistInv, AllCounted
  <2> QED BY <1>2, <2>2 DEF AllCounted
<1>7. SumBounded'
  <2>1. least \in Nat /\ most \in Nat /\ least' \in Nat /\ most' \in Nat /\ total \in Nat /\ sum_ns \in Nat
    BY <1>1, <1>3, Tops DEF HistTypes
  <2>2. least' <= least /\ least' <= u /\ most <= most' /\ u <= most'
    BY <1>1, <1>2, <2>1
  <2>3. total * least <= sum_ns /\ sum_ns <= total * most
    BY DEF HistInv, SumBounded
  <2>4. (total + 1) * least' <= sum_ns + u /\ sum_ns + u <= (total + 1) * most'
    BY <1>1, <2>1, <2>2, <2>3, SumStaysBounded
  <2> QED BY <1>2, <2>4 DEF SumBounded
<1> QED BY <1>3, <1>5, <1>6, <1>7 DEF HistInv

LEMMA HistStep == HistInv /\ [HistNext]_histVars => HistInv'
<1> SUFFICES ASSUME HistInv, [HistNext]_histVars PROVE HistInv'
  OBVIOUS
<1>1. CASE HistNext
  BY <1>1, RecordKeeps DEF HistNext
<1>2. CASE UNCHANGED histVars
  <2>1. UNCHANGED <<counts, total, least, most, sum_ns, taken>>
    BY <1>2 DEF histVars
  <2>2. \A n : CountedTo(n)' = CountedTo(n) /\ Below(n)' = Below(n)
    BY <2>1 DEF CountedTo, Below
  <2>3. HistTypes' /\ SumBounded'
    BY <2>1 DEF HistInv, HistTypes, SumBounded
  <2>4. CountsAlike'
    BY <2>2 DEF HistInv, CountsAlike
  <2>5. AllCounted'
    BY <2>1, <2>2 DEF HistInv, AllCounted
  <2> QED BY <2>3, <2>4, <2>5 DEF HistInv
<1> QED BY <1>1, <1>2

-----------------------------------------------------------------------------
\* The rank asked for is one of a sample.
LEMMA RankInRange ==
  ASSUME HistTypes, total > 0, NEW pct \in Percents
  PROVE  Rank(pct) \in 1..total
<1>1. total \in Nat \ {0} /\ pct \in Nat \ {0}
  BY HistogramAssumption DEF HistTypes
<1>2. PICK t \in Nat \ {0} : t = total * pct
  BY <1>1
<1>3. (t + 99) \div 100 \in Nat /\ (t + 99) \div 100 >= 1
  BY <1>2
<1> QED BY <1>1, <1>2, <1>3 DEF Rank

\* The slot the loop stops at is the slot of the sample of that rank.
LEMMA RankedSlot ==
  ASSUME HistInv, total > 0, NEW rank \in 1..total,
         NEW v \in Samples, Below(v) >= rank, v > 0 => Below(v - 1) < rank,
         NEW i \in Slots, CountedTo(i) >= rank, i > 0 => CountedTo(i - 1) < rank
  PROVE  i = Place(v)
<1>1. v \in Nat /\ i \in Nat /\ Place(v) \in Nat /\ rank \in Nat
  BY Tops DEF HistInv, HistTypes
<1>2. /\ \A w \in Samples : Below(w) \in Nat
      /\ \A j \in Slots : CountedTo(j) \in Nat
  BY SumsAreNumbers DEF HistInv
<1>3. CASE i < Place(v)
  <2>1. v # 0 /\ CountedTo(i) <= Below(v - 1)
    BY <1>3 DEF HistInv, CountsAlike
  <2>2. v > 0 /\ v - 1 \in Samples
    BY <1>1, <2>1, Tops
  <2> QED BY <1>1, <1>2, <2>1, <2>2
<1>4. CASE Place(v) < i
  <2>1. i > 0 /\ i - 1 \in Slots /\ Place(v) <= i - 1
    BY <1>1, <1>4, Tops
  <2>2. Below(v) <= CountedTo(i - 1)
    BY <2>1 DEF HistInv, CountsAlike
  <2> QED BY <1>1, <1>2, <2>1, <2>2
<1> QED BY <1>1, <1>3, <1>4

\* There is a first place at which a running sum reaches a rank it does reach.
LEMMA FirstReached ==
  ASSUME NEW top \in Nat, NEW f \in [0..top -> Nat], NEW rank \in Nat, SumTo(f, top) >= rank
  PROVE  \E j \in 0..top : SumTo(f, j) >= rank /\ (j > 0 => SumTo(f, j - 1) < rank)
<1> DEFINE Reached == {k \in 0..top : SumTo(f, k) >= rank}
<1>1. Reached \subseteq Nat /\ top \in Reached
  OBVIOUS
<1>2. PICK j \in Reached : \A k \in Reached : j <= k
  <2> HIDE DEF Reached
  <2> QED BY <1>1, LeastNatural
<1>3. ASSUME j > 0 PROVE SumTo(f, j - 1) < rank
  <2>1. j - 1 \in 0..top /\ j - 1 \in Nat /\ ~(j <= j - 1)
    BY <1>3
  <2>2. \A i \in 0..(j - 1) : f[i] \in Nat
    BY <2>1
  <2>3. SumTo(f, j - 1) \in Nat
    BY <2>1, <2>2, SumSteps
  <2> QED BY <1>2, <2>1, <2>3
<1> QED BY <1>3

LEMMA PercentileNear ==
  ASSUME HistInv, total > 0, NEW pct \in Percents
  PROVE  /\ percentile_ns(pct) <= Exact(pct)
         /\ (Exact(pct) - percentile_ns(pct)) * SLOTS <= Exact(pct)
<1>1. HistTypes /\ AllCounted
  BY DEF HistInv
<1>2. PICK rank \in 1..total : rank = Rank(pct)
  BY <1>1, RankInRange
<1>3. rank \in Nat /\ rank <= total /\ total \in Nat
  BY <1>1 DEF HistTypes
<1>4. /\ TopSample \in Nat /\ taken \in [0..TopSample -> Nat] /\ Samples = 0..TopSample
      /\ TopSlot \in Nat /\ counts \in [0..TopSlot -> Nat] /\ Slots = 0..TopSlot
  BY <1>1, Tops DEF HistTypes
<1>5. \E v \in Samples : Below(v) >= rank /\ (v > 0 => Below(v - 1) < rank)
  <2>1. SumTo(taken, TopSample) >= rank
    BY <1>1, <1>3 DEF AllCounted, Below
  <2>2. \E v \in 0..TopSample : SumTo(taken, v) >= rank /\ (v > 0 => SumTo(taken, v - 1) < rank)
    BY <1>3, <1>4, <2>1, FirstReached
  <2> QED BY <1>4, <2>2 DEF Below
<1>6. \E i \in Slots : CountedTo(i) >= rank /\ (i > 0 => CountedTo(i - 1) < rank)
  <2>1. SumTo(counts, TopSlot) >= rank
    BY <1>1, <1>3 DEF AllCounted, CountedTo
  <2>2. \E i \in 0..TopSlot : SumTo(counts, i) >= rank /\ (i > 0 => SumTo(counts, i - 1) < rank)
    BY <1>3, <1>4, <2>1, FirstReached
  <2> QED BY <1>4, <2>2 DEF CountedTo
<1>7. PICK v : v = Exact(pct)
  OBVIOUS
<1>8. v \in Samples /\ Below(v) >= rank /\ (v > 0 => Below(v - 1) < rank)
  BY <1>2, <1>5, <1>7 DEF Exact
<1>9. PICK i : i = CHOOSE j \in Slots : CountedTo(j) >= Rank(pct) /\ (j > 0 => CountedTo(j - 1) < Rank(pct))
  OBVIOUS
<1>10. i \in Slots /\ CountedTo(i) >= rank /\ (i > 0 => CountedTo(i - 1) < rank)
  BY <1>2, <1>6, <1>9
<1>11. i = Place(v)
  BY <1>8, <1>10, RankedSlot
<1>12. percentile_ns(pct) = bucket_value(i \div SLOTS, i % SLOTS)
  <2>1. total # 0
    BY <1>3
  <2> QED BY <1>9, <2>1 DEF percentile_ns
<1>13. percentile_ns(pct) <= v /\ (v - percentile_ns(pct)) * SLOTS <= v
  BY <1>8, <1>11, <1>12, Reported
<1> QED BY <1>7, <1>13

LEMMA MeanBetween ==
  ASSUME HistInv, total > 0
  PROVE  least <= mean /\ mean <= most
<1>1. total \in Nat \ {0} /\ sum_ns \in Nat /\ least \in Nat /\ most \in Nat
  BY Tops DEF HistInv, HistTypes
<1>2. total * least <= sum_ns /\ sum_ns <= total * most
  BY DEF HistInv, SumBounded
<1>3. PICK q \in Nat : q = sum_ns \div total /\ q * total <= sum_ns
  BY <1>1, DivBounds
<1>4. least <= q
  BY <1>1, <1>2, <1>3, DivBounds
<1>5. q <= most
  <2>1. PICK t \in Nat : t = total * (most + 1) /\ t = total * most + total
    BY <1>1
  <2>2. sum_ns < total * (most + 1) /\ most + 1 \in Nat
    BY <1>1, <1>2, <2>1
  <2>3. q < most + 1
    BY <1>1, <1>3, <2>2, DivBounds
  <2> QED BY <1>1, <2>3
<1> QED BY <1>3, <1>4, <1>5 DEF mean

(***************************************************************************)
(* What the histogram reports of a percentile is the lower end of the slot *)
(* of the true one, and the mean lies between the extremes, for every      *)
(* number of significant bits, every width of a sample and every sequence  *)
(* of samples (histogram.rs, record_ns, percentile_ns and mean).           *)
(***************************************************************************)
THEOREM PercentilesStaySound == HistSpec => []PercentilesSound
<1>1. HistInv => PercentilesSound
  BY PercentileNear, MeanBetween DEF PercentilesSound
<1> QED BY HistInitInv, HistStep, <1>1, PTL DEF HistSpec
==============================================================================
