--------------------------- MODULE DeliveryProofs ---------------------------
(***************************************************************************)
(* Proofs about module Delivery, the session core closed with the clients, *)
(* for any set of users, any number of connections, messages, faults and   *)
(* restarts, and any capacities.                                           *)
(***************************************************************************)
EXTENDS Delivery, SessionsProofs, SequenceTheorems

(***************************************************************************)
(* What a sequence holds, as a set.                                        *)
(***************************************************************************)
LEMMA HeldAppended ==
  ASSUME NEW S, NEW s \in Seq(S), NEW x \in S
  PROVE  Append(s, x) \in Seq(S) /\ ToSet(Append(s, x)) = ToSet(s) \cup {x}
<1>1. /\ Append(s, x) \in Seq(S) /\ Len(s) \in Nat
      /\ DOMAIN s = 1..Len(s) /\ DOMAIN Append(s, x) = 1..(Len(s) + 1)
      /\ \A i \in 1..Len(s) : Append(s, x)[i] = s[i]
      /\ Append(s, x)[Len(s) + 1] = x
  OBVIOUS
<1>2. \A i \in 1..(Len(s) + 1) : i \in 1..Len(s) \/ i = Len(s) + 1
  BY <1>1
<1>3. \A i \in 1..Len(s) : i \in 1..(Len(s) + 1)
  BY <1>1
<1>4. Len(s) + 1 \in 1..(Len(s) + 1)
  BY <1>1
<1> QED BY <1>1, <1>2, <1>3, <1>4 DEF ToSet

LEMMA HeldJoined ==
  ASSUME NEW S, NEW s \in Seq(S), NEW t \in Seq(S)
  PROVE  s \o t \in Seq(S) /\ ToSet(s \o t) = ToSet(s) \cup ToSet(t)
<1> DEFINE n == Len(s)
           k == Len(t)
<1>1. /\ s \o t \in Seq(S) /\ n \in Nat /\ k \in Nat
      /\ DOMAIN s = 1..n /\ DOMAIN t = 1..k /\ DOMAIN (s \o t) = 1..(n + k)
      /\ \A i \in 1..(n + k) : (s \o t)[i] = IF i <= n THEN s[i] ELSE t[i - n]
  BY ConcatProperties
<1> HIDE DEF n, k
<1>2. \A i \in 1..n : i \in 1..(n + k) /\ (s \o t)[i] = s[i]
  BY <1>1
<1>3. \A i \in 1..k : n + i \in 1..(n + k) /\ (s \o t)[n + i] = t[i]
  <2> TAKE i \in 1..k
  <2>1. n + i \in 1..(n + k) /\ ~(n + i <= n) /\ (n + i) - n = i
    BY <1>1
  <2>2. (s \o t)[n + i] = IF n + i <= n THEN s[n + i] ELSE t[(n + i) - n]
    BY <2>1, <1>1
  <2> QED BY <2>1, <2>2
<1>4. \A i \in 1..(n + k) : \/ i \in 1..n
                            \/ \E j \in 1..k : i = n + j
  <2> TAKE i \in 1..(n + k)
  <2>1. i <= n \/ (i - n \in 1..k /\ i = n + (i - n))
    BY <1>1
  <2> QED BY <2>1, <1>1
<1>5. ASSUME NEW x \in ToSet(s \o t) PROVE x \in ToSet(s) \cup ToSet(t)
  <2>1. PICK i \in 1..(n + k) : x = (s \o t)[i]
    BY <1>1 DEF ToSet
  <2>2. CASE i \in 1..n
    BY <2>1, <2>2, <1>1, <1>2 DEF ToSet
  <2>3. ASSUME NEW j \in 1..k, i = n + j PROVE x \in ToSet(t)
    BY <2>1, <2>3, <1>1, <1>3 DEF ToSet
  <2> QED BY <2>2, <2>3, <1>4
<1>6. ToSet(s) \subseteq ToSet(s \o t)
  BY <1>1, <1>2 DEF ToSet
<1>7. ASSUME NEW x \in ToSet(t) PROVE x \in ToSet(s \o t)
  <2>1. PICK i \in 1..k : x = t[i]
    BY <1>1 DEF ToSet
  <2>2. n + i \in DOMAIN (s \o t) /\ (s \o t)[n + i] = x
    BY <2>1, <1>1, <1>3
  <2> QED BY <2>2 DEF ToSet
<1> QED BY <1>1, <1>5, <1>6, <1>7

LEMMA HeldTail ==
  ASSUME NEW S, NEW s \in Seq(S), s # << >>
  PROVE  /\ Head(s) \in S /\ Tail(s) \in Seq(S)
         /\ Head(s) \in ToSet(s)
         /\ ToSet(Tail(s)) \subseteq ToSet(s)
         /\ ToSet(s) \subseteq ToSet(Tail(s)) \cup {Head(s)}
<1> DEFINE n == Len(s)
<1>1. /\ n \in Nat \ {0} /\ DOMAIN s = 1..n /\ DOMAIN Tail(s) = 1..(n - 1)
      /\ Head(s) = s[1] /\ Head(s) \in S /\ Tail(s) \in Seq(S)
      /\ \A i \in 1..(n - 1) : Tail(s)[i] = s[i + 1]
  BY HeadTailProperties, EmptySeq
<1> HIDE DEF n
<1>2. 1 \in 1..n /\ \A i \in 1..(n - 1) : i + 1 \in 1..n
  BY <1>1
<1>3. \A i \in 1..n : i = 1 \/ \E j \in 1..(n - 1) : i = j + 1
  <2> TAKE i \in 1..n
  <2>1. i = 1 \/ (i - 1 \in 1..(n - 1) /\ i = (i - 1) + 1)
    BY <1>1
  <2> QED BY <2>1
<1>4. Head(s) \in ToSet(s)
  BY <1>1, <1>2 DEF ToSet
<1>5. ToSet(Tail(s)) \subseteq ToSet(s)
  BY <1>1, <1>2 DEF ToSet
<1>6. ASSUME NEW x \in ToSet(s) PROVE x \in ToSet(Tail(s)) \cup {Head(s)}
  <2>1. PICK i \in 1..n : x = s[i]
    BY <1>1 DEF ToSet
  <2>2. ASSUME NEW j \in 1..(n - 1), i = j + 1 PROVE x \in ToSet(Tail(s))
    BY <2>1, <2>2, <1>1 DEF ToSet
  <2> QED BY <2>1, <2>2, <1>1, <1>3
<1> QED BY <1>1, <1>4, <1>5, <1>6

LEMMA HeldPrefix ==
  ASSUME NEW S, NEW s \in Seq(S), NEW k \in 0..Len(s)
  PROVE  SubSeq(s, 1, k) \in Seq(S) /\ ToSet(SubSeq(s, 1, k)) \subseteq ToSet(s)
<1>1. /\ Len(s) \in Nat /\ DOMAIN s = 1..Len(s) /\ \A i \in 1..k : i \in 1..Len(s) /\ s[i] \in S
  BY ElementOfSeq
<1>2. /\ SubSeq(s, 1, k) \in Seq(S) /\ DOMAIN SubSeq(s, 1, k) = 1..k
      /\ \A i \in 1..k : SubSeq(s, 1, k)[i] = s[i]
  BY <1>1
<1> QED BY <1>1, <1>2 DEF ToSet

LEMMA HeldIn ==
  ASSUME NEW S, NEW s \in Seq(S)
  PROVE  /\ ToSet(s) \subseteq S
         /\ \A x : x \in ToSet(s) <=> \E i \in 1..Len(s) : s[i] = x
BY ElementOfSeq, LenProperties DEF ToSet

-----------------------------------------------------------------------------
(***************************************************************************)
(* What the client takes in.                                               *)
(***************************************************************************)
Keys == Users \X Nat
Inboxes == [cursor : Nat, seen : Seq(Keys), shown : Seq(Keys)]
SeenIsShown(w) == ToSet(w.seen) \subseteq ToSet(w.shown)

\* The window holds the last messages shown, and two showings of the same
\* message are further apart than the window is long.
Window(w) ==
  /\ Len(w.seen) = IF Len(w.shown) < DEDUP_CAPACITY THEN Len(w.shown) ELSE DEDUP_CAPACITY
  /\ \A i \in 1..Len(w.seen) : w.seen[i] = w.shown[(Len(w.shown) - Len(w.seen)) + i]
  /\ \A i, j \in 1..Len(w.shown) : i < j /\ j - i <= DEDUP_CAPACITY => w.shown[i] # w.shown[j]

\* The inbox is well formed; msgs is what has been taken in since box.
WellKept(w) == w \in Inboxes /\ SeenIsShown(w)

LEMMA KeyIsKey == \A m \in Msgs : Key(m) \in Keys /\ m.id \in Nat
  BY SessionsAssumption DEF Msgs, Key, Keys

\* A message the window does not know is appended to both sequences.
LEMMA IngestTakes ==
  ASSUME NEW w \in Inboxes, NEW m \in Msgs
  PROVE  /\ Ingest(w, m) \in Inboxes
         /\ Key(m) \in ToSet(w.seen) => Ingest(w, m) = w
         /\ Key(m) \notin ToSet(w.seen) =>
              /\ Ingest(w, m).shown = Append(w.shown, Key(m))
              /\ Ingest(w, m).seen = admit(w.seen, Key(m))
<1>1. /\ w.seen \in Seq(Keys) /\ w.shown \in Seq(Keys) /\ w.cursor \in Nat
      /\ Key(m) \in Keys /\ m.id \in Nat
  BY KeyIsKey DEF Inboxes
<1>2. Key(m) \in ToSet(w.seen) <=> \E i \in 1..Len(w.seen) : w.seen[i] = Key(m)
  BY <1>1, HeldIn
<1>3. admit(w.seen, Key(m)) \in Seq(Keys)
  <2>1. Len(w.seen) = DEDUP_CAPACITY => w.seen # << >>
    BY <1>1, DeliveryAssumption
  <2>2. (IF Len(w.seen) = DEDUP_CAPACITY THEN Tail(w.seen) ELSE w.seen) \in Seq(Keys)
    BY <1>1, <2>1, HeadTailProperties
  <2> QED BY <1>1, <2>2, HeldAppended DEF admit
<1>4. Append(w.shown, Key(m)) \in Seq(Keys) /\ CursorAfter(w.cursor, m.id) \in Nat
  BY <1>1, HeldAppended DEF CursorAfter
<1>5. CASE Key(m) \in ToSet(w.seen)
  BY <1>2, <1>5 DEF Ingest
<1>6. CASE Key(m) \notin ToSet(w.seen)
  <2>1. Ingest(w, m) = [cursor |-> CursorAfter(w.cursor, m.id),
                        seen |-> admit(w.seen, Key(m)),
                        shown |-> Append(w.shown, Key(m))]
    BY <1>2, <1>6 DEF Ingest
  <2> QED BY <2>1, <1>3, <1>4, <1>6 DEF Inboxes
<1> QED BY <1>5, <1>6

LEMMA IngestShows ==
  ASSUME NEW w, WellKept(w), NEW m \in Msgs
  PROVE  /\ WellKept(Ingest(w, m))
         /\ ToSet(Ingest(w, m).shown) = ToSet(w.shown) \cup {Key(m)}
<1>1. /\ w \in Inboxes /\ w.seen \in Seq(Keys) /\ w.shown \in Seq(Keys)
      /\ Key(m) \in Keys /\ ToSet(w.seen) \subseteq ToSet(w.shown)
  BY KeyIsKey DEF Inboxes, WellKept, SeenIsShown
<1>2. Ingest(w, m) \in Inboxes
  BY <1>1, IngestTakes
<1>3. CASE Key(m) \in ToSet(w.seen)
  BY <1>1, <1>3, IngestTakes DEF WellKept
<1>4. CASE Key(m) \notin ToSet(w.seen)
  <2>1. ToSet(Ingest(w, m).shown) = ToSet(w.shown) \cup {Key(m)}
    <3>1. Ingest(w, m).shown = Append(w.shown, Key(m))
      BY <1>1, <1>4, IngestTakes
    <3>2. ToSet(Append(w.shown, Key(m))) = ToSet(w.shown) \cup {Key(m)}
      BY <1>1, HeldAppended
    <3> QED BY <3>1, <3>2
  <2>2. ToSet(admit(w.seen, Key(m))) \subseteq ToSet(w.seen) \cup {Key(m)}
    <3>1. CASE Len(w.seen) = DEDUP_CAPACITY
      <4>1. w.seen # << >>
        BY <3>1, <1>1, DeliveryAssumption
      <4>2. Tail(w.seen) \in Seq(Keys) /\ ToSet(Tail(w.seen)) \subseteq ToSet(w.seen)
        BY <1>1, <4>1, HeldTail
      <4>3. ToSet(Append(Tail(w.seen), Key(m))) = ToSet(Tail(w.seen)) \cup {Key(m)}
        <5> DEFINE v == Tail(w.seen)
                   k == Key(m)
        <5>1. v \in Seq(Keys) /\ k \in Keys
          BY <4>2, <1>1
        <5> HIDE DEF v, k
        <5>2. ToSet(Append(v, k)) = ToSet(v) \cup {k}
          BY <5>1, HeldAppended
        <5> QED BY <5>2 DEF v, k
      <4>4. admit(w.seen, Key(m)) = Append(Tail(w.seen), Key(m))
        BY <3>1 DEF admit
      <4> QED BY <4>2, <4>3, <4>4
    <3>2. CASE Len(w.seen) # DEDUP_CAPACITY
      BY <3>2, <1>1, HeldAppended DEF admit
    <3> QED BY <3>1, <3>2
  <2> QED BY <1>1, <1>2, <1>4, <2>1, <2>2, IngestTakes DEF WellKept, SeenIsShown
<1> QED BY <1>3, <1>4

LEMMA IngestKeepsWindow ==
  ASSUME NEW w \in Inboxes, NEW m \in Msgs, Window(w)
  PROVE  Window(Ingest(w, m))
<1> DEFINE k == Key(m)
           D == DEDUP_CAPACITY
           s == w.seen
           t == w.shown
           a == Len(s)
           n == Len(t)
           t1 == Append(t, k)
           s0 == IF a = D THEN Tail(s) ELSE s
           s1 == Append(s0, k)
<1>1. /\ s \in Seq(Keys) /\ t \in Seq(Keys) /\ k \in Keys /\ a \in Nat /\ n \in Nat
      /\ D \in Nat \ {0}
  BY KeyIsKey, DeliveryAssumption DEF Inboxes
<1>2. SUFFICES ASSUME k \notin ToSet(s) PROVE Window(Ingest(w, m))
  BY IngestTakes
<1>3. Ingest(w, m).shown = t1 /\ Ingest(w, m).seen = s1
  BY <1>2, IngestTakes DEF admit
<1>4. \A i \in 1..a : s[i] # k
  BY <1>1, <1>2, HeldIn
<1>5. /\ a = IF n < D THEN n ELSE D
      /\ \A i \in 1..a : s[i] = t[(n - a) + i]
      /\ \A i, j \in 1..n : i < j /\ j - i <= D => t[i] # t[j]
  BY DEF Window
<1>6. Len(t1) = n + 1 /\ t1[n + 1] = k /\ \A i \in 1..n : t1[i] = t[i]
  BY <1>1
<1>7. /\ s0 \in Seq(Keys)
      /\ Len(s0) = IF a = D THEN a - 1 ELSE a
      /\ \A i \in 1..Len(s0) : s0[i] = IF a = D THEN s[i + 1] ELSE s[i]
  BY <1>1
<1>8. /\ Len(s1) = Len(s0) + 1 /\ s1[Len(s0) + 1] = k
      /\ \A i \in 1..Len(s0) : s1[i] = s0[i]
  BY <1>1, <1>7
<1> HIDE DEF k, s, t, a, n, t1, s0, s1
<1>l. /\ a \in Nat /\ n \in Nat /\ D \in Nat \ {0} /\ a = IF n < D THEN n ELSE D
      /\ Len(t1) = n + 1 /\ Len(s1) = Len(s0) + 1
      /\ Len(s0) = IF a = D THEN a - 1 ELSE a
  BY <1>1, <1>5, <1>6, <1>7, <1>8
<1> HIDE DEF D
<1>9. Len(s1) = IF Len(t1) < D THEN Len(t1) ELSE D
  BY <1>l
<1>10. \A i \in 1..Len(s1) : s1[i] = t1[(Len(t1) - Len(s1)) + i]
  <2> TAKE i \in 1..Len(s1)
  <2> DEFINE e == (Len(t1) - Len(s1)) + i
  <2>1. CASE i = Len(s0) + 1
    <3>1. e = n + 1
      BY <2>1, <1>l
    <3> QED BY <2>1, <3>1, <1>6, <1>8
  <2>2. CASE i # Len(s0) + 1 /\ a = D
    <3>a. Len(s0) = a - 1
      BY <2>2, <1>l
    <3>b. Len(s1) = a
      BY <3>a, <1>l
    <3>c. Len(t1) = n + 1 /\ a <= n
      BY <1>l
    <3>d. i \in 1..a /\ i # a
      BY <2>2, <3>a, <3>b, <1>l
    <3>0. /\ Len(s0) = a - 1 /\ Len(s1) = a /\ Len(t1) = n + 1 /\ a <= n
          /\ i \in Nat /\ i >= 1 /\ i <= a /\ i # a
      BY <3>a, <3>b, <3>c, <3>d, <1>l
    <3>1. i \in 1..Len(s0) /\ i + 1 \in 1..a /\ e = (n - a) + (i + 1) /\ e \in 1..n
      BY <3>0, <1>1
    <3>2. s1[i] = s[i + 1]
      BY <3>1, <2>2, <1>7, <1>8
    <3>3. s[i + 1] = t[e]
      BY <3>1, <1>5
    <3> HIDE DEF e
    <3> QED BY <3>1, <3>2, <3>3, <1>6 DEF e
  <2>3. CASE i # Len(s0) + 1 /\ a # D
    <3>1. i \in 1..Len(s0) /\ i \in 1..a /\ e = (n - a) + i /\ e \in 1..n
      BY <2>3, <1>l
    <3>2. s1[i] = s[i]
      BY <3>1, <2>3, <1>7, <1>8
    <3>3. s[i] = t[e]
      BY <3>1, <1>5
    <3> HIDE DEF e
    <3> QED BY <3>1, <3>2, <3>3, <1>6 DEF e
  <2> QED BY <2>1, <2>2, <2>3
<1>11. \A i, j \in 1..Len(t1) : i < j /\ j - i <= D => t1[i] # t1[j]
  <2> SUFFICES ASSUME NEW i \in 1..Len(t1), NEW j \in 1..Len(t1), i < j, j - i <= D
               PROVE  t1[i] # t1[j]
    OBVIOUS
  <2>1. CASE j \in 1..n
    <3>1. i \in 1..n
      BY <2>1, <1>1, <1>6
    <3> QED BY <2>1, <3>1, <1>5, <1>6
  <2>2. CASE j = n + 1
    <3> DEFINE h == i - (n - a)
    <3>1. i \in 1..n /\ h \in 1..a /\ i = (n - a) + h
      BY <2>2, <1>l
    <3> HIDE DEF h
    <3>2. t[i] = s[h]
      BY <3>1, <1>5
    <3> QED BY <2>2, <3>1, <3>2, <1>4, <1>6
  <2> QED BY <2>1, <2>2, <1>1, <1>6
<1> QED BY <1>3, <1>9, <1>10, <1>11 DEF Window, D

-----------------------------------------------------------------------------
\* Every nonempty set of naturals has a least element.
LEMMA SmallestOf ==
  ASSUME NEW T, T \subseteq Nat, T # {}
  PROVE  \E x \in T : \A y \in T : x <= y
<1> DEFINE R == {ss \in Nat \X Nat : ss[1] < ss[2]}
<1>1. IsWellFoundedOn(R, Nat)
  BY NatLessThanWellFounded DEF OpToRel
<1> HIDE DEF R
<1>2. PICK x \in T : \A y \in T : ~(<<y, x>> \in R)
  BY <1>1, WFMin
<1>3. ASSUME NEW y \in T PROVE x <= y
  <2>1. x \in Nat /\ y \in Nat
    OBVIOUS
  <2>2. y < x => <<y, x>> \in R
    BY <2>1 DEF R
  <2> QED BY <1>2, <2>1, <2>2
<1> QED BY <1>3

(***************************************************************************)
(* The states between the messages of a batch: taken[n] is the inbox once  *)
(* n of them are taken in, and the batch leads to the last.                *)
(***************************************************************************)
Taking(box, ms, g, n) ==
  /\ g \in [0..n -> Inboxes]
  /\ g[0] = box
  /\ \A i \in 1..n : g[i] = Ingest(g[i - 1], ms[i])

LEMMA TakenInTurn ==
  ASSUME NEW box \in Inboxes, NEW ms \in Seq(Msgs)
  PROVE  \E g : Taking(box, ms, g, Len(ms)) /\ Ingested(box, ms) = g[Len(ms)]
<1> DEFINE N == Len(ms)
           Bad == {n \in 0..N : ~ \E g : Taking(box, ms, g, n)}
<1>1. N \in Nat
  OBVIOUS
<1>2. Bad = {}
  <2> SUFFICES ASSUME Bad # {} PROVE FALSE
    OBVIOUS
  <2>1. PICK n \in Bad : \A k \in Bad : n <= k
    <3>1. Bad \subseteq Nat
      BY <1>1
    <3> HIDE DEF Bad
    <3> QED BY <3>1, SmallestOf
  <2>2. n \in 0..N /\ n \in Nat
    BY <1>1
  <2>3. CASE n = 0
    <3>1. Taking(box, ms, [i \in 0..0 |-> box], 0)
      BY DEF Taking
    <3> QED BY <2>3, <3>1
  <2>4. CASE n # 0
    <3>1. n - 1 \in 0..N /\ ~(n <= n - 1) /\ n \in 1..N
      BY <2>2, <2>4, <1>1
    <3>2. PICK g : Taking(box, ms, g, n - 1)
      BY <3>1, <2>1
    <3> DEFINE h == [i \in 0..n |-> IF i = n THEN Ingest(g[n - 1], ms[n]) ELSE g[i]]
    <3>3. g \in [0..(n - 1) -> Inboxes] /\ g[0] = box
          /\ \A i \in 1..(n - 1) : g[i] = Ingest(g[i - 1], ms[i])
      BY <3>2 DEF Taking
    <3>4. \A i \in 0..n : i = n \/ i \in 0..(n - 1)
      BY <2>2
    <3>5. ms[n] \in Msgs /\ n - 1 \in 0..(n - 1)
      BY <3>1, <2>2, ElementOfSeq
    <3>6. Ingest(g[n - 1], ms[n]) \in Inboxes
      BY <3>3, <3>5, IngestTakes
    <3>7. h \in [0..n -> Inboxes]
      BY <3>3, <3>4, <3>6
    <3>8. h[0] = box
      BY <2>2, <2>4, <3>3
    <3>9. \A i \in 1..n : h[i] = Ingest(h[i - 1], ms[i])
      <4> TAKE i \in 1..n
      <4>1. i - 1 \in 0..n /\ i - 1 # n /\ i \in 0..n
        BY <2>2
      <4>2. h[i - 1] = g[i - 1]
        BY <4>1
      <4>3. CASE i = n
        BY <4>1, <4>2, <4>3
      <4>4. CASE i # n
        <5>1. i \in 1..(n - 1)
          BY <4>4, <2>2
        <5> QED BY <5>1, <4>1, <4>2, <4>4, <3>3
      <4> QED BY <4>3, <4>4
    <3>10. Taking(box, ms, h, n)
      BY <3>7, <3>8, <3>9 DEF Taking
    <3> QED BY <3>10
  <2> QED BY <2>3, <2>4
<1>3. PICK g : Taking(box, ms, g, N)
  <2>1. N \in 0..N
    BY <1>1
  <2> QED BY <1>2, <2>1
<1> DEFINE Rec(f) == [n \in 0..N |-> IF n = 0 THEN box ELSE Ingest(f[n - 1], ms[n])]
           done == CHOOSE f : f = Rec(f)
<1>4. g = Rec(g)
  <2>1. \A n \in 0..N : n = 0 \/ n \in 1..N
    BY <1>1
  <2> QED BY <1>3, <2>1 DEF Taking
<1>5. done = Rec(done)
  BY <1>4
<1>6. Ingested(box, ms) = done[N]
  BY DEF Ingested
<1> HIDE DEF Rec, done
<1>7. g[0] = done[0] /\ \A n \in 1..N : g[n] = Ingest(g[n - 1], ms[n]) /\ done[n] = Ingest(done[n - 1], ms[n])
  <2>1. 0 \in 0..N /\ \A n \in 1..N : n \in 0..N /\ n # 0
    BY <1>1
  <2>2. done[0] = box
    BY <2>1, <1>5 DEF Rec
  <2>3. ASSUME NEW n \in 1..N PROVE done[n] = Ingest(done[n - 1], ms[n])
    BY <2>1, <1>5 DEF Rec
  <2> QED BY <2>2, <2>3, <1>3 DEF Taking
<1> DEFINE Differ == {n \in 0..N : g[n] # done[n]}
<1>8. Differ = {}
  <2> SUFFICES ASSUME Differ # {} PROVE FALSE
    OBVIOUS
  <2>1. PICK n \in Differ : \A k \in Differ : n <= k
    <3>1. Differ \subseteq Nat
      BY <1>1
    <3> HIDE DEF Differ
    <3> QED BY <3>1, SmallestOf
  <2>2. n \in 1..N
    BY <1>1, <1>7
  <2>3. n - 1 \in 0..N /\ ~(n <= n - 1)
    BY <2>2, <1>1
  <2>4. g[n - 1] = done[n - 1]
    BY <2>1, <2>3
  <2>5. g[n] = done[n]
    BY <2>2, <2>4, <1>7
  <2> QED BY <2>5
<1>9. N \in 0..N
  BY <1>1
<1> QED BY <1>3, <1>6, <1>8, <1>9

\* A batch: every message in it has been shown once it is in.
LEMMA BatchShows ==
  ASSUME NEW box, WellKept(box), NEW ms \in Seq(Msgs)
  PROVE  /\ WellKept(IngestAll(box, ms))
         /\ ToSet(IngestAll(box, ms).shown)
              = ToSet(box.shown) \cup {Key(ms[i]) : i \in 1..Len(ms)}
         /\ Window(box) => Window(IngestAll(box, ms))
<1> DEFINE N == Len(ms)
           First(n) == ToSet(box.shown) \cup {Key(ms[i]) : i \in 1..n}
           Good(w, n) == /\ WellKept(w)
                         /\ ToSet(w.shown) = First(n)
                         /\ Window(box) => Window(w)
<1>1. N \in Nat /\ box \in Inboxes
  BY DEF WellKept
<1>2. PICK g : Taking(box, ms, g, N) /\ Ingested(box, ms) = g[N]
  BY <1>1, TakenInTurn
<1>3. g[0] = box /\ \A i \in 1..N : g[i] = Ingest(g[i - 1], ms[i])
  BY <1>2 DEF Taking
<1> DEFINE Bad == {n \in 0..N : ~Good(g[n], n)}
<1>4. Good(g[0], 0)
  BY <1>3
<1>5. ASSUME NEW n \in 1..N, Good(g[n - 1], n - 1) PROVE Good(g[n], n)
  <2>1. ms[n] \in Msgs /\ g[n] = Ingest(g[n - 1], ms[n])
    BY <1>3, ElementOfSeq
  <2>2. /\ WellKept(g[n])
        /\ ToSet(g[n].shown) = First(n - 1) \cup {Key(ms[n])}
    BY <2>1, <1>5, IngestShows
  <2>3. Window(box) => Window(g[n])
    BY <2>1, <1>5, IngestKeepsWindow DEF WellKept
  <2>4. \A i \in 1..n : i \in 1..(n - 1) \/ i = n
    BY <1>1
  <2>5. \A i \in 1..(n - 1) : i \in 1..n
    BY <1>1
  <2>6. n \in 1..n
    BY <1>1
  <2>7. First(n) = First(n - 1) \cup {Key(ms[n])}
    BY <2>4, <2>5, <2>6
  <2> QED BY <2>2, <2>3, <2>7
<1> HIDE DEF Good
<1>6. Bad = {}
  <2> SUFFICES ASSUME Bad # {} PROVE FALSE
    OBVIOUS
  <2>1. Bad \subseteq Nat
    BY <1>1
  <2>2. PICK n \in Bad : \A k \in Bad : n <= k
    <3> HIDE DEF Bad
    <3> QED BY <2>1, SmallestOf
  <2>3. n \in 0..N /\ n # 0
    BY <2>2, <1>4
  <2>4. n \in 1..N /\ n - 1 \in 0..N /\ ~(n <= n - 1)
    BY <2>3, <1>1
  <2>5. Good(g[n - 1], n - 1)
    BY <2>2, <2>4
  <2> QED BY <2>2, <2>4, <2>5, <1>5
<1>7. N \in 0..N
  BY <1>1
<1>8. Good(g[N], N)
  BY <1>6, <1>7
<1> QED BY <1>2, <1>8 DEF Good, IngestAll

-----------------------------------------------------------------------------
(***************************************************************************)
(* The invariants that hold the two halves together.                       *)
(***************************************************************************)
Entries == [cmid : 1..MaxSends, to : Users, attempts : Nat]

ClientTypes ==
  /\ phase \in [Users -> {"offline", "handshake", "loop", "stopped"}]
  /\ link \in [Users -> Conns \cup {NoConn}]
  /\ cut \in [Conns -> BOOLEAN]
  /\ outbox \in [Users -> Seq(Entries)]
  /\ cmid_seq \in [Users -> 0..MaxSends]
  /\ inbox \in [Users -> Inboxes]

\* The frames bound for the client of a connection: in its channel, or the
\* reply its session task is about to give.
BodiesOf(s) == {x.body : x \in ToSet(s)}
Saying(j) == IF j.kind = "reply" THEN {j.frame} ELSE {}
Ahead(c) == BodiesOf(down[c]) \cup Saying(job[c])

\* A connection is v's when v has logged in on it or is about to ask to.
Named(c, v) ==
  user[c] = v \/ \E f \in ToSet(up[c]) : f.cmd = "Handshake" /\ f.user = v

\* A client is on a connection of its own, on none but that unless it is cut.
Online ==
  \A u \in Users :
    /\ link[u] # NoConn <=> phase[u] \in {"handshake", "loop"}
    /\ link[u] # NoConn => link[u] <= conn_seq
    /\ phase[u] = "loop" => user[link[u]] = u
OneClient ==
  \A c \in Conns, v \in Users : Named(c, v) =>
    /\ \A u \in Users : link[u] = c => u = v
    /\ ~cut[c] => link[v] = c
ClosedIsCut == \A c \in Conns : writer[c] = "closed" => cut[c]

\* Nothing but a Handshake comes before a login, and no login is confirmed
\* that has not taken place.
Welcome(b) == b.cmd = "HandshakeAck" /\ b.accepted
LoggedIn ==
  \A c \in Conns :
    /\ \A f \in ToSet(up[c]) : f.cmd # "Handshake" => user[c] # NoUser
    /\ \A b \in Ahead(c) : Welcome(b) => user[c] # NoUser

\* No connection that u has logged in on has been lost: until u is through its
\* first login its cursor is 0, and so is the one it pulls with.
Untouched(u) == \A c \in Conns : user[c] = u => ~cut[c]
FirstPull ==
  \A u \in Users : Untouched(u) =>
    /\ phase[u] # "loop" => inbox[u].cursor = 0
    /\ \A c \in Conns : user[c] = u =>
         \A f \in ToSet(up[c]) : f.cmd = "SyncReq" => f.since = 0

\* Every message comes from its sender's client.
Genuine(m) == m.cmid \in 1..cmid_seq[m.from]
FromClients ==
  /\ \A u \in Users : \A e \in ToSet(outbox[u]) : e.cmid \in 1..cmid_seq[u]
  /\ \A c \in Conns : \A f \in ToSet(up[c]) :
       f.cmd = "Msg" => f.cmid \in 1..cmid_seq[user[c]]
  /\ \A c \in Conns : InHand(c) => Genuine(job[c].msg) /\ job[c].msg.from = user[c]
  /\ \A c \in Conns : job[c].kind = "send" => user[job[c].target] = job[c].msg.to
  /\ \A m \in placed : Genuine(m)

\* And goes to its recipient.
Meant(b, u) ==
  /\ b.cmd = "Msg" => b.msg \in placed /\ b.msg.to = u
  /\ b.cmd = "MsgAck" => b.msg \in placed /\ b.msg.from = u
  /\ b.cmd = "SyncResp" => \A i \in 1..Len(b.messages) :
       b.messages[i] \in placed /\ b.messages[i].to = u
Addressed ==
  /\ \A u \in Users : \A m \in ToSet(offline[u]) : m \in placed /\ m.to = u
  /\ \A c \in Conns : \A b \in Ahead(c) : Meant(b, user[c])

\* What is shown and what is confirmed has been in custody.
Traced ==
  /\ \A u \in Users : \A k \in ToSet(inbox[u].shown) : \E m \in placed : Key(m) = k /\ m.to = u
  /\ \A k \in confirmed : \E m \in placed : Key(m) = k

SeenShown == \A u \in Users : SeenIsShown(inbox[u])

\* A message in custody is queued, on its way or shown, unless its recipient
\* has lost a connection.
Carries(b, m) ==
  \/ b.cmd = "Msg" /\ b.msg = m
  \/ b.cmd = "SyncResp" /\ \E i \in 1..Len(b.messages) : b.messages[i] = m
HeldFor(m) ==
  \/ m \in ToSet(offline[m.to])
  \/ \E c \in Conns : user[c] = m.to /\ \E b \in Ahead(c) : Carries(b, m)
  \/ Key(m) \in ToSet(inbox[m.to].shown)
Kept == \A m \in placed : Untouched(m.to) => HeldFor(m)

Windows == \A u \in Users \ restarted : Window(inbox[u])

-----------------------------------------------------------------------------
(***************************************************************************)
(* The steps of the server, as far as the invariants tell them apart.      *)
(***************************************************************************)
ServerTypes == Shape /\ Contents /\ Fresh /\ RouterMatchesSessions
ServerMoves ==
  /\ UNCHANGED clientVars
  /\ \E c \in Conns : \/ SessionStep(c)
                      \/ cut[c] /\ (ReaderExit(c) \/ WriterExit(c))

LEMMA ServerMovesAre ==
  ASSUME NEW c \in Conns, ServerStep(c) \/ ServerNotices(c)
  PROVE  ServerMoves /\ [Next]_vars
BY DEF ServerStep, ServerNotices, ServerMoves, Next, ServerNext

LEMMA AheadTyped ==
  ASSUME Contents, NEW c \in Conns
  PROVE  Ahead(c) \subseteq Bodies
<1>1. down[c] \in Seq(Slots)
  BY DEF Contents
<1>2. ToSet(down[c]) \subseteq Slots
  BY <1>1, HeldIn
<1>3. \A x \in Slots : x.body \in Bodies
  BY DEF Slots
<1>4. Saying(job[c]) \subseteq Bodies
  BY ReplyFrame DEF Saying
<1> QED BY <1>2, <1>3, <1>4 DEF Ahead, BodiesOf

\* Channels: one frame more, one frame less.
LEMMA ChannelGrows ==
  ASSUME NEW s \in Seq(Slots), NEW x \in Slots
  PROVE  BodiesOf(Append(s, x)) = BodiesOf(s) \cup {x.body}
<1>1. ToSet(Append(s, x)) = ToSet(s) \cup {x}
  BY HeldAppended
<1> QED BY <1>1 DEF BodiesOf

LEMMA ChannelShrinks ==
  ASSUME NEW s \in Seq(Slots), s # << >>
  PROVE  /\ Head(s) \in Slots
         /\ BodiesOf(Tail(s)) \subseteq BodiesOf(s)
         /\ BodiesOf(s) \subseteq BodiesOf(Tail(s)) \cup {Head(s).body}
         /\ Head(s).body \in BodiesOf(s)
<1>1. /\ Head(s) \in Slots /\ Head(s) \in ToSet(s)
      /\ ToSet(Tail(s)) \subseteq ToSet(s)
      /\ ToSet(s) \subseteq ToSet(Tail(s)) \cup {Head(s)}
  BY HeldTail
<1> QED BY <1>1 DEF BodiesOf

\* Connection d is left as it is, but for its channel; its client sees no change.
SameJob(d) == job'[d] = job[d]
SameAhead(d) == Ahead(d)' = Ahead(d)

\* The session task of c, idle or with a message in hand, gives a reply b.
Says(c, b) ==
  /\ Ahead(c)' = Ahead(c) \cup {b}
  /\ ~InHand(c)'
  /\ \A d \in Conns : d # c => SameJob(d) /\ SameAhead(d)

QuietStep ==
  /\ \A d \in Conns : SameJob(d) /\ SameAhead(d)
  /\ UNCHANGED <<offline, placed, user>>
AnswerStep(c) ==
  /\ \E b \in BOOLEAN : /\ Says(c, [cmd |-> "HandshakeAck", accepted |-> b])
                        /\ b => user'[c] \in Users
  /\ UNCHANGED <<offline, placed>>
NumberStep(c) ==
  /\ user[c] # NoUser /\ InHand(c)' /\ job'[c].kind = "route"
  /\ \E f \in ToSet(up[c]) :
       /\ f.cmd = "Msg" /\ job'[c].msg.cmid = f.cmid /\ job'[c].msg.from = user[c]
  /\ \A d \in Conns : (d # c => SameJob(d)) /\ SameAhead(d)
  /\ UNCHANGED <<offline, placed, user>>
HoldStep(c) ==
  /\ InHand(c) /\ InHand(c)' /\ job'[c].msg = job[c].msg
  /\ job'[c].kind = "send" => job'[c].target \in Conns /\ user[job'[c].target] = job[c].msg.to
  /\ \A d \in Conns : (d # c => SameJob(d)) /\ SameAhead(d)
  /\ UNCHANGED <<offline, placed, user>>
SendStep(c) ==
  \E m \in Msgs, t \in Conns :
      /\ job[c].kind = "send" /\ m = job[c].msg /\ t = job[c].target
      /\ [cmd |-> "Msg", msg |-> m] \in Ahead(t)'
      /\ \A d \in Conns :
           /\ d # c => SameJob(d)
           /\ Ahead(d) \subseteq Ahead(d)'
           /\ \A b \in Ahead(d)' : \/ b \in Ahead(d)
                                   \/ d = t /\ b = [cmd |-> "Msg", msg |-> m]
                                   \/ d = c /\ b = [cmd |-> "MsgAck", msg |-> m]
      /\ ~InHand(c)'
      /\ placed' = placed \cup {m}
      /\ UNCHANGED <<offline, user>>
StoreStep(c) ==
  LET m == job[c].msg IN
  /\ job[c].kind = "store" /\ m \in Msgs
  /\ Says(c, [cmd |-> "MsgAck", msg |-> m])
  /\ placed' = placed \cup {m}
  /\ offline' = [offline EXCEPT ![m.to] = store_offline(@, m)]
  /\ UNCHANGED user
PullStep(c) ==
  /\ user[c] \in Users
  /\ \E f \in ToSet(up[c]) :
       LET r == SyncScan(offline[user[c]], f.since) IN
       /\ f.cmd = "SyncReq"
       /\ Says(c, [cmd |-> "SyncResp", messages |-> r[1]])
       /\ offline' = [offline EXCEPT ![user[c]] = r[2]]
  /\ UNCHANGED <<placed, user>>
ReplyStep(c) ==
  /\ \A d \in Conns : d # c => SameJob(d) /\ SameAhead(d)
  /\ ~InHand(c)'
  /\ Ahead(c)' \subseteq Ahead(c)
  /\ writer[c] = "open" => Ahead(c) \subseteq Ahead(c)'
  /\ UNCHANGED <<offline, placed, user>>

\* A task that takes up no reply, gives one, or drops it.
LEMMA AheadSame ==
  ASSUME NEW d \in Conns, down'[d] = down[d], Saying(job'[d]) = Saying(job[d])
  PROVE  SameAhead(d)
BY DEF SameAhead, Ahead

LEMMA JobSays ==
  ASSUME Contents, NEW c \in Conns, NEW b, job[c].kind # "reply",
         job' = [job EXCEPT ![c] = Replying(b)], down' = down
  PROVE  Says(c, b)
<1>1. /\ job'[c] = Replying(b) /\ \A d \in Conns : d # c => job'[d] = job[d]
  BY DEF Contents
<1>2. Saying(job'[c]) = {b} /\ Saying(job[c]) = {}
  BY <1>1 DEF Saying, Replying
<1>3. Ahead(c)' = Ahead(c) \cup {b}
  BY <1>2 DEF Ahead
<1>4. ~InHand(c)'
  BY <1>1 DEF InHand, Replying
<1>5. \A d \in Conns : d # c => SameJob(d) /\ SameAhead(d)
  BY <1>1, AheadSame DEF SameJob
<1> QED BY <1>3, <1>4, <1>5 DEF Says

LEMMA JobHolds ==
  ASSUME Contents, NEW c \in Conns, NEW j, job[c].kind # "reply", j.kind # "reply",
         job' = [job EXCEPT ![c] = j], down' = down
  PROVE  /\ job'[c] = j
         /\ \A d \in Conns : (d # c => SameJob(d)) /\ SameAhead(d)
<1>1. /\ job'[c] = j /\ \A d \in Conns : d # c => job'[d] = job[d]
  BY DEF Contents
<1>2. Saying(job'[c]) = {} /\ Saying(job[c]) = {}
  BY <1>1 DEF Saying
<1>3. \A d \in Conns : SameAhead(d)
  BY <1>1, <1>2, AheadSame
<1> QED BY <1>1, <1>3 DEF SameJob

LEMMA QuietSteps ==
  ASSUME NEW c \in Conns,
         \/ MsgDropped(c) \/ SyncIgnored(c) \/ SessionEnd(c) \/ ReaderExit(c) \/ WriterExit(c)
  PROVE  QuietStep
<1>1. UNCHANGED <<job, down, offline, placed, user>>
  BY DEF MsgDropped, SyncIgnored, SessionEnd, ReaderExit, WriterExit, wires
<1> QED BY <1>1, AheadSame DEF QuietStep, SameJob

LEMMA AnswerSteps ==
  ASSUME ServerTypes, NEW c \in Conns, HandshakeRefused(c) \/ HandshakeAccepted(c)
  PROVE  AnswerStep(c)
<1>1. job[c].kind # "reply"
  <2>1. job[c] = Idle
    BY DEF HandshakeRefused, HandshakeAccepted, Takes
  <2> QED BY <2>1 DEF Idle
<1>2. CASE HandshakeRefused(c)
  <2>1. /\ job' = [job EXCEPT ![c] = Replying([cmd |-> "HandshakeAck", accepted |-> FALSE])]
        /\ UNCHANGED <<offline, placed, down>>
    BY <1>2 DEF HandshakeRefused, HandshakeAck
  <2>2. Says(c, [cmd |-> "HandshakeAck", accepted |-> FALSE])
    BY <1>1, <2>1, JobSays DEF ServerTypes
  <2> QED BY <2>1, <2>2 DEF AnswerStep
<1>3. CASE HandshakeAccepted(c)
  <2>1. /\ job' = [job EXCEPT ![c] = Replying([cmd |-> "HandshakeAck", accepted |-> TRUE])]
        /\ UNCHANGED <<offline, placed, down>>
    BY <1>3 DEF HandshakeAccepted, HandshakeAck
  <2>2. Says(c, [cmd |-> "HandshakeAck", accepted |-> TRUE])
    BY <1>1, <2>1, JobSays DEF ServerTypes
  <2>3. Head(up[c]).user \in Users
    BY <1>3, HeadOfUp, HandshakeUser DEF HandshakeAccepted, Takes, ServerTypes
  <2>4. user'[c] \in Users
    BY <1>3, <2>3 DEF HandshakeAccepted, ServerTypes, Shape
  <2> QED BY <2>1, <2>2, <2>4 DEF AnswerStep
<1> QED BY <1>2, <1>3

\* The frame a task takes is one of those waiting.
LEMMA TakesOne ==
  ASSUME Shape, NEW c \in Conns, NEW cmd, Takes(c, cmd)
  PROVE  /\ Head(up[c]) \in ToSet(up[c]) /\ Head(up[c]).cmd = cmd
         /\ ToSet(up'[c]) \subseteq ToSet(up[c])
         /\ \A d \in Conns : d # c => up'[d] = up[d]
         /\ job[c] = Idle
<1>1. up[c] \in Seq(UpFrames) /\ up[c] # << >> /\ up' = [up EXCEPT ![c] = Tail(@)]
  BY DEF Shape, Takes
<1>2. up'[c] = Tail(up[c]) /\ \A d \in Conns : d # c => up'[d] = up[d]
  BY <1>1 DEF Shape
<1> QED BY <1>1, <1>2, HeldTail DEF Takes

LEMMA NumberSteps ==
  ASSUME ServerTypes, NEW c \in Conns, MsgNumbered(c)
  PROVE  NumberStep(c)
<1> DEFINE f == Head(up[c])
           j == [kind |-> "route",
                 msg |-> [from |-> user[c], to |-> f.to, cmid |-> f.cmid, id |-> last_id + 1]]
<1>1. f \in ToSet(up[c]) /\ f.cmd = "Msg" /\ job[c] = Idle
  BY TakesOne DEF MsgNumbered, ServerTypes
<1>2. /\ job' = [job EXCEPT ![c] = j] /\ user[c] # NoUser
      /\ UNCHANGED <<offline, placed, user, down>>
  BY DEF MsgNumbered
<1>3. job[c].kind # "reply" /\ j.kind # "reply"
  BY <1>1 DEF Idle
<1>4. /\ j.kind = "route" /\ j.msg.cmid = f.cmid /\ j.msg.from = user[c]
  OBVIOUS
<1> HIDE DEF j, f
<1>5. /\ job'[c] = j
      /\ \A d \in Conns : (d # c => SameJob(d)) /\ SameAhead(d)
  BY <1>2, <1>3, JobHolds DEF ServerTypes
<1>6. InHand(c)'
  BY <1>4, <1>5 DEF InHand
<1> QED BY <1>1, <1>2, <1>4, <1>5, <1>6 DEF NumberStep

LEMMA HoldSteps ==
  ASSUME ServerTypes, NEW c \in Conns,
         \/ DeliverLookup(c)
         \/ DeliverSend(c) /\ writer[job[c].target] = "closed"
  PROVE  HoldStep(c)
<1> DEFINE m == job[c].msg
<1>a. InHand(c) /\ job[c].kind # "reply"
  BY DEF InHand, DeliverLookup, DeliverSend
<1>b. m \in Msgs /\ m.to \in Users
  BY <1>a, HandMsg DEF InHand, Msgs, ServerTypes
<1>1. \E j : /\ job' = [job EXCEPT ![c] = j]
             /\ j.kind \in {"send", "store"} /\ j.msg = m
             /\ j.kind = "send" => j.target = router[m.to] /\ router[m.to] # NoConn
  <2>1. CASE DeliverLookup(c)
    BY <2>1 DEF DeliverLookup, Router_get
  <2>2. CASE DeliverSend(c) /\ writer[job[c].target] = "closed"
    <3> DEFINE j == [kind |-> "store", msg |-> m]
    <3>1. job' = [job EXCEPT ![c] = j]
      BY <2>2 DEF DeliverSend
    <3>2. j.kind = "store" /\ j.msg = m
      OBVIOUS
    <3> HIDE DEF j
    <3> QED BY <3>1, <3>2
  <2> QED BY <2>1, <2>2
<1>2. PICK j : /\ job' = [job EXCEPT ![c] = j]
               /\ j.kind \in {"send", "store"} /\ j.msg = m
               /\ j.kind = "send" => j.target = router[m.to] /\ router[m.to] # NoConn
  BY <1>1
<1>3. UNCHANGED <<offline, placed, user, down>>
  BY DEF DeliverLookup, DeliverSend, wires
<1>4. /\ job'[c] = j
      /\ \A d \in Conns : (d # c => SameJob(d)) /\ SameAhead(d)
  BY <1>2, <1>3, <1>a, JobHolds DEF ServerTypes
<1>5. InHand(c)' /\ job'[c].msg = job[c].msg
  BY <1>2, <1>4 DEF InHand
<1>6. j.kind = "send" => j.target \in Conns /\ user[j.target] = m.to
  BY <1>2, <1>b DEF ServerTypes, RouterMatchesSessions, Shape
<1> QED BY <1>a, <1>3, <1>4, <1>5, <1>6 DEF HoldStep

LEMMA SendSteps ==
  ASSUME ServerTypes, NEW c \in Conns, DeliverSend(c), writer[job[c].target] = "open"
  PROVE  SendStep(c)
<1>a. /\ job[c].kind = "send" /\ job[c].msg \in Msgs
      /\ job[c].target \in Conns /\ job[c].seq \in Nat
  BY HandMsg, HandTarget DEF DeliverSend, ServerTypes
<1>b. PICK m \in Msgs, t \in Conns, n \in Nat :
        m = job[c].msg /\ t = job[c].target /\ n = job[c].seq
  BY <1>a
<1> DEFINE x == [seq |-> n, body |-> [cmd |-> "Msg", msg |-> m]]
           a == [cmd |-> "MsgAck", msg |-> m]
<1>1. job[c].kind = "send" /\ x \in Slots /\ x.body.msg = m
  BY <1>a, BodyTypes
<1>2. /\ down' = [down EXCEPT ![t] = Append(@, x)]
      /\ job' = [job EXCEPT ![c] = Replying(a)]
      /\ placed' = placed \cup {m}
      /\ UNCHANGED <<offline, user>>
  BY <1>1, <1>b DEF DeliverSend, MsgAck
<1>3. x.body = [cmd |-> "Msg", msg |-> m]
  OBVIOUS
<1>4. /\ job'[c] = Replying(a) /\ \A d \in Conns : d # c => job'[d] = job[d]
      /\ down'[t] = Append(down[t], x) /\ \A d \in Conns : d # t => down'[d] = down[d]
      /\ \A d \in Conns : down[d] \in Seq(Slots)
  BY <1>1, <1>2 DEF Contents, ServerTypes
<1>5. Saying(job'[c]) = {a} /\ Saying(job[c]) = {} /\ ~InHand(c)'
  BY <1>1, <1>4 DEF Saying, Replying, InHand
<1> HIDE DEF x, a
<1>6. BodiesOf(down'[t]) = BodiesOf(down[t]) \cup {x.body}
  BY <1>1, <1>4, ChannelGrows
<1>7. Ahead(t)' = BodiesOf(down[t]) \cup {x.body} \cup Saying(job'[t])
  BY <1>6 DEF Ahead
<1>8. ASSUME NEW d \in Conns
      PROVE  /\ d # c => SameJob(d)
             /\ Ahead(d) \subseteq Ahead(d)'
             /\ \A b \in Ahead(d)' : b \in Ahead(d) \/ (d = t /\ b = x.body) \/ (d = c /\ b = a)
  <2>1. d # c => SameJob(d) /\ Saying(job'[d]) = Saying(job[d])
    BY <1>4 DEF SameJob
  <2>2. d # t => BodiesOf(down'[d]) = BodiesOf(down[d])
    BY <1>4
  <2>3. /\ BodiesOf(down[d]) \subseteq BodiesOf(down'[d])
        /\ \A b \in BodiesOf(down'[d]) : b \in BodiesOf(down[d]) \/ (d = t /\ b = x.body)
    BY <2>2, <1>6
  <2>4. /\ Saying(job[d]) \subseteq Saying(job'[d])
        /\ \A b \in Saying(job'[d]) : b \in Saying(job[d]) \/ (d = c /\ b = a)
    BY <2>1, <1>5
  <2> QED BY <2>1, <2>3, <2>4 DEF Ahead
<1>9. x.body \in Ahead(t)'
  BY <1>7
<1> QED BY <1>1, <1>2, <1>3, <1>5, <1>8, <1>9, <1>b DEF SendStep, a

LEMMA StoreSteps ==
  ASSUME ServerTypes, NEW c \in Conns, DeliverStore(c)
  PROVE  StoreStep(c)
<1> DEFINE m == job[c].msg
<1>1. /\ job[c].kind = "store" /\ job[c].kind # "reply"
      /\ job' = [job EXCEPT ![c] = Replying([cmd |-> "MsgAck", msg |-> m])]
      /\ offline' = [offline EXCEPT ![m.to] = store_offline(@, m)]
      /\ placed' = placed \cup {m}
      /\ UNCHANGED <<user, down>>
  BY DEF DeliverStore, MsgAck, wires
<1>2. m \in Msgs
  BY <1>1, HandMsg DEF ServerTypes
<1>3. Says(c, [cmd |-> "MsgAck", msg |-> m])
  BY <1>1, JobSays DEF ServerTypes
<1> QED BY <1>1, <1>2, <1>3 DEF StoreStep

LEMMA PullSteps ==
  ASSUME ServerTypes, NEW c \in Conns, SyncTaken(c)
  PROVE  PullStep(c)
<1> DEFINE f == Head(up[c])
           r == SyncScan(offline[user[c]], f.since)
<1>1. f \in ToSet(up[c]) /\ f.cmd = "SyncReq" /\ job[c] = Idle
  BY TakesOne DEF SyncTaken, ServerTypes
<1>2. /\ user[c] # NoUser
      /\ job' = [job EXCEPT ![c] = Replying([cmd |-> "SyncResp", messages |-> r[1]])]
      /\ offline' = [offline EXCEPT ![user[c]] = r[2]]
      /\ UNCHANGED <<placed, user, down>>
  BY DEF SyncTaken
<1>3. user[c] \in Users
  BY <1>2 DEF ServerTypes, Shape
<1>4. Says(c, [cmd |-> "SyncResp", messages |-> r[1]])
  <2>1. job[c].kind # "reply"
    BY <1>1 DEF Idle
  <2> QED BY <2>1, <1>2, JobSays DEF ServerTypes
<1> QED BY <1>1, <1>2, <1>3, <1>4 DEF PullStep

LEMMA ReplySteps ==
  ASSUME ServerTypes, NEW c \in Conns, Reply(c)
  PROVE  ReplyStep(c)
<1> DEFINE b == job[c].frame
           x == [seq |-> reply_seq[c] + 1, body |-> b]
<1>1. job[c].kind = "reply" /\ b \in Bodies /\ reply_seq[c] + 1 \in Nat
  BY ReplyFrame DEF Reply, ServerTypes, Contents
<1>2. x \in Slots /\ x.body = b
  BY <1>1, BodyTypes
<1>3. /\ job'[c] = Idle /\ \A d \in Conns : d # c => job'[d] = job[d]
  BY DEF Reply, Contents, ServerTypes
<1>4. Saying(job'[c]) = {} /\ Saying(job[c]) = {b} /\ ~InHand(c)'
  BY <1>1, <1>3 DEF Saying, Idle, InHand
<1>5. UNCHANGED <<offline, placed, user>>
  BY DEF Reply
<1>6. down[c] \in Seq(Slots)
  BY DEF ServerTypes, Contents
<1>7. \/ writer[c] = "open" /\ down' = [down EXCEPT ![c] = Append(@, x)]
      \/ writer[c] = "closed" /\ down' = down
  BY DEF Reply
<1>8. \A d \in Conns : d # c => down'[d] = down[d]
  BY <1>7 DEF ServerTypes, Contents
<1>9. \A d \in Conns : d # c => SameJob(d) /\ SameAhead(d)
  BY <1>3, <1>8, AheadSame DEF SameJob
<1> HIDE DEF b, x
<1>10. CASE writer[c] = "open" /\ down' = [down EXCEPT ![c] = Append(@, x)]
  <2>1. down'[c] = Append(down[c], x)
    BY <1>10 DEF ServerTypes, Contents
  <2>2. BodiesOf(down'[c]) = BodiesOf(down[c]) \cup {b}
    BY <2>1, <1>2, <1>6, ChannelGrows
  <2>3. Ahead(c)' = Ahead(c)
    BY <2>2, <1>4 DEF Ahead
  <2> QED BY <2>3, <1>4, <1>5, <1>9 DEF ReplyStep
<1>11. CASE writer[c] = "closed" /\ down' = down
  <2>1. Ahead(c)' \subseteq Ahead(c)
    BY <1>4, <1>11 DEF Ahead
  <2> QED BY <2>1, <1>4, <1>5, <1>9, <1>11 DEF ReplyStep
<1> QED BY <1>7, <1>10, <1>11

\* Every step of the server is one of these.
LEMMA ServerEffects ==
  ASSUME ServerTypes, ServerMoves
  PROVE  \/ QuietStep
         \/ \E c \in Conns : \/ AnswerStep(c) \/ NumberStep(c) \/ HoldStep(c)
                             \/ SendStep(c) \/ StoreStep(c) \/ PullStep(c) \/ ReplyStep(c)
<1>1. PICK c \in Conns : SessionStep(c) \/ ReaderExit(c) \/ WriterExit(c)
  BY DEF ServerMoves
<1>2. CASE MsgDropped(c) \/ SyncIgnored(c) \/ SessionEnd(c) \/ ReaderExit(c) \/ WriterExit(c)
  BY <1>2, QuietSteps
<1>3. CASE HandshakeRefused(c) \/ HandshakeAccepted(c)
  BY <1>3, AnswerSteps
<1>4. CASE MsgNumbered(c)
  BY <1>4, NumberSteps
<1>5. CASE DeliverLookup(c)
  BY <1>5, HoldSteps
<1>6. CASE DeliverSend(c)
  <2>1. writer[job[c].target] \in {"open", "closed"}
    BY <1>6 DEF DeliverSend
  <2> QED BY <2>1, <1>6, HoldSteps, SendSteps
<1>7. CASE DeliverStore(c)
  BY <1>7, StoreSteps
<1>8. CASE SyncTaken(c)
  BY <1>8, PullSteps
<1>9. CASE Reply(c)
  BY <1>9, ReplySteps
<1> QED BY <1>1, <1>2, <1>3, <1>4, <1>5, <1>6, <1>7, <1>8, <1>9 DEF SessionStep

\* What every step of the server has in common: it reads its channels, logs in
\* users that asked for it, and its writers end on broken connections only.
Grows ==
  /\ UNCHANGED clientVars /\ conn_seq' = conn_seq
  /\ \A c \in Conns :
       /\ ToSet(up'[c]) \subseteq ToSet(up[c])
       /\ \/ user'[c] = user[c]
          \/ /\ user[c] = NoUser /\ user'[c] \in Users
             /\ \E f \in ToSet(up[c]) : f.cmd = "Handshake" /\ f.user = user'[c]
       /\ writer'[c] = "closed" => writer[c] = "closed" \/ cut[c]

LEMMA ServerGrows ==
  ASSUME ServerTypes, ServerMoves
  PROVE  Grows
<1> DEFINE Ups == \A c \in Conns : ToSet(up'[c]) \subseteq ToSet(up[c])
           Rest == UNCHANGED <<conn_seq, writer>>
<1>1. PICK c \in Conns : SessionStep(c) \/ (cut[c] /\ (ReaderExit(c) \/ WriterExit(c)))
  BY DEF ServerMoves
<1>2. UNCHANGED clientVars
  BY DEF ServerMoves
<1>a. Shape /\ Contents
  BY DEF ServerTypes
<1>3. CASE HandshakeAccepted(c)
  <2> DEFINE f == Head(up[c])
  <2>1. Takes(c, "Handshake") /\ user' = [user EXCEPT ![c] = f.user] /\ user[c] = NoUser
        /\ Rest
    BY <1>3 DEF HandshakeAccepted
  <2>2. /\ f \in ToSet(up[c]) /\ f.cmd = "Handshake" /\ f \in UpFrames
        /\ ToSet(up'[c]) \subseteq ToSet(up[c]) /\ \A d \in Conns : d # c => up'[d] = up[d]
    BY <2>1, <1>a, TakesOne, HeadOfUp
  <2>3. f.user \in Users
    BY <2>2, HandshakeUser
  <2>4. user'[c] = f.user /\ \A d \in Conns : d # c => user'[d] = user[d]
    BY <2>1, <1>a DEF Shape
  <2> HIDE DEF f
  <2>5. Ups
    BY <2>2
  <2>6. \A d \in Conns : \/ user'[d] = user[d]
          \/ /\ user[d] = NoUser /\ user'[d] \in Users
             /\ \E e \in ToSet(up[d]) : e.cmd = "Handshake" /\ e.user = user'[d]
    BY <2>1, <2>2, <2>3, <2>4
  <2> QED BY <2>1, <2>5, <2>6, <1>2 DEF Grows
<1>4. ASSUME NEW cmd, Takes(c, cmd), user' = user, Rest PROVE Grows
  <2>1. Ups
    BY <1>4, <1>a, TakesOne
  <2> QED BY <2>1, <1>2, <1>4 DEF Grows
<1>5. ASSUME up' = up, user' = user, Rest PROVE Grows
  BY <1>2, <1>5 DEF Grows
<1>6. CASE HandshakeRefused(c) \/ MsgDropped(c) \/ MsgNumbered(c) \/ SyncIgnored(c) \/ SyncTaken(c)
  <2>1. user' = user /\ Rest
    BY <1>6 DEF HandshakeRefused, MsgDropped, MsgNumbered, SyncIgnored, SyncTaken
  <2>2. \E cmd : Takes(c, cmd)
    BY <1>6 DEF HandshakeRefused, MsgDropped, MsgNumbered, SyncIgnored, SyncTaken
  <2> HIDE DEF Rest
  <2> QED BY <2>1, <2>2, <1>4
<1>7. CASE DeliverLookup(c) \/ DeliverSend(c) \/ DeliverStore(c) \/ Reply(c) \/ SessionEnd(c)
  <2>1. up' = up /\ user' = user /\ Rest
    BY <1>7 DEF DeliverLookup, DeliverSend, DeliverStore, Reply, SessionEnd, wires
  <2> HIDE DEF Rest
  <2> QED BY <2>1, <1>5
<1>8. CASE ReaderExit(c)
  <2>1. PICK k \in 0..Len(up[c]) : up' = [up EXCEPT ![c] = SubSeq(@, 1, k)]
    BY <1>8 DEF ReaderExit
  <2>2. up[c] \in Seq(UpFrames) /\ up'[c] = SubSeq(up[c], 1, k) /\ \A d \in Conns : d # c => up'[d] = up[d]
    BY <2>1, <1>a DEF Shape
  <2>3. ToSet(up'[c]) \subseteq ToSet(up[c])
    BY <2>2, HeldPrefix
  <2>4. Ups
    BY <2>2, <2>3
  <2>5. user' = user /\ Rest
    BY <1>8 DEF ReaderExit
  <2> QED BY <2>4, <2>5, <1>2 DEF Grows
<1>9. CASE cut[c] /\ WriterExit(c)
  <2>1. /\ writer' = [writer EXCEPT ![c] = "closed"] /\ UNCHANGED <<conn_seq, up, user>>
    BY <1>9 DEF WriterExit
  <2>2. \A d \in Conns : writer'[d] = "closed" => writer[d] = "closed" \/ cut[d]
    BY <2>1, <1>9, <1>a DEF Contents
  <2> QED BY <2>1, <2>2, <1>2 DEF Grows
<1> QED BY <1>1, <1>3, <1>6, <1>7, <1>8, <1>9 DEF SessionStep

\* Who is on which connection outlives a step of the server.
LEMMA GrowsNamed ==
  ASSUME Grows, NEW c \in Conns, NEW v \in Users, Named(c, v)'
  PROVE  Named(c, v)
<1>1. ToSet(up'[c]) \subseteq ToSet(up[c])
  BY DEF Grows
<1>2. \/ user'[c] = user[c]
      \/ \E f \in ToSet(up[c]) : f.cmd = "Handshake" /\ f.user = user'[c]
  BY DEF Grows
<1> QED BY <1>1, <1>2 DEF Named

LEMMA GrowsUser ==
  ASSUME Grows, NEW c \in Conns, user[c] # NoUser
  PROVE  user'[c] = user[c]
BY DEF Grows

LEMMA GrowsUntouched ==
  ASSUME Grows, NEW u \in Users, Untouched(u)'
  PROVE  Untouched(u)
<1>1. \A c \in Conns : user[c] = u => user'[c] = u
  BY GrowsUser, SessionsAssumption
<1>2. cut' = cut
  BY DEF Grows, clientVars
<1> QED BY <1>1, <1>2 DEF Untouched

LEMMA ServerKeepsOnline ==
  ASSUME ServerTypes, ClientTypes, Grows, Online, OneClient, ClosedIsCut
  PROVE  Online' /\ OneClient' /\ ClosedIsCut'
<1>1. UNCHANGED <<phase, link, cut, conn_seq>>
  BY DEF Grows, clientVars
<1>2. Online'
  <2> SUFFICES ASSUME NEW u \in Users
               PROVE  /\ link[u] # NoConn <=> phase[u] \in {"handshake", "loop"}
                      /\ link[u] # NoConn => link[u] <= conn_seq
                      /\ phase[u] = "loop" => user'[link[u]] = u
    BY <1>1 DEF Online
  <2>1. /\ link[u] # NoConn <=> phase[u] \in {"handshake", "loop"}
        /\ link[u] # NoConn => link[u] <= conn_seq
        /\ phase[u] = "loop" => user[link[u]] = u
    BY DEF Online
  <2>2. ASSUME phase[u] = "loop" PROVE user'[link[u]] = u
    <3>1. link[u] \in Conns /\ user[link[u]] # NoUser
      BY <2>1, <2>2, SessionsAssumption DEF ClientTypes
    <3> QED BY <3>1, <2>1, <2>2, GrowsUser
  <2> QED BY <2>1, <2>2
<1>3. OneClient'
  <2> SUFFICES ASSUME NEW c \in Conns, NEW v \in Users, Named(c, v)'
               PROVE  (\A u \in Users : link[u] = c => u = v) /\ (~cut[c] => link[v] = c)
    BY <1>1 DEF OneClient
  <2>1. Named(c, v)
    BY GrowsNamed
  <2> QED BY <2>1 DEF OneClient
<1>4. ClosedIsCut'
  BY <1>1 DEF Grows, ClosedIsCut
<1> QED BY <1>2, <1>3, <1>4

LEMMA ServerKeepsPull ==
  ASSUME ServerTypes, Grows, LoggedIn, FirstPull
  PROVE  FirstPull'
<1>1. UNCHANGED <<phase, inbox>>
  BY DEF Grows, clientVars
<1> SUFFICES ASSUME NEW u \in Users, Untouched(u)'
             PROVE  /\ phase[u] # "loop" => inbox[u].cursor = 0
                    /\ \A c \in Conns : user'[c] = u =>
                         \A f \in ToSet(up'[c]) : f.cmd = "SyncReq" => f.since = 0
  BY <1>1 DEF FirstPull
<1>2. Untouched(u)
  BY GrowsUntouched
<1>3. ASSUME NEW c \in Conns, user'[c] = u, NEW f \in ToSet(up'[c]), f.cmd = "SyncReq"
      PROVE  f.since = 0
  <2>1. f \in ToSet(up[c])
    BY DEF Grows
  <2>2. user[c] # NoUser
    BY <2>1, <1>3 DEF LoggedIn
  <2>3. user[c] = u
    BY <2>2, <1>3, GrowsUser
  <2> QED BY <2>1, <2>3, <1>2, <1>3 DEF FirstPull
<1> QED BY <1>2, <1>3 DEF FirstPull

(***************************************************************************)
(* Logins are confirmed once they have taken place.                        *)
(***************************************************************************)
LEMMA ServerKeepsLogins ==
  ASSUME ServerTypes, ServerMoves, LoggedIn
  PROVE  LoggedIn'
<1>1. Grows
  BY ServerGrows
<1>2. \A c \in Conns : \A f \in ToSet(up'[c]) : f.cmd # "Handshake" => user'[c] # NoUser
  BY <1>1, GrowsUser DEF Grows, LoggedIn
<1> DEFINE New(c) == \A b \in Ahead(c)' : Welcome(b) => b \in Ahead(c) \/ user'[c] \in Users
<1>3. ASSUME NEW c \in Conns, SameAhead(c) PROVE New(c)
  BY <1>3 DEF SameAhead
<1>4. ASSUME NEW c \in Conns, NEW b, Says(c, b), Welcome(b) => user'[c] \in Users
      PROVE  \A d \in Conns : New(d)
  BY <1>3, <1>4 DEF Says
<1>5. ASSUME NEW c \in Conns, AnswerStep(c) PROVE \A d \in Conns : New(d)
  <2>1. PICK b \in BOOLEAN : /\ Says(c, [cmd |-> "HandshakeAck", accepted |-> b])
                             /\ b => user'[c] \in Users
    BY <1>5 DEF AnswerStep
  <2>2. Welcome([cmd |-> "HandshakeAck", accepted |-> b]) => user'[c] \in Users
    BY <2>1 DEF Welcome
  <2> HIDE DEF New
  <2> QED BY <2>1, <2>2, <1>4
<1>6. ASSUME NEW c \in Conns, NumberStep(c) \/ HoldStep(c) PROVE \A d \in Conns : New(d)
  <2>1. \A d \in Conns : SameAhead(d)
    BY <1>6 DEF NumberStep, HoldStep
  <2> HIDE DEF New
  <2> QED BY <2>1, <1>3
<1>7. ASSUME NEW c \in Conns, SendStep(c) PROVE \A d \in Conns : New(d)
  BY <1>7 DEF SendStep, Welcome
<1>8. ASSUME NEW c \in Conns, StoreStep(c) PROVE \A d \in Conns : New(d)
  <2>1. Says(c, [cmd |-> "MsgAck", msg |-> job[c].msg])
    BY <1>8 DEF StoreStep
  <2>2. ~Welcome([cmd |-> "MsgAck", msg |-> job[c].msg])
    BY DEF Welcome
  <2> HIDE DEF New
  <2> QED BY <2>1, <2>2, <1>4
<1>9. ASSUME NEW c \in Conns, PullStep(c) PROVE \A d \in Conns : New(d)
  <2>1. PICK f \in ToSet(up[c]) :
          Says(c, [cmd |-> "SyncResp", messages |-> SyncScan(offline[user[c]], f.since)[1]])
    BY <1>9 DEF PullStep
  <2>2. ~Welcome([cmd |-> "SyncResp", messages |-> SyncScan(offline[user[c]], f.since)[1]])
    BY DEF Welcome
  <2> HIDE DEF New
  <2> QED BY <2>1, <2>2, <1>4
<1>10. ASSUME NEW c \in Conns, ReplyStep(c) PROVE \A d \in Conns : New(d)
  BY <1>3, <1>10 DEF ReplyStep
<1>11. ASSUME QuietStep PROVE \A d \in Conns : New(d)
  BY <1>3, <1>11 DEF QuietStep
<1> HIDE DEF New
<1>12. \A d \in Conns : New(d)
  BY ServerEffects, <1>5, <1>6, <1>7, <1>8, <1>9, <1>10, <1>11
<1>13. \A c \in Conns : \A b \in Ahead(c)' : Welcome(b) => user'[c] # NoUser
  BY <1>12, <1>1, GrowsUser, SessionsAssumption DEF LoggedIn, New
<1> QED BY <1>2, <1>13 DEF LoggedIn

(***************************************************************************)
(* Messages keep their sender and their recipient.                         *)
(***************************************************************************)
LEMMA HandIn ==
  ASSUME Contents, NEW c \in Conns, InHand(c)
  PROVE  job[c].msg \in Msgs
BY HandMsg DEF InHand

\* What the tasks hold.
HandGenuine(c) ==
  /\ InHand(c) => Genuine(job[c].msg) /\ job[c].msg.from = user[c]
  /\ job[c].kind = "send" => user[job[c].target] = job[c].msg.to

LEMMA FromClientsParts ==
  FromClients <=>
    /\ \A u \in Users : \A e \in ToSet(outbox[u]) : e.cmid \in 1..cmid_seq[u]
    /\ \A c \in Conns : \A f \in ToSet(up[c]) :
         f.cmd = "Msg" => f.cmid \in 1..cmid_seq[user[c]]
    /\ \A c \in Conns : HandGenuine(c)
    /\ \A m \in placed : Genuine(m)
BY DEF FromClients, HandGenuine

LEMMA HandSame ==
  ASSUME ServerTypes, Grows, NEW d \in Conns, SameJob(d), HandGenuine(d)
  PROVE  HandGenuine(d)'
<1>1. cmid_seq' = cmid_seq
  BY DEF Grows, clientVars
<1>2. job'[d] = job[d]
  BY DEF SameJob
<1>3. ASSUME InHand(d)'
      PROVE  Genuine(job[d].msg)' /\ job[d].msg.from = user'[d]
  <2>1. InHand(d)
    BY <1>2, <1>3 DEF InHand
  <2>2. job[d].msg.from \in Users
    BY <2>1, HandIn DEF ServerTypes, Msgs
  <2>3. user[d] = job[d].msg.from /\ Genuine(job[d].msg)
    BY <2>1 DEF HandGenuine
  <2>4. user'[d] = user[d]
    BY <2>2, <2>3, GrowsUser, SessionsAssumption
  <2> QED BY <2>3, <2>4, <1>1, <1>2 DEF Genuine
<1>4. ASSUME job'[d].kind = "send" PROVE user'[job[d].target] = job[d].msg.to
  <2>1. job[d].kind = "send" /\ job[d].target \in Conns /\ InHand(d)
    BY <1>2, <1>4, HandTarget DEF ServerTypes, InHand
  <2>2. job[d].msg.to \in Users /\ user[job[d].target] = job[d].msg.to
    BY <2>1, HandIn DEF ServerTypes, Msgs, HandGenuine
  <2> QED BY <2>1, <2>2, GrowsUser, SessionsAssumption
<1> QED BY <1>2, <1>3, <1>4 DEF HandGenuine

\* A task that has given its message on holds none.
LEMMA HandEmpty ==
  ASSUME NEW c \in Conns, ~InHand(c)'
  PROVE  HandGenuine(c)'
BY DEF HandGenuine, InHand

LEMMA ServerKeepsGenuine ==
  ASSUME ServerTypes, ServerMoves, LoggedIn, FromClients
  PROVE  FromClients'
<1>1. Grows
  BY ServerGrows
<1>2. UNCHANGED <<cmid_seq, outbox>>
  BY <1>1 DEF Grows, clientVars
<1>3. \A c \in Conns : \A f \in ToSet(up'[c]) :
        f.cmd = "Msg" => f.cmid \in 1..cmid_seq[user'[c]]
  <2> SUFFICES ASSUME NEW c \in Conns, NEW f \in ToSet(up'[c]), f.cmd = "Msg"
               PROVE  f.cmid \in 1..cmid_seq[user'[c]]
    OBVIOUS
  <2>1. f \in ToSet(up[c])
    BY <1>1 DEF Grows
  <2>2. user[c] # NoUser
    BY <2>1 DEF LoggedIn
  <2>3. user'[c] = user[c]
    BY <2>2, <1>1, GrowsUser
  <2> QED BY <2>1, <2>3 DEF FromClients
<1>4. \A c \in Conns : HandGenuine(c)
  BY FromClientsParts
<1> DEFINE Goal == (\A d \in Conns : HandGenuine(d)') /\ (\A m \in placed' : Genuine(m))
<1>a. ASSUME Goal PROVE FromClients'
  <2>1. \A u \in Users : \A e \in ToSet(outbox[u]) : e.cmid \in 1..cmid_seq[u]
    BY DEF FromClients
  <2> QED BY <2>1, <1>2, <1>3, <1>a DEF FromClients, HandGenuine, Genuine
<1>5. ASSUME NEW c \in Conns, \A d \in Conns : d # c => SameJob(d), ~InHand(c)',
             \A m \in placed' : m \in placed \/ (InHand(c) /\ m = job[c].msg)
      PROVE  Goal
  <2>1. \A d \in Conns : HandGenuine(d)'
    BY <1>1, <1>4, <1>5, HandSame, HandEmpty
  <2>2. \A m \in placed' : Genuine(m)
    BY <1>4, <1>5, FromClientsParts DEF HandGenuine
  <2> QED BY <2>1, <2>2
<1>6. CASE QuietStep
  <2>1. placed' = placed /\ \A d \in Conns : SameJob(d)
    BY <1>6 DEF QuietStep
  <2>2. \A d \in Conns : HandGenuine(d)'
    BY <2>1, <1>1, <1>4, HandSame
  <2>3. Goal
    BY <2>1, <2>2, FromClientsParts
  <2> QED BY <2>3, <1>a
<1>7. ASSUME NEW c \in Conns, AnswerStep(c) \/ StoreStep(c) \/ PullStep(c) \/ ReplyStep(c) \/ SendStep(c)
      PROVE  Goal
  <2>1. \A d \in Conns : d # c => SameJob(d)
    BY <1>7 DEF AnswerStep, StoreStep, PullStep, ReplyStep, SendStep, Says
  <2>2. ~InHand(c)'
    BY <1>7 DEF AnswerStep, StoreStep, PullStep, ReplyStep, SendStep, Says
  <2>3. \A m \in placed' : m \in placed \/ (InHand(c) /\ m = job[c].msg)
    BY <1>7 DEF AnswerStep, StoreStep, PullStep, ReplyStep, SendStep, InHand
  <2> HIDE DEF Goal
  <2> QED BY <2>1, <2>2, <2>3, <1>5
<1>8. ASSUME NEW c \in Conns, NumberStep(c) PROVE Goal
  <2>1. /\ user[c] # NoUser /\ InHand(c)' /\ job'[c].kind = "route"
        /\ placed' = placed /\ user' = user
        /\ \A d \in Conns : d # c => SameJob(d)
    BY <1>8 DEF NumberStep
  <2>2. PICK f \in ToSet(up[c]) :
          f.cmd = "Msg" /\ job'[c].msg.cmid = f.cmid /\ job'[c].msg.from = user[c]
    BY <1>8 DEF NumberStep
  <2>3. f.cmid \in 1..cmid_seq[user[c]]
    BY <2>2 DEF FromClients
  <2>4. HandGenuine(c)'
    BY <2>1, <2>2, <2>3, <1>2 DEF HandGenuine, Genuine
  <2>5. \A d \in Conns : HandGenuine(d)'
    BY <2>1, <2>4, <1>1, <1>4, HandSame
  <2> QED BY <2>1, <2>5, FromClientsParts
<1>9. ASSUME NEW c \in Conns, HoldStep(c) PROVE Goal
  <2>1. /\ InHand(c) /\ job'[c].msg = job[c].msg
        /\ placed' = placed /\ user' = user
        /\ \A d \in Conns : d # c => SameJob(d)
        /\ job'[c].kind = "send" => user[job'[c].target] = job[c].msg.to
    BY <1>9 DEF HoldStep
  <2>2. HandGenuine(c)
    BY <1>4
  <2>3. HandGenuine(c)'
    BY <2>1, <2>2, <1>2 DEF HandGenuine, Genuine
  <2>4. \A d \in Conns : HandGenuine(d)'
    BY <2>1, <2>3, <1>1, <1>4, HandSame
  <2> QED BY <2>1, <2>4, FromClientsParts
<1> HIDE DEF Goal
<1> QED BY ServerEffects, <1>6, <1>7, <1>8, <1>9, <1>a

(***************************************************************************)
(* The offline queue loses nothing that has room in it, and a pull nothing *)
(* past the cursor.                                                        *)
(***************************************************************************)
LEMMA StoreHolds ==
  ASSUME NEW q \in Seq(Msgs), NEW m \in Msgs, Len(q) <= MAX_OFFLINE
  PROVE  /\ m \in ToSet(store_offline(q, m))
         /\ ToSet(store_offline(q, m)) \subseteq ToSet(q) \cup {m}
         /\ Len(q) < MAX_OFFLINE => ToSet(q) \subseteq ToSet(store_offline(q, m))
<1> DEFINE kept == IF Len(q) >= MAX_OFFLINE THEN Tail(q) ELSE q
<1>1. Len(q) \in Nat /\ MAX_OFFLINE \in Nat \ {0}
  BY SessionsAssumption
<1>2. Len(q) >= MAX_OFFLINE => q # << >>
  BY <1>1
<1>3. kept \in Seq(Msgs) /\ ToSet(kept) \subseteq ToSet(q)
  BY <1>2, HeldTail
<1>4. Len(q) < MAX_OFFLINE => kept = q
  BY <1>1
<1>5. store_offline(q, m) = Append(kept, m)
  BY DEF store_offline
<1> HIDE DEF kept
<1>6. ToSet(store_offline(q, m)) = ToSet(kept) \cup {m}
  BY <1>3, <1>5, HeldAppended
<1> QED BY <1>3, <1>4, <1>6

\* A pull divides the queue: what it takes comes from the first k places, what
\* it leaves is the rest.
CutAt(S, q, since, k) ==
  /\ SyncScan(q, since)[1] \in Seq(S)
  /\ \A n \in 1..Len(SyncScan(q, since)[1]) :
       \E i \in 1..k : SyncScan(q, since)[1][n] = q[i]
  /\ SyncScan(q, since)[2] \in Seq(S)
  /\ Len(SyncScan(q, since)[2]) = Len(q) - k
  /\ \A i \in 1..(Len(q) - k) : SyncScan(q, since)[2][i] = q[k + i]

LEMMA ScanCuts ==
  \A S : \A q \in Seq(S) : \A since : \E k \in 0..Len(q) : CutAt(S, q, since, k)
BY ScanParts, Zenon DEF CutAt

LEMMA ScanHolds ==
  ASSUME NEW q \in Seq(Msgs), NEW since
  PROVE  /\ SyncScan(q, since)[1] \in Seq(Msgs)
         /\ ToSet(SyncScan(q, since)[1]) \subseteq ToSet(q)
         /\ ToSet(SyncScan(q, since)[2]) \subseteq ToSet(q)
<1> DEFINE a == SyncScan(q, since)[1]  b == SyncScan(q, since)[2]
<1>0. q \in Seq(Msgs)
  OBVIOUS
<1>p. PICK k \in 0..Len(q) : CutAt(Msgs, q, since, k)
  BY <1>0, ScanCuts
<1>1. /\ a \in Seq(Msgs)
      /\ \A n \in 1..Len(a) : \E i \in 1..k : a[n] = q[i]
      /\ b \in Seq(Msgs)
      /\ Len(b) = Len(q) - k
      /\ \A i \in 1..(Len(q) - k) : b[i] = q[k + i]
  BY <1>p DEF CutAt
<1> HIDE DEF a, b
<1>2. Len(q) \in Nat
  OBVIOUS
<1>3. ASSUME NEW x \in ToSet(a) PROVE x \in ToSet(q)
  <2>1. PICK n \in 1..Len(a) : a[n] = x
    BY <1>1, HeldIn DEF a
  <2>2. PICK i \in 1..k : x = q[i]
    BY <2>1, <1>1 DEF a
  <2>3. i \in 1..Len(q)
    BY <1>2
  <2> QED BY <2>2, <2>3, HeldIn
<1>4. ASSUME NEW x \in ToSet(b) PROVE x \in ToSet(q)
  <2>1. PICK n \in 1..Len(b) : b[n] = x
    BY <1>1, HeldIn DEF b
  <2>2. n \in 1..(Len(q) - k) /\ x = q[k + n]
    BY <2>1, <1>1 DEF b
  <2>3. k + n \in 1..Len(q)
    BY <2>2, <1>2
  <2> QED BY <2>2, <2>3, HeldIn
<1> QED BY <1>1, <1>3, <1>4 DEF a, b

\* The n-th position is the one with n positions up to it.
LEMMA NthOfRank ==
  ASSUME NEW len \in Nat, NEW I \in SUBSET (1..len), NEW i \in I
  PROVE  Rank(I, i) \in 1..Cardinality(I) /\ Nth(I, Rank(I, i)) = i
<1>1. Rank(I, i) \in 1..Cardinality(I)
  BY RankBound
<1> DEFINE r == Rank(I, i)
<1> HIDE DEF r
<1>2. Nth(I, r) \in I /\ Rank(I, Nth(I, r)) = r
  BY <1>1, NthIn DEF r
<1> DEFINE k == Nth(I, r)
<1> HIDE DEF k
<1>3. k \in I /\ Rank(I, k) = r /\ Rank(I, i) = r /\ r \in Nat
  BY <1>2, RankBound DEF k, r
<1>4. ~(i < k)
  <2> SUFFICES ASSUME i < k PROVE FALSE
    OBVIOUS
  <2>1. Rank(I, i) < Rank(I, k)
    BY <1>3, RankGrows
  <2> QED BY <2>1, <1>3
<1>5. ~(k < i)
  <2> SUFFICES ASSUME k < i PROVE FALSE
    OBVIOUS
  <2>1. Rank(I, k) < Rank(I, i)
    BY <1>3, RankGrows
  <2> QED BY <2>1, <1>3
<1>6. i \in Nat /\ k \in Nat
  BY <1>3
<1>7. k = i
  BY <1>4, <1>5, <1>6
<1> QED BY <1>1, <1>7 DEF k, r

LEMMA ScanKeeps ==
  ASSUME NEW q \in Seq(Msgs), NEW since, NEW i \in 1..Len(q), q[i].id > since
  PROVE  q[i] \in ToSet(SyncScan(q, since)[1]) \cup ToSet(SyncScan(q, since)[2])
<1> DEFINE past == {j \in 1..Len(q) : q[j].id > since}
           all == Cardinality(past) <= SYNC_BATCH
           batch == IF all THEN Cardinality(past) ELSE SYNC_BATCH
           popped == IF all THEN Len(q) ELSE Nth(past, SYNC_BATCH + 1) - 1
           r == Rank(past, i)
<1>1. Len(q) \in Nat /\ past \in SUBSET (1..Len(q)) /\ i \in past
  OBVIOUS
<1>2. SyncScan(q, since) = <<[n \in 1..batch |-> q[Nth(past, n)]], SubSeq(q, popped + 1, Len(q))>>
  BY DEF SyncScan
<1>3. SYNC_BATCH \in Nat \ {0}
  BY SessionsAssumption
<1>d. batch = (IF all THEN Cardinality(past) ELSE SYNC_BATCH)
      /\ popped = (IF all THEN Len(q) ELSE Nth(past, SYNC_BATCH + 1) - 1)
      /\ (all <=> Cardinality(past) <= SYNC_BATCH)
  OBVIOUS
<1> HIDE DEF past, batch, popped, all
<1>4. r \in 1..Cardinality(past) /\ Nth(past, r) = i /\ Cardinality(past) \in Nat
  BY <1>1, NthOfRank, RankBound
<1> HIDE DEF r
<1>5. ASSUME r \in 1..batch PROVE q[i] \in ToSet(SyncScan(q, since)[1])
  <2>1. r \in DOMAIN SyncScan(q, since)[1] /\ SyncScan(q, since)[1][r] = q[i]
    BY <1>2, <1>4, <1>5
  <2> QED BY <2>1 DEF ToSet
<1>6. CASE all
  BY <1>4, <1>5, <1>6, <1>d
<1>7. CASE ~all
  <2> DEFINE p == Nth(past, SYNC_BATCH + 1)
  <2>1. SYNC_BATCH + 1 \in 1..Cardinality(past)
    BY <1>3, <1>4, <1>7, <1>d
  <2>2. p \in past /\ Rank(past, p) = SYNC_BATCH + 1 /\ p \in 1..Len(q)
    BY <1>1, <2>1, NthIn
  <2>3. popped = p - 1 /\ batch = SYNC_BATCH
    BY <1>7, <1>d
  <2> HIDE DEF p
  <2>4. CASE i < p
    <3>1. Rank(past, i) < Rank(past, p)
      BY <1>1, <2>2, <2>4, RankGrows
    <3>2. r \in 1..batch
      BY <3>1, <2>2, <2>3, <1>3, <1>4 DEF r
    <3> QED BY <3>2, <1>5
  <2>5. CASE ~(i < p)
    <3> DEFINE t == SubSeq(q, popped + 1, Len(q))
               n == (i - p) + 1
    <3>1. /\ popped + 1 = p /\ Len(q) \in Int /\ p \in Int /\ p <= Len(q)
          /\ n \in 1..((Len(q) - p) + 1) /\ (p + n) - 1 = i
      BY <1>1, <2>2, <2>3, <2>5
    <3>2. \A j \in p..Len(q) : q[j] \in Msgs
      BY <2>2, ElementOfSeq, <1>1
    <3>3. t = SubSeq(q, p, Len(q))
      BY <3>1
    <3> HIDE DEF n
    <3>4. /\ t \in Seq(Msgs) /\ Len(t) = (Len(q) - p) + 1
          /\ \A j \in 1..((Len(q) - p) + 1) : t[j] = q[(p + j) - 1]
      BY <3>1, <3>2, <3>3, SubSeqProperties
    <3>5. n \in 1..Len(t) /\ t[n] = q[i]
      BY <3>1, <3>4
    <3>6. q[i] \in ToSet(t)
      BY <3>4, <3>5, HeldIn
    <3> QED BY <3>6, <1>2
  <2> QED BY <2>4, <2>5
<1> QED BY <1>6, <1>7

LEMMA FirstPullKeeps ==
  ASSUME NEW q \in Seq(Msgs), NEW m \in ToSet(q)
  PROVE  m \in ToSet(SyncScan(q, 0)[1]) \cup ToSet(SyncScan(q, 0)[2])
<1>1. PICK i \in 1..Len(q) : q[i] = m
  BY HeldIn
<1>2. m \in Msgs
  BY HeldIn
<1>3. q[i].id > 0
  BY <1>1, <1>2, SessionsAssumption DEF Msgs
<1> QED BY <1>1, <1>3, ScanKeeps

(***************************************************************************)
(* The queues and the frames of a connection hold what is meant for its    *)
(* user.                                                                   *)
(***************************************************************************)
LEMMA MeantStays ==
  ASSUME ServerTypes, Grows, placed \subseteq placed', NEW c \in Conns, NEW b,
         Meant(b, user[c])
  PROVE  Meant(b, user[c])'
<1>1. user'[c] = user[c] \/ user[c] = NoUser
  BY DEF Grows
<1>2. \A m \in placed : m.to # NoUser /\ m.from # NoUser
  BY SessionsAssumption DEF ServerTypes, Contents, Msgs
<1> QED BY <1>1, <1>2 DEF Meant

QueuesMeant == \A u \in Users : \A m \in ToSet(offline[u]) : m \in placed /\ m.to = u
FramesMeant(c) == \A b \in Ahead(c) : Meant(b, user[c])

LEMMA FramesStay ==
  ASSUME ServerTypes, Grows, placed \subseteq placed', NEW c \in Conns, FramesMeant(c),
         \A b \in Ahead(c)' : b \in Ahead(c) \/ Meant(b, user[c])'
  PROVE  FramesMeant(c)'
BY MeantStays DEF FramesMeant

LEMMA ServerKeepsAddressed ==
  ASSUME ServerTypes, ServerMoves, FromClients, Addressed
  PROVE  Addressed' /\ placed \subseteq placed'
<1>1. Grows
  BY ServerGrows
<1>2. QueuesMeant /\ \A c \in Conns : FramesMeant(c)
  BY DEF Addressed, QueuesMeant, FramesMeant
<1>t. \A u \in Users : offline[u] \in Seq(Msgs) /\ Len(offline[u]) <= MAX_OFFLINE
  BY DEF ServerTypes, Contents
<1> DEFINE Goal == /\ QueuesMeant' /\ placed \subseteq placed'
                   /\ \A c \in Conns : FramesMeant(c)'
<1>3. ASSUME \A d \in Conns : \A b \in Ahead(d)' : b \in Ahead(d) \/ Meant(b, user[d])',
             placed \subseteq placed', QueuesMeant'
      PROVE  Goal
  BY <1>1, <1>2, <1>3, FramesStay
<1>4. ASSUME UNCHANGED <<offline, placed>> PROVE QueuesMeant' /\ placed \subseteq placed'
  BY <1>2, <1>4 DEF QueuesMeant
<1>5. ASSUME QuietStep PROVE Goal
  <2>1. \A d \in Conns : Ahead(d)' = Ahead(d)
    BY <1>5 DEF QuietStep, SameAhead
  <2> QED BY <2>1, <1>3, <1>4, <1>5 DEF QuietStep
<1>6. ASSUME NEW c \in Conns, NumberStep(c) \/ HoldStep(c) \/ ReplyStep(c) PROVE Goal
  <2>1. \A d \in Conns : Ahead(d)' \subseteq Ahead(d)
    BY <1>6 DEF NumberStep, HoldStep, ReplyStep, SameAhead
  <2>2. UNCHANGED <<offline, placed>>
    BY <1>6 DEF NumberStep, HoldStep, ReplyStep
  <2> QED BY <2>1, <2>2, <1>3, <1>4
<1>7. ASSUME NEW c \in Conns, NEW b, Says(c, b), Meant(b, user[c])',
             placed \subseteq placed', QueuesMeant'
      PROVE  Goal
  <2>1. \A d \in Conns : \A e \in Ahead(d)' : e \in Ahead(d) \/ Meant(e, user[d])'
    BY <1>7 DEF Says, SameAhead
  <2> QED BY <2>1, <1>3, <1>7
<1> HIDE DEF Goal
<1>8. ASSUME NEW c \in Conns, AnswerStep(c) PROVE Goal
  <2>1. PICK a \in BOOLEAN : Says(c, [cmd |-> "HandshakeAck", accepted |-> a])
    BY <1>8 DEF AnswerStep
  <2>2. Meant([cmd |-> "HandshakeAck", accepted |-> a], user[c])'
    BY DEF Meant
  <2> QED BY <2>1, <2>2, <1>4, <1>7, <1>8 DEF AnswerStep
<1>9. ASSUME NEW c \in Conns, SendStep(c) PROVE Goal
  <2>1. PICK m \in Msgs, t \in Conns :
          /\ job[c].kind = "send" /\ m = job[c].msg /\ t = job[c].target
          /\ \A d \in Conns : \A b \in Ahead(d)' :
               \/ b \in Ahead(d)
               \/ d = t /\ b = [cmd |-> "Msg", msg |-> m]
               \/ d = c /\ b = [cmd |-> "MsgAck", msg |-> m]
          /\ placed' = placed \cup {m} /\ UNCHANGED <<offline, user>>
    BY <1>9 DEF SendStep
  <2>2. user[t] = m.to /\ user[c] = m.from
    BY <2>1 DEF FromClients, InHand
  <2>3. /\ Meant([cmd |-> "Msg", msg |-> m], user[t])'
        /\ Meant([cmd |-> "MsgAck", msg |-> m], user[c])'
    BY <2>1, <2>2 DEF Meant
  <2>4. QueuesMeant'
    BY <2>1, <1>2 DEF QueuesMeant
  <2>5. \A d \in Conns : \A b \in Ahead(d)' : b \in Ahead(d) \/ Meant(b, user[d])'
    BY <2>1, <2>3
  <2> QED BY <2>1, <2>4, <2>5, <1>3
<1>10. ASSUME NEW c \in Conns, StoreStep(c) PROVE Goal
  <2> DEFINE a == [cmd |-> "MsgAck", msg |-> job[c].msg]
  <2>1. PICK m \in Msgs :
          /\ job[c].kind = "store" /\ m = job[c].msg
          /\ Says(c, a)
          /\ placed' = placed \cup {m}
          /\ offline' = [offline EXCEPT ![m.to] = store_offline(@, m)]
          /\ UNCHANGED user
    BY <1>10 DEF StoreStep
  <2>2. user[c] = m.from /\ m.to \in Users
    BY <2>1 DEF FromClients, InHand, Msgs
  <2>3. a.cmd = "MsgAck" /\ a.msg = m
    BY <2>1
  <2> HIDE DEF a
  <2>4. PICK b : b = a
    OBVIOUS
  <2>5. Meant(b, user[c])'
    BY <2>1, <2>2, <2>3, <2>4 DEF Meant
  <2>6. ASSUME NEW u \in Users, NEW x \in ToSet(offline'[u]) PROVE x \in placed' /\ x.to = u
    <3>1. CASE u = m.to
      <4>1. offline'[u] = store_offline(offline[u], m)
        BY <3>1, <2>1, <2>2 DEF ServerTypes, Contents
      <4>2. x \in ToSet(offline[u]) \/ x = m
        BY <4>1, <1>t, StoreHolds
      <4> QED BY <4>2, <3>1, <2>1, <1>2 DEF QueuesMeant
    <3>2. CASE u # m.to
      <4>1. offline'[u] = offline[u]
        BY <3>2, <2>1, <2>2 DEF ServerTypes, Contents
      <4> QED BY <4>1, <2>1, <1>2 DEF QueuesMeant
    <3> QED BY <3>1, <3>2
  <2>7. QueuesMeant'
    BY <2>6 DEF QueuesMeant
  <2>8. Says(c, b)
    BY <2>1, <2>4
  <2> QED BY <2>1, <2>5, <2>7, <2>8, <1>7
<1>11. ASSUME NEW c \in Conns, PullStep(c) PROVE Goal
  <2>1. PICK f \in ToSet(up[c]) :
          /\ Says(c, [cmd |-> "SyncResp", messages |-> SyncScan(offline[user[c]], f.since)[1]])
          /\ offline' = [offline EXCEPT ![user[c]] = SyncScan(offline[user[c]], f.since)[2]]
    BY <1>11 DEF PullStep
  <2>2. user[c] \in Users /\ UNCHANGED <<placed, user>>
    BY <1>11 DEF PullStep
  <2>3. PICK u \in Users : u = user[c]
    BY <2>2
  <2>4. PICK q \in Seq(Msgs) : q = offline[u]
    BY <1>t
  <2>5. /\ SyncScan(q, f.since)[1] \in Seq(Msgs)
        /\ ToSet(SyncScan(q, f.since)[1]) \subseteq ToSet(q)
        /\ ToSet(SyncScan(q, f.since)[2]) \subseteq ToSet(q)
    BY ScanHolds
  <2>6. PICK ms \in Seq(Msgs) : ms = SyncScan(q, f.since)[1]
    BY <2>5
  <2> DEFINE b == [cmd |-> "SyncResp", messages |-> ms]
  <2>7. Says(c, b)
    BY <2>1, <2>3, <2>4, <2>6
  <2>8. \A i \in 1..Len(ms) : ms[i] \in placed /\ ms[i].to = u
    BY <2>4, <2>5, <2>6, <1>2, HeldIn DEF QueuesMeant
  <2>9. Meant(b, user[c])'
    BY <2>2, <2>3, <2>8 DEF Meant
  <2>10. ASSUME NEW w \in Users, NEW x \in ToSet(offline'[w]) PROVE x \in placed' /\ x.to = w
    <3>1. offline'[u] = SyncScan(q, f.since)[2] /\ (w # u => offline'[w] = offline[w])
      BY <2>1, <2>3, <2>4 DEF ServerTypes, Contents
    <3>2. x \in ToSet(offline[w])
      BY <3>1, <2>4, <2>5
    <3> QED BY <3>2, <2>2, <1>2 DEF QueuesMeant
  <2>11. QueuesMeant'
    BY <2>10 DEF QueuesMeant
  <2> HIDE DEF b
  <2> QED BY <2>2, <2>7, <2>9, <2>11, <1>7
<1>12. Goal
  BY ServerEffects, <1>5, <1>6, <1>8, <1>9, <1>10, <1>11
<1> QED BY <1>12 DEF Goal, Addressed, QueuesMeant, FramesMeant

LEMMA ServerKeepsTraced ==
  ASSUME Grows, placed \subseteq placed', Traced, SeenShown
  PROVE  Traced' /\ SeenShown'
<1>1. UNCHANGED <<inbox, confirmed>>
  BY DEF Grows, clientVars
<1> QED BY <1>1 DEF Traced, SeenShown

(***************************************************************************)
(* The handover. As long as no queue is full, a step of the server leaves  *)
(* no message behind: what it takes out of a queue goes to a connection of *)
(* the recipient, and what is on such a connection stays there.            *)
(***************************************************************************)
RoomLeft == \A u \in Users : Len(offline[u]) < MAX_OFFLINE

LEMMA QueuesKeep ==
  ASSUME ServerTypes, ServerMoves, FirstPull, RoomLeft,
         NEW u \in Users, Untouched(u), NEW m \in ToSet(offline[u])
  PROVE  \/ m \in ToSet(offline'[u])
         \/ \E c \in Conns : user[c] = u /\ \E b \in Ahead(c)' : Carries(b, m)
<1>1. \A w \in Users : offline[w] \in Seq(Msgs)
  BY DEF ServerTypes, Contents
<1>2. ASSUME offline' = offline PROVE m \in ToSet(offline'[u])
  BY <1>2
<1>3. ASSUME NEW c \in Conns, StoreStep(c) PROVE m \in ToSet(offline'[u])
  <2>1. PICK n \in Msgs : offline' = [offline EXCEPT ![n.to] = store_offline(@, n)]
    BY <1>3 DEF StoreStep
  <2>2. n.to \in Users
    BY DEF Msgs
  <2>3. CASE u = n.to
    <3>1. offline'[u] = store_offline(offline[u], n)
      BY <2>1, <2>3 DEF ServerTypes, Contents
    <3>2. Len(offline[u]) < MAX_OFFLINE /\ Len(offline[u]) <= MAX_OFFLINE
      BY DEF RoomLeft, ServerTypes, Contents
    <3> QED BY <3>1, <3>2, <1>1, StoreHolds
  <2>4. CASE u # n.to
    <3>1. offline'[u] = offline[u]
      BY <2>1, <2>2, <2>4 DEF ServerTypes, Contents
    <3> QED BY <3>1
  <2> QED BY <2>3, <2>4
<1>4. ASSUME NEW c \in Conns, PullStep(c)
      PROVE  \/ m \in ToSet(offline'[u])
             \/ user[c] = u /\ \E b \in Ahead(c)' : Carries(b, m)
  <2>1. PICK f \in ToSet(up[c]) :
          /\ f.cmd = "SyncReq"
          /\ Says(c, [cmd |-> "SyncResp", messages |-> SyncScan(offline[user[c]], f.since)[1]])
          /\ offline' = [offline EXCEPT ![user[c]] = SyncScan(offline[user[c]], f.since)[2]]
    BY <1>4 DEF PullStep
  <2>2. user[c] \in Users
    BY <1>4 DEF PullStep
  <2>3. CASE user[c] # u
    <3>1. offline'[u] = offline[u]
      BY <2>1, <2>2, <2>3 DEF ServerTypes, Contents
    <3> QED BY <3>1
  <2>4. CASE user[c] = u
    <3>1. f.since = 0
      BY <2>1, <2>4 DEF FirstPull
    <3>2. PICK q \in Seq(Msgs) : q = offline[u]
      BY <1>1
    <3>3. PICK ms \in Seq(Msgs) : ms = SyncScan(q, 0)[1]
      BY ScanHolds
    <3>4. offline'[u] = SyncScan(q, 0)[2]
      BY <2>1, <2>4, <3>1, <3>2 DEF ServerTypes, Contents
    <3>5. m \in ToSet(ms) \/ m \in ToSet(offline'[u])
      BY <3>2, <3>3, <3>4, FirstPullKeeps
    <3>6. [cmd |-> "SyncResp", messages |-> ms] \in Ahead(c)'
      BY <2>1, <2>4, <3>1, <3>2, <3>3 DEF Says
    <3>7. ASSUME m \in ToSet(ms) PROVE Carries([cmd |-> "SyncResp", messages |-> ms], m)
      BY <3>7, HeldIn DEF Carries
    <3> QED BY <2>4, <3>5, <3>6, <3>7
  <2> QED BY <2>3, <2>4
<1>5. ASSUME NEW c \in Conns,
             AnswerStep(c) \/ NumberStep(c) \/ HoldStep(c) \/ SendStep(c) \/ ReplyStep(c)
      PROVE  offline' = offline
  BY <1>5 DEF AnswerStep, NumberStep, HoldStep, SendStep, ReplyStep
<1>6. QuietStep => offline' = offline
  BY DEF QuietStep
<1> QED BY ServerEffects, <1>2, <1>3, <1>4, <1>5, <1>6

LEMMA FramesKeep ==
  ASSUME ServerTypes, ServerMoves, ClosedIsCut, NEW c \in Conns, ~cut[c]
  PROVE  Ahead(c) \subseteq Ahead(c)'
<1>1. writer[c] = "open"
  BY DEF ClosedIsCut, ServerTypes, Contents
<1>2. ASSUME NEW d \in Conns, NEW b, Says(d, b) PROVE Ahead(c) \subseteq Ahead(c)'
  BY <1>2 DEF Says, SameAhead
<1>3. ASSUME NEW d \in Conns, AnswerStep(d) \/ StoreStep(d) \/ PullStep(d)
      PROVE  Ahead(c) \subseteq Ahead(c)'
  <2>1. \E b : Says(d, b)
    BY <1>3 DEF AnswerStep, StoreStep, PullStep
  <2> QED BY <2>1, <1>2
<1>4. ASSUME NEW d \in Conns, NumberStep(d) \/ HoldStep(d) \/ SendStep(d) \/ ReplyStep(d)
      PROVE  Ahead(c) \subseteq Ahead(c)'
  BY <1>1, <1>4 DEF NumberStep, HoldStep, SendStep, ReplyStep, SameAhead
<1>5. ASSUME QuietStep PROVE Ahead(c) \subseteq Ahead(c)'
  BY <1>5 DEF QuietStep, SameAhead
<1> QED BY ServerEffects, <1>3, <1>4, <1>5

LEMMA NewKept ==
  ASSUME ServerTypes, ServerMoves, FromClients, NEW m \in placed', m \notin placed
  PROVE  \/ m \in ToSet(offline'[m.to])
         \/ \E c \in Conns : user'[c] = m.to /\ \E b \in Ahead(c)' : Carries(b, m)
<1>1. ASSUME NEW c \in Conns, SendStep(c)
      PROVE  \E d \in Conns : user'[d] = m.to /\ \E b \in Ahead(d)' : Carries(b, m)
  <2>1. PICK n \in Msgs, t \in Conns :
          /\ job[c].kind = "send" /\ n = job[c].msg /\ t = job[c].target
          /\ [cmd |-> "Msg", msg |-> n] \in Ahead(t)'
          /\ placed' = placed \cup {n} /\ UNCHANGED user
    BY <1>1 DEF SendStep
  <2>2. n = m /\ user'[t] = m.to
    BY <2>1 DEF FromClients
  <2>3. Carries([cmd |-> "Msg", msg |-> m], m)
    BY DEF Carries
  <2> QED BY <2>1, <2>2, <2>3
<1>2. ASSUME NEW c \in Conns, StoreStep(c)
      PROVE  m \in ToSet(offline'[m.to])
  <2>1. PICK n \in Msgs : /\ n = job[c].msg /\ placed' = placed \cup {n}
                          /\ offline' = [offline EXCEPT ![n.to] = store_offline(@, n)]
    BY <1>2 DEF StoreStep
  <2>2. n = m /\ m \in Msgs /\ m.to \in Users
    BY <2>1 DEF Msgs
  <2>3. /\ offline'[m.to] = store_offline(offline[m.to], m)
        /\ offline[m.to] \in Seq(Msgs) /\ Len(offline[m.to]) <= MAX_OFFLINE
    BY <2>1, <2>2 DEF ServerTypes, Contents
  <2> QED BY <2>2, <2>3, StoreHolds
<1>3. ASSUME NEW c \in Conns,
             AnswerStep(c) \/ NumberStep(c) \/ HoldStep(c) \/ PullStep(c) \/ ReplyStep(c)
      PROVE  placed' = placed
  BY <1>3 DEF AnswerStep, NumberStep, HoldStep, PullStep, ReplyStep
<1>4. QuietStep => placed' = placed
  BY DEF QuietStep
<1> QED BY ServerEffects, <1>1, <1>2, <1>3, <1>4

LEMMA ServerKeepsHeld ==
  ASSUME ServerTypes, ServerMoves, ClosedIsCut, FirstPull, FromClients, RoomLeft, Kept
  PROVE  Kept'
<1> SUFFICES ASSUME NEW m \in placed', Untouched(m.to)'
             PROVE  HeldFor(m)'
  BY DEF Kept
<1>1. Grows
  BY ServerGrows
<1>2. m \notin placed => HeldFor(m)'
  BY NewKept DEF HeldFor
<1>3. ASSUME m \in placed PROVE HeldFor(m)'
  <2>1. m \in Msgs /\ m.to \in Users
    BY <1>3 DEF ServerTypes, Contents, Msgs
  <2>2. Untouched(m.to)
    BY <1>1, <2>1, GrowsUntouched
  <2>3. HeldFor(m)
    BY <1>3, <2>2 DEF Kept
  <2>4. ASSUME NEW c \in Conns, user[c] = m.to PROVE user'[c] = m.to /\ ~cut[c]
    BY <1>1, <2>1, <2>2, <2>4, GrowsUser, SessionsAssumption DEF Untouched
  <2>5. CASE m \in ToSet(offline[m.to])
    <3>1. \/ m \in ToSet(offline'[m.to])
          \/ \E c \in Conns : user[c] = m.to /\ \E b \in Ahead(c)' : Carries(b, m)
      BY <2>1, <2>2, <2>5, QueuesKeep
    <3> QED BY <3>1, <2>4 DEF HeldFor
  <2>6. ASSUME NEW c \in Conns, user[c] = m.to, NEW b \in Ahead(c), Carries(b, m)
        PROVE  HeldFor(m)'
    <3>1. user'[c] = m.to /\ b \in Ahead(c)'
      BY <2>4, <2>6, FramesKeep
    <3> QED BY <3>1, <2>6 DEF HeldFor
  <2>7. CASE Key(m) \in ToSet(inbox[m.to].shown)
    <3>1. inbox' = inbox
      BY <1>1 DEF Grows, clientVars
    <3> QED BY <3>1, <2>7 DEF HeldFor
  <2> QED BY <2>3, <2>5, <2>6, <2>7 DEF HeldFor
<1> QED BY <1>2, <1>3

-----------------------------------------------------------------------------
(***************************************************************************)
(* The steps of the clients. All but the history of what is kept is one    *)
(* invariant, so that a step may use it all.                               *)
(***************************************************************************)
Mailing ==
  /\ ServerTypes /\ ClientTypes
  /\ Online /\ OneClient /\ ClosedIsCut
  /\ LoggedIn /\ FirstPull
  /\ FromClients /\ Addressed /\ Traced /\ SeenShown

LEMMA ServerKeepsMailing ==
  ASSUME Mailing, ServerMoves, [Next]_vars
  PROVE  Mailing'
<1> USE DEF Mailing
<1>1. Grows
  BY ServerGrows
<1>2. Shape' /\ Contents'
  BY ShapeStep, ContentsStep DEF ServerTypes
<1>3. Fresh' /\ RouterMatchesSessions'
  BY RoutingStep DEF ServerTypes, RInv
<1>4. ServerTypes'
  BY <1>2, <1>3 DEF ServerTypes
<1>5. ClientTypes'
  BY <1>1 DEF ClientTypes, Grows, clientVars
<1>6. Online' /\ OneClient' /\ ClosedIsCut'
  BY <1>1, ServerKeepsOnline
<1>7. LoggedIn' /\ FirstPull'
  BY <1>1, ServerKeepsLogins, ServerKeepsPull
<1>8. FromClients' /\ Addressed' /\ placed \subseteq placed'
  BY ServerKeepsGenuine, ServerKeepsAddressed
<1>9. Traced' /\ SeenShown'
  BY <1>1, <1>8, ServerKeepsTraced
<1> QED BY <1>4, <1>5, <1>6, <1>7, <1>8, <1>9

\* A step of a client leaves the server alone but for its own two channels.
LEMMA ClientServerTypes ==
  ASSUME ServerTypes, UNCHANGED <<conn_seq, task, serverRest>>,
         up' \in [Conns -> Seq(UpFrames)], down' \in [Conns -> Seq(Slots)]
  PROVE  ServerTypes'
<1>1. Shape'
  BY DEF ServerTypes, Shape, serverRest
<1>2. Contents'
  BY DEF ServerTypes, Contents, serverRest
<1>3. Fresh' /\ RouterMatchesSessions'
  BY DEF ServerTypes, Fresh, RouterMatchesSessions, serverRest
<1> QED BY <1>1, <1>2, <1>3 DEF ServerTypes

\* What a client may send.
Feeds(c, f) ==
  \/ f.cmd = "Handshake"
  \/ user[c] # NoUser /\ (f.cmd = "Msg" => f.cmid \in 1..cmid_seq[user[c]])

LEMMA ClientKeepsFlow ==
  ASSUME Mailing, UNCHANGED serverRest,
         cmid_seq' \in [Users -> 0..MaxSends], \A w \in Users : cmid_seq[w] <= cmid_seq'[w],
         \A w \in Users : \A e \in ToSet(outbox'[w]) : e.cmid \in 1..cmid_seq'[w],
         \A c \in Conns : Ahead(c)' \subseteq Ahead(c),
         \A c \in Conns : \A f \in ToSet(up'[c]) : f \in ToSet(up[c]) \/ Feeds(c, f)'
  PROVE  LoggedIn' /\ FromClients' /\ Addressed'
<1>1. UNCHANGED <<user, job, placed, offline>>
  BY DEF serverRest
<1>2. LoggedIn'
  BY <1>1 DEF Mailing, LoggedIn, Feeds
<1>3. Addressed'
  BY <1>1 DEF Mailing, Addressed, Meant
<1>4. \A w \in Users : cmid_seq[w] \in Nat /\ cmid_seq'[w] \in Nat
  BY DEF Mailing, ClientTypes
<1>5. \A w \in Users : \A n \in 1..cmid_seq[w] : n \in 1..cmid_seq'[w]
  BY <1>4
<1>6. \A m \in Msgs : m.from \in Users
  BY DEF Msgs
<1>7. \A m \in placed : Genuine(m)'
  BY <1>1, <1>5, <1>6 DEF Mailing, FromClients, Genuine, ServerTypes, Contents
<1>8. ASSUME NEW c \in Conns, InHand(c)'
      PROVE  Genuine(job[c].msg)' /\ job[c].msg.from = user[c]
  <2>1. InHand(c) /\ job[c].msg \in Msgs
    BY <1>1, <1>8, HandIn DEF InHand, Mailing, ServerTypes
  <2> QED BY <2>1, <1>1, <1>5, <1>6 DEF Mailing, FromClients, Genuine
<1>9. ASSUME NEW c \in Conns, NEW f \in ToSet(up'[c]), f.cmd = "Msg"
      PROVE  f.cmid \in 1..cmid_seq'[user[c]]
  <2>1. CASE f \in ToSet(up[c])
    <3>1. user[c] \in Users /\ f.cmid \in 1..cmid_seq[user[c]]
      BY <2>1, <1>9 DEF Mailing, LoggedIn, FromClients, ServerTypes, Shape
    <3> QED BY <3>1, <1>5
  <2>2. CASE Feeds(c, f)'
    BY <2>2, <1>1, <1>9 DEF Feeds
  <2> QED BY <2>1, <2>2
<1>10. \A c \in Conns : job[c].kind = "send" => user[job[c].target] = job[c].msg.to
  BY DEF Mailing, FromClients
<1>11. FromClients'
  BY <1>1, <1>7, <1>8, <1>9, <1>10 DEF FromClients
<1> QED BY <1>2, <1>3, <1>11

\* A frame the client reads leaves its channel; all others stay.
LEMMA ReadTakes ==
  ASSUME Mailing, NEW u \in Users, Reads(u), job' = job
  PROVE  /\ link[u] \in Conns /\ FrameBody(u) \in Ahead(link[u]) /\ FrameBody(u) \in Bodies
         /\ down' \in [Conns -> Seq(Slots)]
         /\ \A d \in Conns : Ahead(d)' \subseteq Ahead(d)
         /\ \A d \in Conns : \A b \in Ahead(d) :
              b \in Ahead(d)' \/ (d = link[u] /\ b = FrameBody(u))
<1>1. PICK c \in Conns : c = link[u]
  BY DEF Mailing, ClientTypes, Reads
<1>2. down[c] \in Seq(Slots) /\ down[c] # << >> /\ down' = [down EXCEPT ![c] = Tail(@)]
  BY <1>1 DEF Mailing, ServerTypes, Contents, Reads
<1>3. /\ Head(down[c]) \in Slots
      /\ BodiesOf(Tail(down[c])) \subseteq BodiesOf(down[c])
      /\ BodiesOf(down[c]) \subseteq BodiesOf(Tail(down[c])) \cup {Head(down[c]).body}
      /\ Head(down[c]).body \in BodiesOf(down[c])
  BY <1>2, ChannelShrinks
<1>4. FrameBody(u) = Head(down[c]).body
  BY <1>1 DEF FrameBody
<1>5. down'[c] = Tail(down[c]) /\ \A d \in Conns : d # c => down'[d] = down[d]
  BY <1>2 DEF Mailing, ServerTypes, Contents
<1>6. \A d \in Conns : Ahead(d)' \subseteq Ahead(d)
  BY <1>3, <1>5 DEF Ahead
<1>7. \A d \in Conns : \A b \in Ahead(d) : b \in Ahead(d)' \/ (d = c /\ b = FrameBody(u))
  BY <1>3, <1>4, <1>5 DEF Ahead
<1>8. FrameBody(u) \in Bodies /\ FrameBody(u) \in Ahead(c)
  BY <1>3, <1>4 DEF Slots, Ahead
<1>9. down' \in [Conns -> Seq(Slots)]
  <2>1. Tail(down[c]) \in Seq(Slots)
    BY <1>2, HeldTail
  <2> QED BY <1>2, <2>1 DEF Mailing, ServerTypes, Contents
<1> QED BY <1>1, <1>6, <1>7, <1>8, <1>9

(***************************************************************************)
(* A client that gives up a connection leaves it cut: if it had logged in  *)
(* there, its user has lost a connection.                                  *)
(***************************************************************************)
LEMMA LeaveKeeps ==
  ASSUME Mailing, NEW u \in Users, NEW next \in {"offline", "stopped"},
         link[u] # NoConn, Leave(u, next),
         UNCHANGED <<conn_seq, writer, user, up>>,
         \A w \in Users : inbox'[w].cursor = inbox[w].cursor
  PROVE  /\ phase' \in [Users -> {"offline", "handshake", "loop", "stopped"}]
         /\ link' \in [Users -> Conns \cup {NoConn}]
         /\ cut' \in [Conns -> BOOLEAN]
         /\ Online' /\ OneClient' /\ ClosedIsCut' /\ FirstPull'
         /\ \A w \in Users : Untouched(w)' => Untouched(w) /\ user[link[u]] # w
<1>1. PICK c \in Conns : c = link[u]
  BY DEF Mailing, ClientTypes
<1>2. /\ phase' = [phase EXCEPT ![u] = next] /\ link' = [link EXCEPT ![u] = NoConn]
      /\ cut' = [cut EXCEPT ![c] = TRUE]
  BY <1>1 DEF Leave
<1>3. /\ phase' \in [Users -> {"offline", "handshake", "loop", "stopped"}]
      /\ link' \in [Users -> Conns \cup {NoConn}]
      /\ cut' \in [Conns -> BOOLEAN]
      /\ phase'[u] = next /\ link'[u] = NoConn /\ cut'[c] = TRUE
      /\ \A w \in Users : w # u => phase'[w] = phase[w] /\ link'[w] = link[w]
      /\ \A d \in Conns : d # c => cut'[d] = cut[d]
  BY <1>2 DEF Mailing, ClientTypes
<1>4. \A d \in Conns : d # NoConn
  BY SessionsAssumption DEF Conns
<1>5. Online'
  BY <1>3 DEF Mailing, Online
<1>6. OneClient'
  <2> SUFFICES ASSUME NEW d \in Conns, NEW v \in Users, Named(d, v)
               PROVE  (\A w \in Users : link'[w] = d => w = v) /\ (~cut'[d] => link'[v] = d)
    BY DEF OneClient, Named
  <2>1. (\A w \in Users : link[w] = d => w = v) /\ (~cut[d] => link[v] = d)
    BY DEF Mailing, OneClient
  <2>2. \A w \in Users : link'[w] = d => link[w] = d
    BY <1>3, <1>4
  <2>3. ASSUME ~cut'[d] PROVE link'[v] = d
    <3>1. d # c /\ link[v] = d
      BY <2>1, <2>3, <1>3
    <3>2. v # u
      BY <3>1, <1>1
    <3> QED BY <3>1, <3>2, <1>3
  <2> QED BY <2>1, <2>2, <2>3
<1>7. ClosedIsCut'
  BY <1>3 DEF Mailing, ClosedIsCut
<1>8. ASSUME NEW w \in Users, Untouched(w)'
      PROVE  Untouched(w) /\ user[c] # w
  BY <1>3, <1>8 DEF Untouched
<1>9. FirstPull'
  <2> SUFFICES ASSUME NEW w \in Users, Untouched(w)'
               PROVE  /\ phase'[w] # "loop" => inbox[w].cursor = 0
                      /\ \A d \in Conns : user[d] = w =>
                           \A f \in ToSet(up[d]) : f.cmd = "SyncReq" => f.since = 0
    BY DEF FirstPull
  <2>1. Untouched(w) /\ user[c] # w
    BY <1>8
  <2>2. w = u => phase[w] # "loop"
    BY <1>1, <2>1 DEF Mailing, Online
  <2>3. phase'[w] # "loop" => phase[w] # "loop"
    BY <1>3, <2>2
  <2> QED BY <2>1, <2>3 DEF Mailing, FirstPull
<1> QED BY <1>1, <1>3, <1>5, <1>6, <1>7, <1>8, <1>9

\* What the clients do to what is kept: a frame read is shown or carries nothing.
LEMMA ClientKeepsHeld ==
  ASSUME Mailing, Kept, UNCHANGED <<offline, placed, user>>,
         \A w \in Users : Untouched(w)' => Untouched(w),
         \A w \in Users : ToSet(inbox[w].shown) \subseteq ToSet(inbox'[w].shown),
         \A c \in Conns : \A b \in Ahead(c) :
           \/ b \in Ahead(c)'
           \/ \A m \in placed : Carries(b, m) /\ user[c] = m.to /\ Untouched(m.to)'
                => Key(m) \in ToSet(inbox'[m.to].shown)
  PROVE  Kept'
<1> SUFFICES ASSUME NEW m \in placed, Untouched(m.to)'
             PROVE  HeldFor(m)'
  BY DEF Kept
<1>1. m.to \in Users
  BY DEF Mailing, ServerTypes, Contents, Msgs
<1>2. HeldFor(m)
  BY <1>1 DEF Kept
<1>3. CASE m \in ToSet(offline[m.to])
  BY <1>3 DEF HeldFor
<1>4. ASSUME NEW c \in Conns, user[c] = m.to, NEW b \in Ahead(c), Carries(b, m)
      PROVE  HeldFor(m)'
  BY <1>4 DEF HeldFor
<1>5. CASE Key(m) \in ToSet(inbox[m.to].shown)
  BY <1>1, <1>5 DEF HeldFor
<1> QED BY <1>2, <1>3, <1>4, <1>5 DEF HeldFor

\* An entry less, and the unconfirmed messages as frames.
LEMMA HeldRemoved ==
  ASSUME NEW S, NEW s \in Seq(S), NEW i \in 1..Len(s)
  PROVE  RemoveAt(s, i) \in Seq(S) /\ ToSet(RemoveAt(s, i)) \subseteq ToSet(s)
<1> DEFINE n == Len(s)
           p == SubSeq(s, 1, i - 1)
           q == SubSeq(s, i + 1, n)
<1>1. /\ n \in Nat /\ i \in 1..n /\ i - 1 \in 0..n /\ DOMAIN s = 1..n
      /\ \A j \in 1..n : s[j] \in S
  BY LenProperties, ElementOfSeq
<1>2. p \in Seq(S) /\ ToSet(p) \subseteq ToSet(s)
  <2>1. i - 1 \in 0..Len(s)
    BY <1>1
  <2> QED BY <2>1, HeldPrefix
<1>3. q \in Seq(S) /\ ToSet(q) \subseteq ToSet(s)
  <2>1. /\ q \in Seq(S) /\ DOMAIN q = 1..(n - i)
        /\ \A j \in 1..(n - i) : q[j] = s[i + j]
    BY <1>1
  <2> HIDE DEF q
  <2>2. \A j \in 1..(n - i) : i + j \in 1..n
    BY <1>1
  <2> QED BY <1>1, <2>1, <2>2 DEF ToSet
<1>4. RemoveAt(s, i) = p \o q
  BY DEF RemoveAt
<1> HIDE DEF p, q
<1>5. p \o q \in Seq(S) /\ ToSet(p \o q) = ToSet(p) \cup ToSet(q)
  BY <1>2, <1>3, HeldJoined
<1> QED BY <1>2, <1>3, <1>4, <1>5

LEMMA ResendFrames ==
  ASSUME NEW box \in Seq(Entries)
  PROVE  /\ Resends(box) \in Seq(UpFrames)
         /\ \A f \in ToSet(Resends(box)) :
              f.cmd = "Msg" /\ \E e \in ToSet(box) : f.cmid = e.cmid
<1>1. Len(box) \in Nat /\ DOMAIN box = 1..Len(box) /\ \A i \in 1..Len(box) : box[i] \in Entries
  BY LenProperties, ElementOfSeq
<1>2. \A e \in Entries : e.to \in Users /\ e.cmid \in Nat
  BY DeliveryAssumption DEF Entries
<1>3. \A i \in 1..Len(box) : MsgFrame(box[i].to, box[i].cmid) \in UpFrames
  BY <1>1, <1>2 DEF MsgFrame, UpFrames
<1>4. /\ Resends(box) \in Seq(UpFrames) /\ DOMAIN Resends(box) = 1..Len(box)
      /\ \A i \in 1..Len(box) : Resends(box)[i] = MsgFrame(box[i].to, box[i].cmid)
  BY <1>1, <1>3 DEF Resends
<1>5. \A f \in ToSet(Resends(box)) : \E i \in 1..Len(box) : f = MsgFrame(box[i].to, box[i].cmid)
  BY <1>4 DEF ToSet
<1>6. \A i \in 1..Len(box) : box[i] \in ToSet(box)
  BY <1>1 DEF ToSet
<1>7. \A i \in 1..Len(box) : /\ MsgFrame(box[i].to, box[i].cmid).cmd = "Msg"
                            /\ MsgFrame(box[i].to, box[i].cmid).cmid = box[i].cmid
  BY DEF MsgFrame
<1> HIDE DEF Entries
<1> QED BY <1>4, <1>5, <1>6, <1>7

\* What a step of a client has to keep.
Carried == Mailing' /\ (Kept => Kept') /\ (Windows => Windows')

LEMMA ConnectKeeps ==
  ASSUME Mailing, NEW u \in Users, Connect(u)
  PROVE  Carried
<1> USE DEF Mailing
<1>1. PICK n \in Conns : n = conn_seq + 1
  BY SessionsAssumption DEF Connect, AcceptConn, ServerTypes, Shape, Conns
<1> DEFINE f == HandshakeFrame(u, TRUE)
<1>2. /\ conn_seq' = n /\ task' = [task EXCEPT ![n] = "live"]
      /\ link' = [link EXCEPT ![u] = n] /\ phase' = [phase EXCEPT ![u] = "handshake"]
      /\ up' = [up EXCEPT ![n] = <<f>>] /\ phase[u] = "offline"
      /\ UNCHANGED <<serverRest, down, cut, outbox, cmid_seq, inbox, confirmed, restarted>>
  BY <1>1 DEF Connect, AcceptConn
<1>3. UNCHANGED <<reader, writer, user, reply_seq, handle_seq, job, router,
                  offline, last_id, fed, placed, acked>>
  BY <1>2 DEF serverRest
<1>4. /\ n # NoConn /\ n \in 1..MaxConn /\ conn_seq \in Nat /\ conn_seq < n
      /\ task[n] = "none" /\ user[n] = NoUser
      /\ \A d \in Conns : d # NoConn /\ d \in Nat
  BY <1>1, SessionsAssumption DEF ServerTypes, Fresh, Shape, Conns
<1>5. /\ link[u] = NoConn /\ \A w \in Users : link[w] # n
  BY <1>2, <1>4 DEF Online
<1>6. f \in UpFrames /\ f.cmd = "Handshake" /\ f.user = u
  BY DEF HandshakeFrame, UpFrames
<1> HIDE DEF f
<1>7. <<f>> \in Seq(UpFrames) /\ ToSet(<<f>>) = {f}
  <2>1. <<f>> \in Seq(UpFrames) /\ DOMAIN <<f>> = {1} /\ <<f>>[1] = f
    BY <1>6
  <2> QED BY <2>1 DEF ToSet
<1>8. /\ up' \in [Conns -> Seq(UpFrames)]
      /\ ToSet(up'[n]) = {f} /\ \A d \in Conns : d # n => up'[d] = up[d]
  <2>1. up \in [Conns -> Seq(UpFrames)]
    BY DEF ServerTypes, Shape
  <2> QED BY <2>1, <1>2, <1>7
<1>9. /\ link'[u] = n /\ phase'[u] = "handshake"
      /\ \A w \in Users : w # u => link'[w] = link[w] /\ phase'[w] = phase[w]
  BY <1>2 DEF ClientTypes
<1>10. ServerTypes'
  <2>1. task'[n] = "live" /\ \A d \in Conns : d # n => task'[d] = task[d]
    BY <1>2 DEF ServerTypes, Shape
  <2>2. task' \in [Conns -> {"none", "live", "ended"}]
    BY <1>2 DEF ServerTypes, Shape
  <2>3. Shape'
    BY <1>2, <1>3, <1>4, <1>8, <2>2 DEF ServerTypes, Shape
  <2>4. Contents'
    BY <1>2, <1>3 DEF ServerTypes, Contents
  <2>5. Fresh'
    <3> SUFFICES ASSUME NEW d \in Conns, d > n PROVE task'[d] = "none" /\ user[d] = NoUser
      BY <1>2, <1>3 DEF Fresh
    <3>1. d > conn_seq /\ d # n
      BY <1>4
    <3> QED BY <3>1, <2>1 DEF ServerTypes, Fresh
  <2>6. RouterMatchesSessions'
    <3>1. \A w \in Users : router[w] # NoConn => router[w] # n
      BY <1>4 DEF ServerTypes, RouterMatchesSessions
    <3> QED BY <3>1, <2>1, <1>3, <1>4 DEF ServerTypes, RouterMatchesSessions, Shape
  <2> QED BY <2>3, <2>4, <2>5, <2>6 DEF ServerTypes
<1>11. ClientTypes'
  BY <1>2 DEF ClientTypes
<1>12. Online'
  <2> SUFFICES ASSUME NEW w \in Users
               PROVE  /\ link'[w] # NoConn <=> phase'[w] \in {"handshake", "loop"}
                      /\ link'[w] # NoConn => link'[w] <= n
                      /\ phase'[w] = "loop" => user[link'[w]] = w
    BY <1>2, <1>3 DEF Online
  <2>1. CASE w = u
    BY <2>1, <1>4, <1>9
  <2>2. CASE w # u
    <3>1. /\ link[w] # NoConn <=> phase[w] \in {"handshake", "loop"}
          /\ link[w] # NoConn => link[w] <= conn_seq
          /\ phase[w] = "loop" => user[link[w]] = w
          /\ link[w] \in Conns \cup {NoConn}
      BY DEF Online, ClientTypes
    <3>2. ASSUME link[w] # NoConn PROVE link[w] <= n
      <4>1. link[w] \in Nat /\ n \in Nat /\ link[w] <= conn_seq
        BY <3>1, <3>2, <1>4
      <4> QED BY <4>1, <1>4
    <3> QED BY <2>2, <3>1, <3>2, <1>9
  <2> QED BY <2>1, <2>2
<1>13. OneClient'
  <2> SUFFICES ASSUME NEW c \in Conns, NEW v \in Users, Named(c, v)'
               PROVE  /\ \A w \in Users : link'[w] = c => w = v
                      /\ ~cut[c] => link'[v] = c
    BY <1>2 DEF OneClient
  <2>1. CASE c = n
    <3>1. v = u
      BY <2>1, <1>3, <1>4, <1>6, <1>8, SessionsAssumption DEF Named
    <3>2. \A w \in Users : link'[w] = n => w = u
      BY <1>5, <1>9
    <3> QED BY <2>1, <3>1, <3>2, <1>9
  <2>2. CASE c # n
    <3>1. Named(c, v)
      BY <2>2, <1>3, <1>8 DEF Named
    <3>2. (\A w \in Users : link[w] = c => w = v) /\ (~cut[c] => link[v] = c)
      BY <3>1 DEF OneClient
    <3>3. \A w \in Users : link'[w] = c => link[w] = c
      BY <2>2, <1>9
    <3>4. ~cut[c] => v # u
      BY <3>2, <1>4, <1>5
    <3> QED BY <3>2, <3>3, <3>4, <1>9
  <2> QED BY <2>1, <2>2
<1>14. ClosedIsCut'
  BY <1>2, <1>3 DEF ClosedIsCut
<1>15. FirstPull'
  <2> SUFFICES ASSUME NEW w \in Users, Untouched(w)'
               PROVE  /\ phase'[w] # "loop" => inbox[w].cursor = 0
                      /\ \A c \in Conns : user[c] = w =>
                           \A e \in ToSet(up'[c]) : e.cmd = "SyncReq" => e.since = 0
    BY <1>2, <1>3 DEF FirstPull
  <2>1. Untouched(w)
    BY <1>2, <1>3 DEF Untouched
  <2>2. phase'[w] # "loop" => phase[w] # "loop"
    BY <1>2, <1>9
  <2>3. \A c \in Conns : user[c] = w => c # n
    BY <1>4, SessionsAssumption
  <2> QED BY <2>1, <2>2, <2>3, <1>8 DEF FirstPull
<1>16. \A c \in Conns : Ahead(c)' = Ahead(c)
  BY <1>2, <1>3 DEF Ahead
<1>17. LoggedIn' /\ FromClients' /\ Addressed'
  <2>1. cmid_seq' \in [Users -> 0..MaxSends] /\ \A w \in Users : cmid_seq[w] <= cmid_seq'[w]
    <3>1. \A w \in Users : cmid_seq[w] <= cmid_seq[w]
      BY DeliveryAssumption DEF ClientTypes
    <3> QED BY <3>1, <1>2 DEF ClientTypes
  <2>2. \A w \in Users : \A e \in ToSet(outbox'[w]) : e.cmid \in 1..cmid_seq'[w]
    BY <1>2 DEF FromClients
  <2>3. \A c \in Conns : \A e \in ToSet(up'[c]) : e \in ToSet(up[c]) \/ Feeds(c, e)'
    BY <1>6, <1>8 DEF Feeds
  <2> QED BY <2>1, <2>2, <2>3, <1>2, <1>16, ClientKeepsFlow
<1>18. Traced' /\ SeenShown'
  BY <1>2, <1>3 DEF Traced, SeenShown
<1>19. ASSUME Kept PROVE Kept'
  BY <1>19, <1>2, <1>3, <1>16 DEF Kept, HeldFor, Untouched
<1>20. ASSUME Windows PROVE Windows'
  BY <1>20, <1>2 DEF Windows
<1> QED
  BY <1>10, <1>11, <1>12, <1>13, <1>14, <1>15, <1>17, <1>18, <1>19, <1>20 DEF Carried

LEMMA MailingParts ==
  ASSUME Mailing, UNCHANGED <<conn_seq, task, serverRest>>,
         up' \in [Conns -> Seq(UpFrames)], down' \in [Conns -> Seq(Slots)],
         ClientTypes', Online', OneClient', ClosedIsCut', FirstPull', Traced', SeenShown',
         \A w \in Users : cmid_seq[w] <= cmid_seq'[w],
         \A w \in Users : \A e \in ToSet(outbox'[w]) : e.cmid \in 1..cmid_seq'[w],
         \A c \in Conns : Ahead(c)' \subseteq Ahead(c),
         \A c \in Conns : \A f \in ToSet(up'[c]) : f \in ToSet(up[c]) \/ Feeds(c, f)'
  PROVE  Mailing'
<1>1. ServerTypes'
  BY ClientServerTypes DEF Mailing
<1>2. UNCHANGED serverRest /\ cmid_seq' \in [Users -> 0..MaxSends]
  BY DEF ClientTypes
<1>3. LoggedIn' /\ FromClients' /\ Addressed'
  BY <1>2, ClientKeepsFlow
<1> QED BY <1>1, <1>3 DEF Mailing

LEMMA CmidStays == Mailing => \A w \in Users : cmid_seq[w] <= cmid_seq[w]
BY DeliveryAssumption DEF Mailing, ClientTypes

\* A client that gives up its connection, whatever it has read from it.
LEMMA LeaveCarries ==
  ASSUME Mailing, NEW u \in Users, NEW next \in {"offline", "stopped"},
         link[u] # NoConn, Leave(u, next),
         UNCHANGED <<conn_seq, task, serverRest, up, cmid_seq, confirmed>>,
         down' \in [Conns -> Seq(Slots)],
         \A d \in Conns : Ahead(d)' \subseteq Ahead(d),
         \A d \in Conns : d # link[u] => Ahead(d) \subseteq Ahead(d)',
         outbox' \in [Users -> Seq(Entries)],
         \A w \in Users : \A e \in ToSet(outbox'[w]) : e.cmid \in 1..cmid_seq[w],
         inbox' \in [Users -> Inboxes],
         \A w \in Users : /\ inbox'[w].cursor = inbox[w].cursor
                          /\ inbox'[w].shown = inbox[w].shown
                          /\ SeenIsShown(inbox'[w])
  PROVE  Mailing' /\ (Kept => Kept')
<1>1. UNCHANGED <<writer, user, placed, offline>>
  BY DEF serverRest
<1>2. /\ phase' \in [Users -> {"offline", "handshake", "loop", "stopped"}]
      /\ link' \in [Users -> Conns \cup {NoConn}]
      /\ cut' \in [Conns -> BOOLEAN]
      /\ Online' /\ OneClient' /\ ClosedIsCut' /\ FirstPull'
      /\ \A w \in Users : Untouched(w)' => Untouched(w) /\ user[link[u]] # w
  BY <1>1, LeaveKeeps
<1>3. ClientTypes'
  BY <1>2 DEF Mailing, ClientTypes
<1>4. Traced' /\ SeenShown'
  BY <1>1 DEF Mailing, Traced, SeenShown
<1>5. up' \in [Conns -> Seq(UpFrames)]
  BY DEF Mailing, ServerTypes, Shape
<1>6. Mailing'
  <2>1. \A w \in Users : cmid_seq[w] <= cmid_seq'[w]
    BY CmidStays
  <2>2. \A w \in Users : \A e \in ToSet(outbox'[w]) : e.cmid \in 1..cmid_seq'[w]
    OBVIOUS
  <2>3. \A c \in Conns : \A f \in ToSet(up'[c]) : f \in ToSet(up[c]) \/ Feeds(c, f)'
    OBVIOUS
  <2> QED BY <1>2, <1>3, <1>4, <1>5, <2>1, <2>2, <2>3, MailingParts
<1>7. ASSUME Kept PROVE Kept'
  <2>1. \A w \in Users : ToSet(inbox[w].shown) \subseteq ToSet(inbox'[w].shown)
    OBVIOUS
  <2>2. \A m \in placed : m.to \in Users
    BY DEF Mailing, ServerTypes, Contents, Msgs
  <2>3. \A c \in Conns : \A b \in Ahead(c) :
           \/ b \in Ahead(c)'
           \/ \A m \in placed : Carries(b, m) /\ user[c] = m.to /\ Untouched(m.to)'
                => Key(m) \in ToSet(inbox'[m.to].shown)
    BY <1>2, <2>2
  <2> QED BY <1>1, <1>2, <1>7, <2>1, <2>3, ClientKeepsHeld
<1> QED BY <1>6, <1>7

LEMMA CutKeeps ==
  ASSUME Mailing, NEW u \in Users,
         HandshakeTimeout(u) \/ LinkLost(u)
  PROVE  Carried
<1>1. /\ link[u] # NoConn /\ Leave(u, "offline")
      /\ UNCHANGED <<vars, outbox, cmid_seq, inbox, confirmed, restarted>>
  BY DEF HandshakeTimeout, LinkLost, Mailing, Online
<1>2. UNCHANGED <<conn_seq, task, serverRest, up, down, job>>
  BY <1>1 DEF vars, serverRest
<1>3. \A d \in Conns : Ahead(d)' = Ahead(d)
  BY <1>2 DEF Ahead
<1>4. /\ down' \in [Conns -> Seq(Slots)] /\ outbox' \in [Users -> Seq(Entries)]
      /\ inbox' \in [Users -> Inboxes]
  BY <1>1, <1>2 DEF Mailing, ServerTypes, Contents, ClientTypes
<1>5. /\ \A w \in Users : \A e \in ToSet(outbox'[w]) : e.cmid \in 1..cmid_seq[w]
      /\ \A w \in Users : /\ inbox'[w].cursor = inbox[w].cursor
                          /\ inbox'[w].shown = inbox[w].shown
                          /\ SeenIsShown(inbox'[w])
  BY <1>1 DEF Mailing, FromClients, SeenShown
<1>6. Mailing' /\ (Kept => Kept')
  BY <1>1, <1>2, <1>3, <1>4, <1>5, LeaveCarries
<1>7. Windows => Windows'
  BY <1>1 DEF Windows
<1> QED BY <1>6, <1>7 DEF Carried

LEMMA BreakKeeps ==
  ASSUME Mailing, NEW c \in Conns, Break(c)
  PROVE  Carried
<1> USE DEF Mailing
<1>1. /\ cut' = [cut EXCEPT ![c] = TRUE]
      /\ UNCHANGED <<vars, phase, link, outbox, cmid_seq, inbox, confirmed, restarted>>
  BY DEF Break
<1>2. UNCHANGED <<conn_seq, task, serverRest, up, down, job, writer, user, placed, offline>>
  BY <1>1 DEF vars, serverRest
<1>3. \A d \in Conns : Ahead(d)' = Ahead(d)
  BY <1>2 DEF Ahead
<1>4. /\ ClientTypes' /\ down' \in [Conns -> Seq(Slots)] /\ up' \in [Conns -> Seq(UpFrames)]
  BY <1>1, <1>2 DEF ClientTypes, ServerTypes, Contents, Shape
<1>5. \A d \in Conns : cut[d] => cut'[d]
  BY <1>1 DEF ClientTypes
<1>6. \A w \in Users : Untouched(w)' => Untouched(w)
  BY <1>2, <1>5 DEF Untouched
<1>7. Online' /\ ClosedIsCut'
  BY <1>1, <1>2, <1>5 DEF Online, ClosedIsCut
<1>8. OneClient'
  BY <1>1, <1>2, <1>5 DEF OneClient, Named
<1>9. FirstPull'
  BY <1>1, <1>2, <1>6 DEF FirstPull
<1>10. Traced' /\ SeenShown'
  BY <1>1, <1>2 DEF Traced, SeenShown
<1>11. Mailing'
  <2>1. \A w \in Users : cmid_seq[w] <= cmid_seq'[w]
    BY <1>1, CmidStays
  <2>2. \A w \in Users : \A e \in ToSet(outbox'[w]) : e.cmid \in 1..cmid_seq'[w]
    BY <1>1 DEF FromClients
  <2>3. \A d \in Conns : \A f \in ToSet(up'[d]) : f \in ToSet(up[d]) \/ Feeds(d, f)'
    BY <1>2
  <2> HIDE DEF Mailing
  <2> QED BY <1>2, <1>3, <1>4, <1>7, <1>8, <1>9, <1>10, <2>1, <2>2, <2>3, MailingParts
<1>12. ASSUME Kept PROVE Kept'
  <2>1. \A w \in Users : ToSet(inbox[w].shown) \subseteq ToSet(inbox'[w].shown)
    BY <1>1
  <2> HIDE DEF Mailing
  <2> QED BY <1>2, <1>3, <1>6, <1>12, <2>1, ClientKeepsHeld
<1>13. Windows => Windows'
  BY <1>1 DEF Windows
<1> QED BY <1>11, <1>12, <1>13 DEF Carried

\* A restart: what is kept of the outbox has the same client_msg_ids.
LEMMA ReloadKeeps ==
  ASSUME NEW box \in Seq(Entries)
  PROVE  /\ Reloaded(box) \in Seq(Entries)
         /\ \A e \in ToSet(Reloaded(box)) : \E d \in ToSet(box) : e.cmid = d.cmid
<1> DEFINE n == Len(box)
           r(e) == [e EXCEPT !.attempts = IF @ = 1 THEN 0 ELSE @]
<1>1. n \in Nat /\ DOMAIN box = 1..n /\ \A i \in 1..n : box[i] \in Entries
  BY LenProperties, ElementOfSeq
<1>2. \A e \in Entries : r(e) \in Entries /\ r(e).cmid = e.cmid
  BY DEF Entries
<1>3. Reloaded(box) = [i \in 1..n |-> r(box[i])]
  BY DEF Reloaded
<1> HIDE DEF r, n
<1>4. /\ Reloaded(box) \in Seq(Entries) /\ DOMAIN Reloaded(box) = 1..n
      /\ \A i \in 1..n : Reloaded(box)[i] = r(box[i])
  BY <1>1, <1>2, <1>3
<1>5. \A i \in 1..n : box[i] \in ToSet(box) /\ Reloaded(box)[i].cmid = box[i].cmid
  BY <1>1, <1>2, <1>4 DEF ToSet
<1> QED BY <1>4, <1>5 DEF ToSet

LEMMA RestartKeeps ==
  ASSUME Mailing, NEW u \in Users, Restart(u)
  PROVE  Carried
<1> USE DEF Mailing
<1>1. /\ phase' = [phase EXCEPT ![u] = "offline"] /\ link' = [link EXCEPT ![u] = NoConn]
      /\ cut' = IF link[u] = NoConn THEN cut ELSE [cut EXCEPT ![link[u]] = TRUE]
      /\ inbox' = [inbox EXCEPT ![u].seen = << >>]
      /\ outbox' = [outbox EXCEPT ![u] = Reloaded(@)]
      /\ restarted' = restarted \cup {u}
      /\ UNCHANGED <<vars, cmid_seq, confirmed>>
  BY DEF Restart
<1>2. UNCHANGED <<conn_seq, task, serverRest, up, down, job, writer, user, placed, offline>>
  BY <1>1 DEF vars, serverRest
<1>3. \A d \in Conns : Ahead(d)' = Ahead(d)
  BY <1>2 DEF Ahead
<1>4. /\ up' \in [Conns -> Seq(UpFrames)] /\ down' \in [Conns -> Seq(Slots)]
  BY <1>2 DEF ServerTypes, Contents, Shape
<1>5. /\ outbox' \in [Users -> Seq(Entries)]
      /\ \A w \in Users : \A e \in ToSet(outbox'[w]) : e.cmid \in 1..cmid_seq[w]
  <2>1. outbox[u] \in Seq(Entries)
    BY DEF ClientTypes
  <2>2. /\ Reloaded(outbox[u]) \in Seq(Entries)
        /\ \A e \in ToSet(Reloaded(outbox[u])) : \E d \in ToSet(outbox[u]) : e.cmid = d.cmid
    BY <2>1, ReloadKeeps
  <2>3. outbox'[u] = Reloaded(outbox[u]) /\ \A w \in Users : w # u => outbox'[w] = outbox[w]
    BY <1>1 DEF ClientTypes
  <2>4. outbox' \in [Users -> Seq(Entries)]
    BY <2>2, <1>1 DEF ClientTypes
  <2> QED BY <2>2, <2>3, <2>4 DEF FromClients
<1>6. /\ inbox' \in [Users -> Inboxes]
      /\ \A w \in Users : /\ inbox'[w].cursor = inbox[w].cursor
                          /\ inbox'[w].shown = inbox[w].shown
                          /\ SeenIsShown(inbox'[w])
      /\ \A w \in Users : w # u => inbox'[w] = inbox[w]
  <2>1. inbox[u] \in Inboxes
    BY DEF ClientTypes
  <2>2. /\ inbox'[u] = [inbox[u] EXCEPT !.seen = << >>]
        /\ \A w \in Users : w # u => inbox'[w] = inbox[w]
    BY <1>1 DEF ClientTypes
  <2>3. /\ inbox'[u].cursor = inbox[u].cursor /\ inbox'[u].shown = inbox[u].shown
        /\ inbox'[u].seen = << >> /\ inbox'[u] \in Inboxes
    <3>1. \A w \in Inboxes :
            /\ [w EXCEPT !.seen = << >>].cursor = w.cursor
            /\ [w EXCEPT !.seen = << >>].shown = w.shown
            /\ [w EXCEPT !.seen = << >>].seen = << >>
            /\ [w EXCEPT !.seen = << >>] \in Inboxes
      <4> HIDE DEF Mailing
      <4>1. << >> \in Seq(Keys)
        OBVIOUS
      <4>2. SUFFICES ASSUME NEW w \in Inboxes
                     PROVE  /\ [w EXCEPT !.seen = << >>].cursor = w.cursor
                            /\ [w EXCEPT !.seen = << >>].shown = w.shown
                            /\ [w EXCEPT !.seen = << >>].seen = << >>
                            /\ [w EXCEPT !.seen = << >>] \in Inboxes
        OBVIOUS
      <4> DEFINE v == [w EXCEPT !.seen = << >>]
      <4>3. /\ w.cursor \in Nat /\ w.seen \in Seq(Keys) /\ w.shown \in Seq(Keys)
            /\ v = [cursor |-> w.cursor, seen |-> << >>, shown |-> w.shown]
        BY DEF Inboxes
      <4> HIDE DEF v
      <4>4. v.cursor = w.cursor /\ v.shown = w.shown /\ v.seen = << >> /\ v \in Inboxes
        BY <4>1, <4>3 DEF Inboxes
      <4> QED BY <4>4 DEF v
    <3> HIDE DEF Mailing
    <3> QED BY <2>1, <2>2, <3>1
  <2>4. SeenIsShown(inbox'[u])
    BY <2>3 DEF SeenIsShown, ToSet
  <2>5. inbox' \in [Users -> Inboxes]
    BY <2>3, <1>1 DEF ClientTypes
  <2> QED BY <2>2, <2>3, <2>4, <2>5 DEF SeenShown
<1>7. Mailing' /\ (Kept => Kept')
  <2>1. CASE link[u] # NoConn
    <3>1. Leave(u, "offline")
      BY <2>1, <1>1 DEF Leave
    <3> HIDE DEF Mailing
    <3> QED BY <2>1, <3>1, <1>1, <1>2, <1>3, <1>4, <1>5, <1>6, LeaveCarries
  <2>2. CASE link[u] = NoConn
    <3>1. link' = link /\ cut' = cut
      BY <2>2, <1>1 DEF ClientTypes
    <3>2. phase[u] # "loop" /\ phase'[u] = "offline" /\ \A w \in Users : w # u => phase'[w] = phase[w]
      BY <2>2, <1>1 DEF Online, ClientTypes
    <3>3. ClientTypes'
      BY <1>1, <1>5, <1>6, <3>1 DEF ClientTypes
    <3>4. Online' /\ ClosedIsCut'
      BY <1>2, <2>2, <3>1, <3>2 DEF Online, ClosedIsCut
    <3>5. OneClient'
      BY <1>2, <3>1 DEF OneClient, Named
    <3>6. \A w \in Users : Untouched(w)' => Untouched(w)
      BY <1>2, <3>1 DEF Untouched
    <3>7. FirstPull'
      BY <1>2, <1>6, <3>2, <3>6 DEF FirstPull
    <3>8. Traced' /\ SeenShown'
      <4>1. Traced'
        BY <1>1, <1>2, <1>6 DEF Traced
      <4>2. SeenShown'
        BY <1>6 DEF SeenShown
      <4> QED BY <4>1, <4>2
    <3>9. Mailing'
      <4>1. \A w \in Users : cmid_seq[w] <= cmid_seq'[w]
        BY <1>1, CmidStays
      <4>2. \A w \in Users : \A e \in ToSet(outbox'[w]) : e.cmid \in 1..cmid_seq'[w]
        BY <1>1, <1>5
      <4>3. \A d \in Conns : \A f \in ToSet(up'[d]) : f \in ToSet(up[d]) \/ Feeds(d, f)'
        BY <1>2
      <4> HIDE DEF Mailing
      <4> QED BY <1>2, <1>3, <1>4, <3>3, <3>4, <3>5, <3>7, <3>8, <4>1, <4>2, <4>3, MailingParts
    <3>10. ASSUME Kept PROVE Kept'
      <4>1. \A w \in Users : ToSet(inbox[w].shown) \subseteq ToSet(inbox'[w].shown)
        BY <1>6
      <4> HIDE DEF Mailing
      <4> QED BY <1>2, <1>3, <3>6, <3>10, <4>1, ClientKeepsHeld
    <3> QED BY <3>9, <3>10
  <2> QED BY <2>1, <2>2
<1>8. Windows => Windows'
  BY <1>1, <1>6 DEF Windows
<1> QED BY <1>7, <1>8 DEF Carried

\* Frames a client that is on a connection puts into it.
LEMMA FeedKeeps ==
  ASSUME Mailing, NEW c \in Conns, UNCHANGED <<user, cut, link>>,
         \A d \in Conns : \A f \in ToSet(up'[d]) :
           f \in ToSet(up[d]) \/ (d = c /\ f.cmd # "Handshake")
  PROVE  OneClient'
<1>1. \A d \in Conns, v \in Users : Named(d, v)' => Named(d, v)
  BY DEF Named
<1> QED BY <1>1 DEF Mailing, OneClient

LEMMA FirstFrameKeeps ==
  ASSUME Mailing, NEW u \in Users, FirstFrame(u)
  PROVE  Carried
<1> USE DEF Mailing
<1>1. /\ phase[u] = "handshake" /\ Reads(u)
      /\ UNCHANGED <<conn_seq, task, serverRest, outbox, cmid_seq, inbox, confirmed, restarted>>
  BY DEF FirstFrame
<1>2. UNCHANGED <<job, writer, user, placed, offline>>
  BY <1>1 DEF serverRest
<1>3. PICK c \in Conns, b \in Bodies : c = link[u] /\ b = FrameBody(u) /\ b \in Ahead(c)
  BY <1>1, <1>2, ReadTakes
<1>4. /\ down' \in [Conns -> Seq(Slots)]
      /\ \A d \in Conns : Ahead(d)' \subseteq Ahead(d)
      /\ \A d \in Conns : \A e \in Ahead(d) : e \in Ahead(d)' \/ (d = c /\ e = b)
  BY <1>1, <1>2, <1>3, ReadTakes
<1>5. \A w \in Users : \A e \in ToSet(outbox[w]) : e.cmid \in 1..cmid_seq[w]
  BY DEF FromClients
<1>6. CASE b.cmd = "HandshakeAck" /\ b.accepted
  <2> DEFINE s == Append(up[c], SyncReqFrame(inbox[u].cursor))
             q == Resends(outbox[u])
  <2>1. /\ phase' = [phase EXCEPT ![u] = "loop"] /\ up' = [up EXCEPT ![c] = s \o q]
        /\ UNCHANGED <<link, cut>>
    BY <1>3, <1>6 DEF FirstFrame, Leave
  <2>2. user[c] = u
    <3>1. user[c] # NoUser /\ user[c] \in Users
      BY <1>3, <1>6 DEF LoggedIn, Welcome, ServerTypes, Shape
    <3> QED BY <3>1, <1>3 DEF OneClient, Named
  <2>3. inbox[u].cursor \in Nat /\ outbox[u] \in Seq(Entries) /\ up[c] \in Seq(UpFrames)
    BY DEF ClientTypes, Inboxes, ServerTypes, Shape
  <2>4. /\ SyncReqFrame(inbox[u].cursor) \in UpFrames
        /\ SyncReqFrame(inbox[u].cursor).cmd = "SyncReq"
        /\ SyncReqFrame(inbox[u].cursor).since = inbox[u].cursor
    BY <2>3 DEF SyncReqFrame, UpFrames
  <2>5. s \in Seq(UpFrames) /\ ToSet(s) = ToSet(up[c]) \cup {SyncReqFrame(inbox[u].cursor)}
    BY <2>3, <2>4, HeldAppended
  <2>6. /\ q \in Seq(UpFrames)
        /\ \A f \in ToSet(q) : f.cmd = "Msg" /\ \E e \in ToSet(outbox[u]) : f.cmid = e.cmid
    BY <2>3, ResendFrames
  <2> HIDE DEF s, q
  <2>7. s \o q \in Seq(UpFrames) /\ ToSet(s \o q) = ToSet(s) \cup ToSet(q)
    BY <2>5, <2>6, HeldJoined
  <2>8. /\ up' \in [Conns -> Seq(UpFrames)]
        /\ ToSet(up'[c]) = ToSet(up[c]) \cup {SyncReqFrame(inbox[u].cursor)} \cup ToSet(q)
        /\ \A d \in Conns : d # c => up'[d] = up[d]
    BY <2>1, <2>5, <2>7 DEF ServerTypes, Shape
  <2>9. \A d \in Conns : \A f \in ToSet(up'[d]) :
          \/ f \in ToSet(up[d])
          \/ d = c /\ f.cmd = "SyncReq" /\ f.since = inbox[u].cursor
          \/ d = c /\ f.cmd = "Msg" /\ f.cmid \in 1..cmid_seq[u]
    BY <2>4, <2>6, <2>8, <1>5
  <2>10. ClientTypes'
    BY <1>1, <2>1 DEF ClientTypes
  <2>11. phase'[u] = "loop" /\ \A w \in Users : w # u => phase'[w] = phase[w]
    BY <2>1 DEF ClientTypes
  <2>12. Online' /\ ClosedIsCut'
    BY <1>1, <1>2, <1>3, <2>1, <2>2, <2>11 DEF Online, ClosedIsCut
  <2>13. OneClient'
    BY <1>2, <2>1, <2>9, FeedKeeps
  <2>14. \A w \in Users : Untouched(w)' => Untouched(w)
    BY <1>2, <2>1 DEF Untouched
  <2>15. FirstPull'
    <3> SUFFICES ASSUME NEW w \in Users, Untouched(w)'
                 PROVE  /\ phase'[w] # "loop" => inbox[w].cursor = 0
                        /\ \A d \in Conns : user[d] = w =>
                             \A f \in ToSet(up'[d]) : f.cmd = "SyncReq" => f.since = 0
      BY <1>1, <1>2 DEF FirstPull
    <3>1. Untouched(w) /\ (phase'[w] # "loop" => phase[w] # "loop")
      BY <2>11, <2>14
    <3>2. w = u => inbox[u].cursor = 0
      BY <3>1, <1>1 DEF FirstPull
    <3> QED BY <3>1, <3>2, <2>2, <2>9 DEF FirstPull
  <2>16. Traced' /\ SeenShown'
    BY <1>1, <1>2 DEF Traced, SeenShown
  <2>17. Mailing'
    <3>1. \A w \in Users : cmid_seq[w] <= cmid_seq'[w]
      BY <1>1, CmidStays
    <3>2. \A w \in Users : \A e \in ToSet(outbox'[w]) : e.cmid \in 1..cmid_seq'[w]
      BY <1>1, <1>5
    <3>3. \A d \in Conns : \A f \in ToSet(up'[d]) : f \in ToSet(up[d]) \/ Feeds(d, f)'
      BY <1>1, <1>2, <2>2, <2>9, SessionsAssumption DEF Feeds
    <3> HIDE DEF Mailing
    <3> QED BY <1>1, <1>4, <2>8, <2>10, <2>12, <2>13, <2>15, <2>16, <3>1, <3>2, <3>3, MailingParts
  <2>18. ASSUME Kept PROVE Kept'
    <3>1. \A w \in Users : ToSet(inbox[w].shown) \subseteq ToSet(inbox'[w].shown)
      BY <1>1
    <3>2. \A m \in placed : ~Carries(b, m)
      BY <1>6 DEF Carries
    <3> HIDE DEF Mailing
    <3> QED BY <1>2, <1>4, <2>14, <2>18, <3>1, <3>2, ClientKeepsHeld
  <2> QED BY <2>17, <2>18, <1>1 DEF Carried, Windows
<1>7. CASE ~(b.cmd = "HandshakeAck" /\ b.accepted)
  <2>1. PICK next \in {"offline", "stopped"} : Leave(u, next) /\ up' = up
    <3>1. CASE b.cmd = "HandshakeAck"
      BY <3>1, <1>3, <1>7 DEF FirstFrame
    <3>2. CASE b.cmd # "HandshakeAck"
      BY <3>2, <1>3, <1>7 DEF FirstFrame
    <3> QED BY <3>1, <3>2
  <2>2. link[u] # NoConn
    BY <1>1 DEF Online
  <2>3. /\ \A d \in Conns : d # link[u] => Ahead(d) \subseteq Ahead(d)'
    BY <1>3, <1>4
  <2>4. /\ outbox' \in [Users -> Seq(Entries)] /\ inbox' \in [Users -> Inboxes]
        /\ \A w \in Users : \A e \in ToSet(outbox'[w]) : e.cmid \in 1..cmid_seq[w]
        /\ \A w \in Users : /\ inbox'[w].cursor = inbox[w].cursor
                            /\ inbox'[w].shown = inbox[w].shown
                            /\ SeenIsShown(inbox'[w])
    BY <1>1, <1>5 DEF ClientTypes, SeenShown
  <2>5. UNCHANGED <<conn_seq, task, serverRest, up, cmid_seq, confirmed>>
    BY <1>1, <2>1
  <2>6. Mailing' /\ (Kept => Kept')
    <3> HIDE DEF Mailing
    <3> QED BY <1>4, <2>1, <2>2, <2>3, <2>4, <2>5, LeaveCarries
  <2> QED BY <2>6, <1>1 DEF Carried, Windows
<1> QED BY <1>6, <1>7

\* A client in its message loop is logged in on its connection.
LEMMA LoopUser ==
  ASSUME Mailing, NEW u \in Users, phase[u] = "loop"
  PROVE  link[u] \in Conns /\ user[link[u]] = u
BY DEF Mailing, Online, ClientTypes

\* Messages a client puts on the wire, from an outbox that holds them.
LEMMA FeedCarries ==
  ASSUME Mailing, NEW u \in Users, phase[u] = "loop",
         UNCHANGED <<conn_seq, task, serverRest, down, phase, link, cut, inbox, confirmed, restarted>>,
         up' \in [Conns -> Seq(UpFrames)], outbox' \in [Users -> Seq(Entries)],
         cmid_seq' \in [Users -> 0..MaxSends],
         \A w \in Users : cmid_seq[w] <= cmid_seq'[w],
         \A w \in Users : \A e \in ToSet(outbox'[w]) : e.cmid \in 1..cmid_seq'[w],
         \A d \in Conns : \A f \in ToSet(up'[d]) :
           f \in ToSet(up[d]) \/ (d = link[u] /\ f.cmd = "Msg" /\ f.cmid \in 1..cmid_seq'[u])
  PROVE  Carried
<1>1. UNCHANGED <<job, writer, user, placed, offline>>
  BY DEF serverRest
<1>2. \A d \in Conns : Ahead(d)' = Ahead(d)
  BY <1>1 DEF Ahead
<1>3. PICK c \in Conns : c = link[u] /\ user[c] = u
  BY LoopUser
<1>4. down' \in [Conns -> Seq(Slots)]
  BY DEF Mailing, ServerTypes, Contents
<1>5. ClientTypes'
  BY DEF Mailing, ClientTypes
<1>6. Online' /\ ClosedIsCut'
  BY <1>1 DEF Mailing, Online, ClosedIsCut
<1>7. OneClient'
  BY <1>1, <1>3, FeedKeeps
<1>8. \A w \in Users : Untouched(w)' => Untouched(w)
  BY <1>1 DEF Untouched
<1>9. FirstPull'
  <2>1. \A d \in Conns : \A f \in ToSet(up'[d]) : f.cmd = "SyncReq" => f \in ToSet(up[d])
    OBVIOUS
  <2> QED BY <1>1, <1>8, <2>1 DEF Mailing, FirstPull
<1>10. Traced' /\ SeenShown'
  BY <1>1 DEF Mailing, Traced, SeenShown
<1>11. Mailing'
  <2>1. \A d \in Conns : \A f \in ToSet(up'[d]) : f \in ToSet(up[d]) \/ Feeds(d, f)'
    BY <1>1, <1>3, SessionsAssumption DEF Feeds
  <2> QED BY <1>2, <1>4, <1>5, <1>6, <1>7, <1>9, <1>10, <2>1, MailingParts
<1>12. ASSUME Kept PROVE Kept'
  <2>1. \A w \in Users : ToSet(inbox[w].shown) \subseteq ToSet(inbox'[w].shown)
    OBVIOUS
  <2> QED BY <1>1, <1>2, <1>8, <1>12, <2>1, ClientKeepsHeld
<1> QED BY <1>11, <1>12 DEF Carried, Windows

LEMMA MsgFramed ==
  ASSUME NEW to \in Users, NEW n \in Nat
  PROVE  /\ MsgFrame(to, n) \in UpFrames
         /\ MsgFrame(to, n).cmd = "Msg" /\ MsgFrame(to, n).cmid = n
BY DEF MsgFrame, UpFrames

LEMMA SendKeeps ==
  ASSUME Mailing, NEW u \in Users, NEW to \in Users, Send(u, to)
  PROVE  Carried
<1> USE DEF Mailing
<1>1. PICK c \in Conns : c = link[u] /\ user[c] = u
  BY LoopUser DEF Send
<1>2. PICK n \in 1..MaxSends : n = cmid_seq[u] + 1
  BY DeliveryAssumption DEF Send, ClientTypes
<1> DEFINE e == [cmid |-> n, to |-> to, attempts |-> 1]
           f == MsgFrame(to, n)
<1>3. /\ phase[u] = "loop"
      /\ cmid_seq' = [cmid_seq EXCEPT ![u] = n]
      /\ outbox' = [outbox EXCEPT ![u] = Append(@, e)]
      /\ up' = [up EXCEPT ![c] = Append(@, f)]
      /\ UNCHANGED <<conn_seq, task, serverRest, down, phase, link, cut, inbox,
                     confirmed, restarted>>
  BY <1>1, <1>2 DEF Send
<1>4. e \in Entries /\ e.cmid = n
  BY DEF Entries
<1>5. f \in UpFrames /\ f.cmd = "Msg" /\ f.cmid = n
  BY MsgFramed, DeliveryAssumption
<1> HIDE DEF e, f
<1>6. /\ outbox[u] \in Seq(Entries) /\ up[c] \in Seq(UpFrames)
  BY DEF ClientTypes, ServerTypes, Shape
<1>7. /\ Append(outbox[u], e) \in Seq(Entries)
      /\ ToSet(Append(outbox[u], e)) = ToSet(outbox[u]) \cup {e}
  BY <1>4, <1>6, HeldAppended
<1>8. /\ Append(up[c], f) \in Seq(UpFrames)
      /\ ToSet(Append(up[c], f)) = ToSet(up[c]) \cup {f}
  BY <1>5, <1>6, HeldAppended
<1>9. /\ outbox' \in [Users -> Seq(Entries)] /\ ToSet(outbox'[u]) = ToSet(outbox[u]) \cup {e}
      /\ \A w \in Users : w # u => outbox'[w] = outbox[w]
  BY <1>3, <1>7 DEF ClientTypes
<1>10. /\ up' \in [Conns -> Seq(UpFrames)] /\ ToSet(up'[c]) = ToSet(up[c]) \cup {f}
       /\ \A d \in Conns : d # c => up'[d] = up[d]
  BY <1>3, <1>8 DEF ServerTypes, Shape
<1>11. /\ cmid_seq' \in [Users -> 0..MaxSends] /\ cmid_seq'[u] = n
       /\ \A w \in Users : w # u => cmid_seq'[w] = cmid_seq[w]
       /\ \A w \in Users : cmid_seq[w] \in 0..MaxSends
  BY <1>3 DEF ClientTypes
<1>12. \A w \in Users : cmid_seq[w] <= cmid_seq'[w]
  <2>1. MaxSends \in Nat
    BY DeliveryAssumption
  <2> HIDE DEF Mailing
  <2> QED BY <1>2, <1>11, <2>1
<1>13. \A w \in Users : \A x \in ToSet(outbox'[w]) : x.cmid \in 1..cmid_seq'[w]
  <2>1. \A w \in Users : \A x \in ToSet(outbox[w]) : x.cmid \in 1..cmid_seq[w]
    BY DEF FromClients
  <2>2. \A k \in 1..cmid_seq[u] : k \in 1..n
    BY <1>2, <1>11
  <2> HIDE DEF Mailing
  <2>3. n \in 1..n
    BY <1>2
  <2>4. \A x \in ToSet(outbox'[u]) : x \in ToSet(outbox[u]) \/ x = e
    BY <1>9
  <2>5. \A x \in ToSet(outbox'[u]) : x.cmid \in 1..n
    BY <1>4, <2>1, <2>2, <2>3, <2>4
  <2> QED BY <1>9, <1>11, <2>1, <2>5
<1>14. \A d \in Conns : \A x \in ToSet(up'[d]) :
         x \in ToSet(up[d]) \/ (d = link[u] /\ x.cmd = "Msg" /\ x.cmid \in 1..cmid_seq'[u])
  <2>1. n \in 1..cmid_seq'[u]
    BY <1>2, <1>11
  <2> HIDE DEF Mailing
  <2>2. \A x \in ToSet(up'[c]) : x \in ToSet(up[c]) \/ x = f
    BY <1>10
  <2>3. \A d \in Conns : d # c => \A x \in ToSet(up'[d]) : x \in ToSet(up[d])
    BY <1>10
  <2> QED BY <1>1, <1>5, <2>1, <2>2, <2>3
<1> HIDE DEF Mailing
<1> QED BY <1>3, <1>9, <1>10, <1>11, <1>12, <1>13, <1>14, FeedCarries

LEMMA DueKeeps ==
  ASSUME Mailing, NEW u \in Users, NEW i \in 1..Len(outbox[u]), Due(u, i)
  PROVE  Carried
<1> USE DEF Mailing
<1>1. PICK c \in Conns : c = link[u] /\ user[c] = u
  BY LoopUser DEF Due
<1>2. PICK box \in Seq(Entries) : box = outbox[u]
  BY DEF ClientTypes
<1>3. /\ i \in 1..Len(box) /\ Len(box) \in Nat /\ box[i] \in Entries /\ box[i] \in ToSet(box)
      /\ DOMAIN box = 1..Len(box)
  BY <1>2, LenProperties, ElementOfSeq DEF ToSet
<1>4. /\ phase[u] = "loop"
      /\ UNCHANGED <<conn_seq, task, serverRest, down, phase, link, cut, cmid_seq,
                     inbox, confirmed, restarted>>
  BY DEF Due
<1>5. \A w \in Users : \A x \in ToSet(outbox[w]) : x.cmid \in 1..cmid_seq[w]
  BY DEF FromClients
<1>6. cmid_seq' \in [Users -> 0..MaxSends] /\ \A w \in Users : cmid_seq[w] <= cmid_seq'[w]
  <2>1. cmid_seq \in [Users -> 0..MaxSends]
    BY DEF ClientTypes
  <2> QED BY <2>1, <1>4, CmidStays
<1> DEFINE e == box[i]
           e1 == [e EXCEPT !.attempts = @ + 1]
           f == MsgFrame(e.to, e.cmid)
<1>7. /\ e1 \in Entries /\ e1.cmid = e.cmid /\ f \in UpFrames /\ f.cmd = "Msg" /\ f.cmid = e.cmid
  <2>1. e.cmid \in 1..MaxSends /\ e.to \in Users /\ e.attempts \in Nat /\ e.cmid \in Nat
    BY <1>3, DeliveryAssumption DEF Entries
  <2>2. e1 = [cmid |-> e.cmid, to |-> e.to, attempts |-> e.attempts + 1]
    BY <1>3 DEF Entries
  <2>3. e1 \in Entries /\ e1.cmid = e.cmid
    BY <2>1, <2>2 DEF Entries
  <2> QED BY <2>1, <2>3, MsgFramed
<1>8. CASE outbox' = [outbox EXCEPT ![u] = RemoveAt(@, i)] /\ up' = up
  <2>1. RemoveAt(box, i) \in Seq(Entries) /\ ToSet(RemoveAt(box, i)) \subseteq ToSet(box)
    BY <1>3, HeldRemoved
  <2>2. /\ outbox' \in [Users -> Seq(Entries)] /\ outbox'[u] = RemoveAt(box, i)
        /\ \A w \in Users : w # u => outbox'[w] = outbox[w]
    BY <1>2, <1>8, <2>1 DEF ClientTypes
  <2>3. \A w \in Users : \A x \in ToSet(outbox'[w]) : x.cmid \in 1..cmid_seq'[w]
    BY <1>2, <1>4, <1>5, <2>1, <2>2
  <2>4. up' \in [Conns -> Seq(UpFrames)]
    BY <1>8 DEF ServerTypes, Shape
  <2> HIDE DEF Mailing
  <2> QED BY <1>4, <1>6, <1>8, <2>2, <2>3, <2>4, FeedCarries
<1>9. CASE /\ outbox' = [outbox EXCEPT ![u][i].attempts = @ + 1]
           /\ up' = [up EXCEPT ![c] = Append(@, f)]
  <2> DEFINE box1 == [box EXCEPT ![i] = e1]
  <2>1. /\ box1 \in Seq(Entries) /\ DOMAIN box1 = 1..Len(box)
        /\ \A j \in 1..Len(box) : box1[j] = IF j = i THEN e1 ELSE box[j]
    <3>1. DOMAIN box1 = 1..Len(box) /\ \A j \in 1..Len(box) : box1[j] = IF j = i THEN e1 ELSE box[j]
      BY <1>3
    <3>2. \A j \in 1..Len(box) : box[j] \in Entries
      BY ElementOfSeq
    <3>3. box1 = [j \in 1..Len(box) |-> IF j = i THEN e1 ELSE box[j]]
      BY <1>3
    <3> HIDE DEF box1, e1
    <3>4. \A j \in 1..Len(box) : (IF j = i THEN e1 ELSE box[j]) \in Entries
      BY <3>2, <1>7
    <3>5. box1 \in Seq(Entries)
      BY <1>3, <3>3, <3>4
    <3> QED BY <3>1, <3>5
  <2>2. \A x \in ToSet(box1) : \E y \in ToSet(box) : x.cmid = y.cmid
    <3> HIDE DEF box1, e1
    <3> QED BY <1>3, <1>7, <2>1 DEF ToSet
  <2>3. /\ outbox' = [outbox EXCEPT ![u] = box1]
    BY <1>2, <1>9
  <2> HIDE DEF box1
  <2>4. /\ outbox' \in [Users -> Seq(Entries)] /\ outbox'[u] = box1
        /\ \A w \in Users : w # u => outbox'[w] = outbox[w]
    BY <2>1, <2>3 DEF ClientTypes
  <2>5. \A w \in Users : \A x \in ToSet(outbox'[w]) : x.cmid \in 1..cmid_seq'[w]
    BY <1>2, <1>4, <1>5, <2>2, <2>4
  <2>6. up[c] \in Seq(UpFrames)
    BY DEF ServerTypes, Shape
  <2> HIDE DEF f
  <2>7. Append(up[c], f) \in Seq(UpFrames) /\ ToSet(Append(up[c], f)) = ToSet(up[c]) \cup {f}
    BY <1>7, <2>6, HeldAppended
  <2>8. /\ up' \in [Conns -> Seq(UpFrames)] /\ ToSet(up'[c]) = ToSet(up[c]) \cup {f}
        /\ \A d \in Conns : d # c => up'[d] = up[d]
    BY <1>9, <2>7 DEF ServerTypes, Shape
  <2>9. f.cmid \in 1..cmid_seq'[u]
    BY <1>2, <1>3, <1>4, <1>5, <1>7
  <2>10. \A d \in Conns : \A x \in ToSet(up'[d]) :
          x \in ToSet(up[d]) \/ (d = link[u] /\ x.cmd = "Msg" /\ x.cmid \in 1..cmid_seq'[u])
    BY <1>1, <1>7, <2>8, <2>9
  <2> HIDE DEF Mailing
  <2> QED BY <1>4, <1>6, <2>4, <2>5, <2>8, <2>10, FeedCarries
<1> QED BY <1>1, <1>2, <1>8, <1>9 DEF Due

\* A frame read in the message loop: what it changes is the client's own.
LEMMA ReadCarries ==
  ASSUME Mailing, NEW u \in Users, phase[u] = "loop", Reads(u),
         UNCHANGED <<conn_seq, task, serverRest, up, phase, link, cut, cmid_seq, restarted>>,
         outbox' \in [Users -> Seq(Entries)],
         \A w \in Users : ToSet(outbox'[w]) \subseteq ToSet(outbox[w]),
         inbox' \in [Users -> Inboxes],
         \A w \in Users : w # u => inbox'[w] = inbox[w],
         \A w \in Users : ToSet(inbox[w].shown) \subseteq ToSet(inbox'[w].shown),
         \A m \in placed : Carries(FrameBody(u), m) /\ m.to = u
           => Key(m) \in ToSet(inbox'[u].shown),
         Traced', SeenShown'
  PROVE  Mailing' /\ (Kept => Kept')
<1>1. UNCHANGED <<job, writer, user, placed, offline>>
  BY DEF serverRest
<1>2. PICK c \in Conns : c = link[u] /\ user[c] = u
  BY LoopUser
<1>3. /\ down' \in [Conns -> Seq(Slots)]
      /\ \A d \in Conns : Ahead(d)' \subseteq Ahead(d)
      /\ \A d \in Conns : \A b \in Ahead(d) :
           b \in Ahead(d)' \/ (d = link[u] /\ b = FrameBody(u))
  BY <1>1, ReadTakes
<1>4. up' \in [Conns -> Seq(UpFrames)]
  BY DEF Mailing, ServerTypes, Shape
<1>5. ClientTypes'
  BY DEF Mailing, ClientTypes
<1>6. Online' /\ ClosedIsCut'
  BY <1>1 DEF Mailing, Online, ClosedIsCut
<1>7. OneClient'
  BY <1>1 DEF Mailing, OneClient, Named
<1>8. \A w \in Users : Untouched(w)' => Untouched(w)
  BY <1>1 DEF Untouched
<1>9. FirstPull'
  BY <1>1, <1>8 DEF Mailing, FirstPull
<1>10. Mailing'
  <2>1. \A w \in Users : cmid_seq[w] <= cmid_seq'[w]
    BY CmidStays
  <2>2. \A w \in Users : \A e \in ToSet(outbox'[w]) : e.cmid \in 1..cmid_seq'[w]
    BY DEF Mailing, FromClients
  <2>3. \A d \in Conns : \A f \in ToSet(up'[d]) : f \in ToSet(up[d]) \/ Feeds(d, f)'
    OBVIOUS
  <2> QED BY <1>3, <1>4, <1>5, <1>6, <1>7, <1>9, <2>1, <2>2, <2>3, MailingParts
<1>11. ASSUME Kept PROVE Kept'
  <2>1. \A d \in Conns : \A b \in Ahead(d) :
           \/ b \in Ahead(d)'
           \/ \A m \in placed : Carries(b, m) /\ user[d] = m.to /\ Untouched(m.to)'
                => Key(m) \in ToSet(inbox'[m.to].shown)
    BY <1>2, <1>3
  <2> QED BY <1>1, <1>8, <1>11, <2>1, ClientKeepsHeld
<1> QED BY <1>10, <1>11

LEMMA ReceiveAckKeeps ==
  ASSUME Mailing, NEW u \in Users, ReceiveAck(u)
  PROVE  Carried
<1> USE DEF Mailing
<1>1. /\ phase[u] = "loop" /\ Reads(u)
      /\ UNCHANGED <<conn_seq, task, serverRest, up, phase, link, cut, cmid_seq, inbox, restarted>>
  BY DEF ReceiveAck
<1>2. UNCHANGED <<job, placed>>
  BY <1>1 DEF serverRest
<1>3. PICK c \in Conns, b \in Bodies :
        c = link[u] /\ user[c] = u /\ b = FrameBody(u) /\ b \in Ahead(c)
  BY <1>1, <1>2, ReadTakes, LoopUser
<1>4. b.cmd = "MsgAck" /\ b.msg \in placed /\ b.msg.from = u
  BY <1>3 DEF ReceiveAck, Addressed, Meant
<1>5. Key(b.msg) = <<u, b.msg.cmid>>
  BY <1>4 DEF Key
<1>6. /\ \/ \E i \in 1..Len(outbox[u]) : outbox' = [outbox EXCEPT ![u] = RemoveAt(@, i)]
         \/ outbox' = outbox
      /\ confirmed' \subseteq confirmed \cup {Key(b.msg)}
  BY <1>3, <1>5 DEF ReceiveAck
<1>7. /\ outbox' \in [Users -> Seq(Entries)]
      /\ \A w \in Users : ToSet(outbox'[w]) \subseteq ToSet(outbox[w])
  <2>1. CASE outbox' = outbox
    BY <2>1 DEF ClientTypes
  <2>2. ASSUME NEW i \in 1..Len(outbox[u]), outbox' = [outbox EXCEPT ![u] = RemoveAt(@, i)]
        PROVE  /\ outbox' \in [Users -> Seq(Entries)]
               /\ \A w \in Users : ToSet(outbox'[w]) \subseteq ToSet(outbox[w])
    <3>1. outbox[u] \in Seq(Entries)
      BY DEF ClientTypes
    <3>2. /\ RemoveAt(outbox[u], i) \in Seq(Entries)
          /\ ToSet(RemoveAt(outbox[u], i)) \subseteq ToSet(outbox[u])
      BY <3>1, HeldRemoved
    <3>3. /\ outbox' \in [Users -> Seq(Entries)] /\ outbox'[u] = RemoveAt(outbox[u], i)
          /\ \A w \in Users : w # u => outbox'[w] = outbox[w]
      BY <2>2, <3>2 DEF ClientTypes
    <3> QED BY <3>2, <3>3
  <2> QED BY <1>6, <2>1, <2>2
<1>8. Traced'
  <2>1. \A w \in Users : \A k \in ToSet(inbox'[w].shown) : \E m \in placed' : Key(m) = k /\ m.to = w
    BY <1>1, <1>2 DEF Traced
  <2>2. \A k \in confirmed' : \E m \in placed' : Key(m) = k
    BY <1>2, <1>4, <1>6 DEF Traced
  <2> QED BY <2>1, <2>2 DEF Traced
<1>9. SeenShown'
  BY <1>1 DEF SeenShown
<1>10. inbox' \in [Users -> Inboxes]
  BY <1>1 DEF ClientTypes
<1>11. \A m \in placed : ~Carries(FrameBody(u), m)
  BY <1>3, <1>4 DEF Carries
<1>12. Mailing' /\ (Kept => Kept')
  <2> HIDE DEF Mailing
  <2> QED BY <1>1, <1>7, <1>8, <1>9, <1>10, <1>11, ReadCarries
<1> QED BY <1>1, <1>12 DEF Carried, Windows

\* What the client takes in has been in custody for it, and is shown.
LEMMA ReceiveMsgKeeps ==
  ASSUME Mailing, NEW u \in Users, ReceiveMsg(u)
  PROVE  Carried
<1> USE DEF Mailing
<1>1. /\ phase[u] = "loop" /\ Reads(u)
      /\ UNCHANGED <<conn_seq, task, serverRest, up, phase, link, cut, outbox, cmid_seq,
                     confirmed, restarted>>
  BY DEF ReceiveMsg
<1>2. UNCHANGED <<job, placed>>
  BY <1>1 DEF serverRest
<1>3. PICK c \in Conns, b \in Bodies :
        c = link[u] /\ user[c] = u /\ b = FrameBody(u) /\ b \in Ahead(c)
  BY <1>1, <1>2, ReadTakes, LoopUser
<1>4. Meant(b, u)
  BY <1>3 DEF Addressed
<1>5. inbox[u] \in Inboxes /\ SeenIsShown(inbox[u]) /\ WellKept(inbox[u])
  BY DEF ClientTypes, SeenShown, WellKept
<1>6. placed \subseteq Msgs
  BY DEF ServerTypes, Contents
<1> DEFINE Effect(w) ==
      /\ inbox' = [inbox EXCEPT ![u] = w]
      /\ WellKept(w)
      /\ Window(inbox[u]) => Window(w)
      /\ ToSet(inbox[u].shown) \subseteq ToSet(w.shown)
      /\ \A k \in ToSet(w.shown) :
           k \in ToSet(inbox[u].shown) \/ \E m \in placed : Key(m) = k /\ m.to = u
      /\ \A m \in placed : Carries(b, m) => Key(m) \in ToSet(w.shown)
<1>7. ASSUME b.cmd = "Msg", inbox' = [inbox EXCEPT ![u] = Ingest(@, b.msg)]
      PROVE  \E w : Effect(w)
  <2>1. b.msg \in placed /\ b.msg.to = u /\ b.msg \in Msgs
    BY <1>4, <1>6, <1>7 DEF Meant
  <2>2. PICK m \in Msgs : m = b.msg
    BY <2>1
  <2> DEFINE w == Ingest(inbox[u], m)
  <2>3. /\ WellKept(w) /\ ToSet(w.shown) = ToSet(inbox[u].shown) \cup {Key(m)}
    BY <1>5, IngestShows
  <2>4. Window(inbox[u]) => Window(w)
    BY <1>5, IngestKeepsWindow
  <2>5. \A x \in placed : Carries(b, x) => Key(x) = Key(m)
    BY <1>7, <2>2 DEF Carries
  <2>6. inbox' = [inbox EXCEPT ![u] = w]
    BY <1>7, <2>2
  <2> HIDE DEF w, Mailing
  <2>7. Effect(w)
    BY <2>1, <2>2, <2>3, <2>4, <2>5, <2>6
  <2> HIDE DEF Effect
  <2> QED BY <2>7
<1>8. ASSUME b.cmd = "SyncResp", inbox' = [inbox EXCEPT ![u] = IngestAll(@, b.messages)]
      PROVE  \E w : Effect(w)
  <2>1. /\ b.messages \in Seq(Msgs)
        /\ \A i \in 1..Len(b.messages) : b.messages[i] \in placed /\ b.messages[i].to = u
    BY <1>3, <1>4, <1>8 DEF Meant, Bodies
  <2>2. PICK ms \in Seq(Msgs) : ms = b.messages
    BY <2>1
  <2> DEFINE w == IngestAll(inbox[u], ms)
  <2>3. /\ WellKept(w)
        /\ ToSet(w.shown) = ToSet(inbox[u].shown) \cup {Key(ms[i]) : i \in 1..Len(ms)}
        /\ Window(inbox[u]) => Window(w)
    BY <1>5, BatchShows
  <2>4. \A x \in placed : Carries(b, x) => Key(x) \in {Key(ms[i]) : i \in 1..Len(ms)}
    BY <1>8, <2>2 DEF Carries
  <2>5. inbox' = [inbox EXCEPT ![u] = w]
    BY <1>8, <2>2
  <2> HIDE DEF w, Mailing
  <2>6. Effect(w)
    BY <2>1, <2>2, <2>3, <2>4, <2>5
  <2> HIDE DEF Effect
  <2> QED BY <2>6
<1>9. PICK w : Effect(w)
  <2> HIDE DEF Effect
  <2> QED BY <1>3, <1>7, <1>8 DEF ReceiveMsg
<1>10. /\ inbox' \in [Users -> Inboxes] /\ inbox'[u] = w
       /\ \A v \in Users : v # u => inbox'[v] = inbox[v]
  BY <1>9 DEF ClientTypes, WellKept
<1>11. \A v \in Users : ToSet(inbox[v].shown) \subseteq ToSet(inbox'[v].shown)
  BY <1>9, <1>10
<1>12. \A m \in placed : Carries(FrameBody(u), m) /\ m.to = u => Key(m) \in ToSet(inbox'[u].shown)
  BY <1>3, <1>9, <1>10
<1>13. Traced'
  <2>1. \A v \in Users : \A k \in ToSet(inbox'[v].shown) : \E m \in placed' : Key(m) = k /\ m.to = v
    BY <1>2, <1>9, <1>10 DEF Traced
  <2>2. \A k \in confirmed' : \E m \in placed' : Key(m) = k
    BY <1>1, <1>2 DEF Traced
  <2> QED BY <2>1, <2>2 DEF Traced
<1>14. SeenShown'
  BY <1>9, <1>10 DEF SeenShown, WellKept
<1>15. /\ outbox' \in [Users -> Seq(Entries)]
       /\ \A v \in Users : ToSet(outbox'[v]) \subseteq ToSet(outbox[v])
  BY <1>1 DEF ClientTypes
<1>16. Mailing' /\ (Kept => Kept')
  <2> HIDE DEF Mailing, Effect
  <2> QED BY <1>1, <1>10, <1>11, <1>12, <1>13, <1>14, <1>15, ReadCarries
<1>17. Windows => Windows'
  BY <1>1, <1>9, <1>10 DEF Windows
<1> QED BY <1>16, <1>17 DEF Carried

-----------------------------------------------------------------------------
(***************************************************************************)
(* The invariant of the server and its clients.                            *)
(***************************************************************************)
LEMMA StutterCarries ==
  ASSUME Mailing, UNCHANGED dvars
  PROVE  Carried
<1>1. /\ UNCHANGED <<conn_seq, task, serverRest, up, down, job, writer, user, placed, offline>>
      /\ UNCHANGED <<phase, link, cut, outbox, cmid_seq, inbox, confirmed, restarted>>
  BY DEF dvars, vars, clientVars, serverRest
<1>2. \A d \in Conns : Ahead(d)' = Ahead(d)
  BY <1>1 DEF Ahead
<1>3. up' \in [Conns -> Seq(UpFrames)] /\ down' \in [Conns -> Seq(Slots)] /\ ClientTypes'
  BY <1>1 DEF Mailing, ServerTypes, Shape, Contents, ClientTypes
<1>4. Online' /\ OneClient' /\ ClosedIsCut'
  BY <1>1 DEF Mailing, Online, OneClient, Named, ClosedIsCut
<1>5. FirstPull'
  BY <1>1 DEF Mailing, FirstPull, Untouched
<1>6. Traced' /\ SeenShown'
  BY <1>1 DEF Mailing, Traced, SeenShown
<1>7. Mailing'
  <2>1. \A w \in Users : cmid_seq[w] <= cmid_seq'[w]
    BY <1>1, CmidStays
  <2>2. \A w \in Users : \A e \in ToSet(outbox'[w]) : e.cmid \in 1..cmid_seq'[w]
    BY <1>1 DEF Mailing, FromClients
  <2>3. \A d \in Conns : \A f \in ToSet(up'[d]) : f \in ToSet(up[d]) \/ Feeds(d, f)'
    BY <1>1
  <2> QED BY <1>1, <1>2, <1>3, <1>4, <1>5, <1>6, <2>1, <2>2, <2>3, MailingParts
<1>8. Kept => Kept'
  BY <1>1, <1>2 DEF Kept, HeldFor, Untouched
<1>9. Windows => Windows'
  BY <1>1 DEF Windows
<1> QED BY <1>7, <1>8, <1>9 DEF Carried

LEMMA ServerCarries ==
  ASSUME Mailing, NEW c \in Conns, ServerStep(c) \/ ServerNotices(c)
  PROVE  Mailing' /\ (Kept /\ RoomLeft => Kept') /\ (Windows => Windows')
<1>1. ServerMoves /\ [Next]_vars
  BY ServerMovesAre
<1>2. Mailing'
  BY <1>1, ServerKeepsMailing
<1>3. Kept /\ RoomLeft => Kept'
  BY <1>1, ServerKeepsHeld DEF Mailing
<1>4. Windows => Windows'
  BY <1>1 DEF ServerMoves, clientVars, Windows
<1> QED BY <1>2, <1>3, <1>4

\* The steps, by who takes them.
LEMMA WhoSteps ==
  ASSUME [DNext]_dvars
  PROVE  \/ \E c \in Conns : ServerStep(c) \/ ServerNotices(c)
         \/ \E c \in Conns : Break(c)
         \/ \E u \in Users : \/ Connect(u) \/ FirstFrame(u) \/ HandshakeTimeout(u) \/ LinkLost(u)
                             \/ Restart(u) \/ ReceiveMsg(u) \/ ReceiveAck(u)
                             \/ \E to \in Users : Send(u, to)
                             \/ \E i \in 1..Len(outbox[u]) : Due(u, i)
         \/ UNCHANGED dvars
<1>1. CASE \E c \in Conns : ServerStep(c) \/ ServerNotices(c) \/ Break(c)
  BY <1>1
<1>2. CASE \E u \in Users : \/ Connect(u) \/ ClientStep(u) \/ HandshakeTimeout(u) \/ Restart(u)
                            \/ \E i \in 1..Len(outbox[u]) : Due(u, i)
  BY <1>2 DEF ClientStep
<1>3. ASSUME NEW s \in Sends, Send(s[1], s[2])
      PROVE  \E u, to \in Users : Send(u, to)
  <2>1. s[1] \in Users /\ s[2] \in Users
    BY DeliveryAssumption
  <2> QED BY <2>1, <1>3
<1> QED BY <1>1, <1>2, <1>3 DEF DNext

LEMMA MailingStep ==
  ASSUME Mailing, [DNext]_dvars
  PROVE  Mailing' /\ (Kept /\ RoomLeft => Kept') /\ (Windows => Windows')
<1> DEFINE Goal == Mailing' /\ (Kept /\ RoomLeft => Kept') /\ (Windows => Windows')
<1>1. Carried => Goal
  BY DEF Carried
<1>2. ASSUME NEW c \in Conns, ServerStep(c) \/ ServerNotices(c) PROVE Goal
  BY <1>2, ServerCarries
<1>3. ASSUME NEW c \in Conns, Break(c) PROVE Goal
  BY <1>1, <1>3, BreakKeeps
<1>4. ASSUME NEW u \in Users, Connect(u) \/ FirstFrame(u) PROVE Goal
  BY <1>1, <1>4, ConnectKeeps, FirstFrameKeeps
<1>5. ASSUME NEW u \in Users, HandshakeTimeout(u) \/ LinkLost(u) \/ Restart(u) PROVE Goal
  BY <1>1, <1>5, CutKeeps, RestartKeeps
<1>6. ASSUME NEW u \in Users, ReceiveMsg(u) \/ ReceiveAck(u) PROVE Goal
  BY <1>1, <1>6, ReceiveMsgKeeps, ReceiveAckKeeps
<1>7. ASSUME NEW u \in Users, NEW to \in Users, Send(u, to) PROVE Goal
  BY <1>1, <1>7, SendKeeps
<1>8. ASSUME NEW u \in Users, NEW i \in 1..Len(outbox[u]), Due(u, i) PROVE Goal
  BY <1>1, <1>8, DueKeeps
<1>9. ASSUME UNCHANGED dvars PROVE Goal
  BY <1>1, <1>9, StutterCarries
<1> HIDE DEF Goal
<1>10. Goal
  BY <1>2, <1>3, <1>4, <1>5, <1>6, <1>7, <1>8, <1>9, WhoSteps
<1> QED BY <1>10 DEF Goal

LEMMA MailingInit == DInit => Mailing /\ Kept /\ Windows
<1> SUFFICES ASSUME DInit PROVE Mailing /\ Kept /\ Windows
  OBVIOUS
<1>1. Init
  BY DEF DInit
<1>2. /\ user = [c \in Conns |-> NoUser] /\ up = [c \in Conns |-> << >>]
      /\ down = [c \in Conns |-> << >>] /\ job = [c \in Conns |-> Idle]
      /\ writer = [c \in Conns |-> "open"] /\ placed = {}
      /\ offline = [u \in Users |-> << >>]
      /\ phase = [u \in Users |-> "offline"] /\ link = [u \in Users |-> NoConn]
      /\ cut = [c \in Conns |-> FALSE] /\ outbox = [u \in Users |-> << >>]
      /\ cmid_seq = [u \in Users |-> 0] /\ confirmed = {} /\ restarted = {}
      /\ inbox = [u \in Users |-> [cursor |-> 0, seen |-> << >>, shown |-> << >>]]
  BY DEF DInit, Init
<1>3. ServerTypes
  <2>1. Shape
    BY <1>1, SessionsAssumption DEF Init, Shape
  <2>2. Contents
    BY <1>1, SessionsAssumption DEF Init, Contents, Jobs
  <2>3. Fresh /\ RouterMatchesSessions
    BY <1>1, SessionsAssumption DEF Init, Fresh, RouterMatchesSessions
  <2> QED BY <2>1, <2>2, <2>3 DEF ServerTypes
<1>4. \A S : << >> \in Seq(S)
  OBVIOUS
<1>5. ToSet(<< >>) = {}
  BY DEF ToSet
<1>6. ClientTypes
  <2> DEFINE w == [cursor |-> 0, seen |-> << >>, shown |-> << >>]
  <2>1. w \in Inboxes
    BY <1>4 DEF Inboxes
  <2>2. inbox \in [Users -> Inboxes]
    BY <2>1, <1>2
  <2>3. outbox \in [Users -> Seq(Entries)]
    BY <1>2, <1>4
  <2>4. cmid_seq \in [Users -> 0..MaxSends]
    BY <1>2, DeliveryAssumption
  <2> QED BY <1>2, <2>2, <2>3, <2>4 DEF ClientTypes
<1>7. \A c \in Conns : Ahead(c) = {} /\ ToSet(up[c]) = {} /\ ~InHand(c) /\ job[c].kind # "send"
  BY <1>2, <1>5 DEF Ahead, BodiesOf, Saying, Idle, InHand
<1>8. \A c \in Conns, v \in Users : ~Named(c, v)
  BY <1>2, <1>7, SessionsAssumption DEF Named
<1>9. Online /\ OneClient /\ ClosedIsCut
  BY <1>2, <1>8 DEF Online, OneClient, ClosedIsCut
<1>10. LoggedIn /\ FirstPull
  BY <1>2, <1>7 DEF LoggedIn, FirstPull
<1>11. FromClients /\ Addressed
  BY <1>2, <1>5, <1>7 DEF FromClients, Addressed
<1>12. Traced /\ SeenShown
  BY <1>2, <1>5 DEF Traced, SeenShown, SeenIsShown
<1>13. Kept
  BY <1>2 DEF Kept
<1>14. Windows
  <2>1. Window([cursor |-> 0, seen |-> << >>, shown |-> << >>])
    <3>1. DEDUP_CAPACITY \in Nat \ {0}
      BY DeliveryAssumption
    <3> QED BY <3>1 DEF Window
  <2> QED BY <2>1, <1>2 DEF Windows
<1> QED BY <1>3, <1>6, <1>9, <1>10, <1>11, <1>12, <1>13, <1>14 DEF Mailing

LEMMA MailingInvariant == DSpec => [](Mailing /\ Windows)
<1>1. Mailing /\ Windows /\ [DNext]_dvars => Mailing' /\ Windows'
  BY MailingStep
<1> QED BY <1>1, MailingInit, PTL DEF DSpec

(***************************************************************************)
(* The routing table and the session tasks of the server agree whatever    *)
(* the clients of im-client do: their reconnections, restarts and resends. *)
(***************************************************************************)
THEOREM ClientsKeepRouting == DSpec => [](TypeOK /\ RouterMatchesSessions)
<1>1. Mailing => TypeOK /\ RouterMatchesSessions
  BY TypeParts DEF Mailing, ServerTypes
<1> QED BY <1>1, MailingInvariant, PTL

(***************************************************************************)
(* End to end nothing is invented: what a client shows was given to the    *)
(* sender's client for this very user and has been in the server's         *)
(* custody, and so has what a sender's client takes for confirmed          *)
(* (outbox.rs: an acknowledged message need not be sent again).            *)
(***************************************************************************)
Accounted ==
  /\ \A u \in Users : \A k \in Shown(u) :
       k \in Sent /\ \E m \in placed : Key(m) = k /\ m.to = u
  /\ \A k \in confirmed : k \in Sent /\ \E m \in placed : Key(m) = k

(***************************************************************************)
(* What a user is shown was sent to him by its sender's client and has     *)
(* been in the server's custody; what a sender's client takes for          *)
(* confirmed has been in custody.                                          *)
(***************************************************************************)
THEOREM NothingInvented == DSpec => []Accounted
<1>1. ASSUME Mailing PROVE Accounted
  <2>1. ASSUME NEW m \in placed PROVE Key(m) \in Sent
    <3>1. m.from \in Users /\ m.cmid \in 1..cmid_seq[m.from]
      BY <1>1 DEF Mailing, ServerTypes, Contents, Msgs, FromClients, Genuine
    <3> QED BY <3>1 DEF Sent, Key
  <2>2. ASSUME NEW u \in Users, NEW k \in Shown(u)
        PROVE  \E m \in placed : Key(m) = k /\ m.to = u
    <3>1. inbox[u].shown \in Seq(Keys)
      BY <1>1 DEF Mailing, ClientTypes, Inboxes
    <3>2. k \in ToSet(inbox[u].shown)
      BY <3>1, HeldIn DEF Shown
    <3> QED BY <1>1, <3>2 DEF Mailing, Traced
  <2>3. \A k \in confirmed : \E m \in placed : Key(m) = k
    BY <1>1 DEF Mailing, Traced
  <2> QED BY <2>1, <2>2, <2>3 DEF Accounted
<1> QED BY <1>1, MailingInvariant, PTL

(***************************************************************************)
(* As long as no offline queue is full (a full one loses its oldest        *)
(* message: store_offline), a message in custody for a user who has not    *)
(* lost a connection is queued, on its way to him or shown: the handover   *)
(* between the queue, the sync batch and live delivery loses nothing.      *)
(***************************************************************************)
LEMMA HeldIsOnItsWay ==
  ASSUME Mailing, Kept
  PROVE  KeptWhileConnected
<1> SUFFICES ASSUME NEW m \in placed, Untouched(m.to)
             PROVE  Key(m) \in Shown(m.to) \/ OnItsWay(Key(m), m.to)
  BY DEF KeptWhileConnected, Untouched
<1>1. m \in Msgs /\ m.to \in Users
  BY DEF Mailing, ServerTypes, Contents, Msgs
<1>2. HeldFor(m)
  BY DEF Kept
<1>3. CASE m \in ToSet(offline[m.to])
  <2>1. offline[m.to] \in Seq(Msgs)
    BY <1>1 DEF Mailing, ServerTypes, Contents
  <2>2. \E i \in 1..Len(offline[m.to]) : offline[m.to][i] = m
    BY <1>3, <2>1, HeldIn
  <2> QED BY <2>2 DEF OnItsWay
<1>4. ASSUME NEW c \in Conns, user[c] = m.to, NEW b \in Ahead(c), Carries(b, m)
      PROVE  OnItsWay(Key(m), m.to)
  <2>1. InBody(Key(m), b)
    BY <1>4 DEF Carries, InBody
  <2>2. link[m.to] = c /\ c # NoConn
    BY <1>1, <1>4, SessionsAssumption DEF Mailing, OneClient, Named, Untouched, Conns
  <2>3. CASE b \in BodiesOf(down[c])
    <3>1. down[c] \in Seq(Slots)
      BY DEF Mailing, ServerTypes, Contents
    <3>2. PICK x \in ToSet(down[c]) : b = x.body
      BY <2>3 DEF BodiesOf
    <3>3. \E i \in 1..Len(down[c]) : down[c][i].body = b
      BY <3>1, <3>2, HeldIn
    <3> QED BY <2>1, <2>2, <3>3 DEF OnItsWay
  <2>4. CASE b \in Saying(job[c])
    <3>1. job[c].kind = "reply" /\ b = job[c].frame
      BY <2>4 DEF Saying
    <3> QED BY <1>4, <2>1, <2>2, <3>1 DEF OnItsWay
  <2> QED BY <1>4, <2>3, <2>4 DEF Ahead
<1>5. CASE Key(m) \in ToSet(inbox[m.to].shown)
  <2>1. inbox[m.to].shown \in Seq(Keys)
    BY <1>1 DEF Mailing, ClientTypes, Inboxes
  <2> QED BY <1>5, <2>1, HeldIn DEF Shown
<1> QED BY <1>2, <1>3, <1>4, <1>5 DEF HeldFor

THEOREM HandoverKeepsMessages == DSpec /\ []RoomLeft => []KeptWhileConnected
<1>1. Mailing /\ Kept /\ RoomLeft /\ [DNext]_dvars => Mailing' /\ Kept'
  BY MailingStep
<1>2. Mailing /\ Kept => KeptWhileConnected
  BY HeldIsOnItsWay
<1> QED BY <1>1, <1>2, MailingInit, PTL DEF DSpec

-----------------------------------------------------------------------------
(***************************************************************************)
(* The deduplication window of a client that has not been restarted: two   *)
(* showings of the same message are more than DEDUP_CAPACITY apart.        *)
(***************************************************************************)
ShownFarApart ==
  \A u \in Users \ restarted : \A i, j \in 1..Len(inbox[u].shown) :
    i < j /\ j - i <= DEDUP_CAPACITY => inbox[u].shown[i] # inbox[u].shown[j]

THEOREM RepeatsAreFarApart == DSpec => []ShownFarApart
<1>1. Windows => ShownFarApart
  BY DEF Windows, Window, ShownFarApart
<1> QED BY <1>1, MailingInvariant, PTL

\* What can be shown is one of the messages of a user.
AllKeys == Users \X (1..MaxSends)

LEMMA ShownKeys ==
  ASSUME Mailing, NEW u \in Users
  PROVE  inbox[u].shown \in Seq(AllKeys)
<1>1. inbox[u].shown \in Seq(Keys)
  BY DEF Mailing, ClientTypes, Inboxes
<1>2. \A m \in placed : Key(m) \in AllKeys
  <2> SUFFICES ASSUME NEW m \in placed PROVE m.from \in Users /\ m.cmid \in 1..MaxSends
    BY DEF Key, AllKeys
  <2>1. m.from \in Users /\ m.cmid \in 1..cmid_seq[m.from]
    BY DEF Mailing, ServerTypes, Contents, Msgs, FromClients, Genuine
  <2>2. cmid_seq[m.from] \in 0..MaxSends /\ MaxSends \in Nat
    BY <2>1, DeliveryAssumption DEF Mailing, ClientTypes
  <2> QED BY <2>1, <2>2
<1>3. ToSet(inbox[u].shown) \subseteq AllKeys
  BY <1>2 DEF Mailing, Traced
<1>4. \A i \in 1..Len(inbox[u].shown) : inbox[u].shown[i] \in AllKeys
  BY <1>1, <1>3, HeldIn
<1> QED BY <1>1, <1>4

LEMMA AllKeysCounted ==
  ASSUME IsFiniteSet(Users)
  PROVE  IsFiniteSet(AllKeys) /\ Cardinality(AllKeys) = Cardinality(Users) * MaxSends
<1>1. IsFiniteSet(1..MaxSends) /\ Cardinality(1..MaxSends) = MaxSends
  BY FS_Interval, DeliveryAssumption
<1> QED BY <1>1, FS_Product DEF AllKeys

\* A sequence over few values whose repetitions are far apart has none.
LEMMA NoRepetition ==
  ASSUME NEW S, IsFiniteSet(S), NEW D \in Nat, Cardinality(S) <= D, NEW s \in Seq(S),
         \A i, j \in 1..Len(s) : i < j /\ j - i <= D => s[i] # s[j]
  PROVE  \A i, j \in 1..Len(s) : i # j => s[i] # s[j]
<1>1. ASSUME NEW i \in 1..Len(s), NEW j \in 1..Len(s), i < j PROVE j - i <= D
  <2> SUFFICES ASSUME ~(j - i <= D) PROVE FALSE
    OBVIOUS
  <2> DEFINE f == [p \in 0..D |-> s[j - p]]
  <2>1. Len(s) \in Nat /\ i \in Nat /\ j \in Nat /\ i >= 1 /\ j <= Len(s) /\ D < j - i
    OBVIOUS
  <2>2. \A p \in 0..D : j - p \in 1..Len(s)
    BY <2>1
  <2>3. f \in [0..D -> S]
    BY <2>2, ElementOfSeq
  <2>4. IsFiniteSet(0..D) /\ Cardinality(0..D) = D + 1
    BY FS_Interval
  <2>5. Cardinality(S) \in Nat
    BY FS_CardinalityType
  <2>6. \E p, q \in 0..D : p # q /\ f[p] = f[q]
    <3> HIDE DEF f
    <3>1. Cardinality(S) < Cardinality(0..D)
      BY <2>4, <2>5
    <3> QED BY <2>3, <2>4, <3>1, FS_PigeonHole
  <2>7. PICK p \in 0..D, q \in 0..D : p < q /\ f[p] = f[q]
    <3>1. \A p, q \in 0..D : p # q => p < q \/ q < p
      OBVIOUS
    <3> HIDE DEF f
    <3> QED BY <2>6, <3>1
  <2>8. j - q < j - p /\ (j - p) - (j - q) <= D
    BY <2>1, <2>7
  <2> QED BY <2>2, <2>7, <2>8
<1>2. \A i, j \in 1..Len(s) : i # j => i < j \/ j < i
  OBVIOUS
<1> QED BY <1>1, <1>2

(***************************************************************************)
(* Exactly once for the user: while all there is to send fits into the     *)
(* deduplication window, no client that keeps its process shows a message  *)
(* twice, however often it is resent, queued, pulled or delivered live.    *)
(***************************************************************************)
THEOREM ShownAtMostOnce ==
  ASSUME IsFiniteSet(Users), Cardinality(Users) * MaxSends <= DEDUP_CAPACITY
  PROVE  DSpec => []ShownOnce
<1>1. ASSUME Mailing, Windows PROVE ShownOnce
  <2> SUFFICES ASSUME NEW u \in Users \ restarted
               PROVE  \A i, j \in 1..Len(inbox[u].shown) :
                        i # j => inbox[u].shown[i] # inbox[u].shown[j]
    BY DEF ShownOnce
  <2>1. /\ inbox[u].shown \in Seq(AllKeys)
        /\ \A i, j \in 1..Len(inbox[u].shown) :
             i < j /\ j - i <= DEDUP_CAPACITY => inbox[u].shown[i] # inbox[u].shown[j]
    BY <1>1, ShownKeys DEF Windows, Window
  <2>2. /\ IsFiniteSet(AllKeys) /\ Cardinality(AllKeys) <= DEDUP_CAPACITY /\ DEDUP_CAPACITY \in Nat
    BY AllKeysCounted, DeliveryAssumption
  <2> QED BY <2>1, <2>2, NoRepetition
<1> QED BY <1>1, MailingInvariant, PTL

-----------------------------------------------------------------------------
(***************************************************************************)
(* The invariants of the session core, whatever its clients do: a client   *)
(* leaves the server's state alone and takes frames from its channel.      *)
(***************************************************************************)
ReadsOnly ==
  /\ UNCHANGED serverRest
  /\ \A c \in Conns : task[c] = "live" => task'[c] = "live"
  /\ \/ down' = down
     \/ /\ task' = task
        /\ \E c \in Conns : down[c] # << >> /\ down' = [down EXCEPT ![c] = Tail(@)]

LEMMA ServerOrReads ==
  ASSUME Mailing, [DNext]_dvars
  PROVE  [Next]_vars \/ ReadsOnly
<1>1. ASSUME NEW c \in Conns, ServerStep(c) \/ ServerNotices(c) PROVE [Next]_vars
  BY <1>1, ServerMovesAre
<1>2. ASSUME UNCHANGED vars PROVE [Next]_vars
  BY <1>2
<1>3. ASSUME NEW c \in Conns, Break(c) PROVE UNCHANGED vars
  BY <1>3 DEF Break
<1>4. ASSUME NEW u \in Users, HandshakeTimeout(u) \/ LinkLost(u) \/ Restart(u) PROVE UNCHANGED vars
  BY <1>4 DEF HandshakeTimeout, LinkLost, Restart
<1>5. UNCHANGED dvars => UNCHANGED vars
  BY DEF dvars
<1>6. ASSUME NEW u \in Users, Connect(u) PROVE ReadsOnly
  <2>1. UNCHANGED <<serverRest, down>> /\ task' = [task EXCEPT ![conn_seq + 1] = "live"]
    BY <1>6 DEF Connect, AcceptConn
  <2>2. task \in [Conns -> {"none", "live", "ended"}]
    BY DEF Mailing, ServerTypes, Shape
  <2> QED BY <2>1, <2>2 DEF ReadsOnly
<1>7. ASSUME NEW u \in Users, FirstFrame(u) \/ ReceiveMsg(u) \/ ReceiveAck(u) PROVE ReadsOnly
  <2>1. UNCHANGED <<task, serverRest>> /\ Reads(u)
    BY <1>7 DEF FirstFrame, ReceiveMsg, ReceiveAck
  <2>2. link[u] \in Conns
    BY <2>1 DEF Reads, Mailing, ClientTypes
  <2> QED BY <2>1, <2>2 DEF Reads, ReadsOnly
<1>8. ASSUME NEW u \in Users, NEW to \in Users, Send(u, to) PROVE ReadsOnly
  <2>1. UNCHANGED <<task, serverRest, down>>
    BY <1>8 DEF Send
  <2> QED BY <2>1 DEF ReadsOnly
<1>9. ASSUME NEW u \in Users, NEW i \in 1..Len(outbox[u]), Due(u, i) PROVE ReadsOnly
  <2>1. UNCHANGED <<task, serverRest, down>>
    BY <1>9 DEF Due
  <2> QED BY <2>1 DEF ReadsOnly
<1> QED BY <1>1, <1>2, <1>3, <1>4, <1>5, <1>6, <1>7, <1>8, <1>9, WhoSteps

CoreInv == AInv /\ CustodyInv /\ OrderInv

LEMMA CoreStep ==
  ASSUME Mailing, CoreInv, [DNext]_dvars
  PROVE  CoreInv'
<1>1. RInv /\ Shape /\ Contents
  BY DEF Mailing, ServerTypes, RInv
<1>2. CASE [Next]_vars
  <2>1. AInv'
    BY <1>1, <1>2, CustodyStep DEF CoreInv
  <2>2. CustodyInv'
    BY <1>1, <1>2, CustodyInvStep DEF CoreInv
  <2>3. OrderInv'
    BY <1>1, <1>2, OrderInvStep DEF CoreInv
  <2> QED BY <2>1, <2>2, <2>3 DEF CoreInv
<1>3. CASE ReadsOnly
  <2>1. UNCHANGED <<job, user, offline, last_id, placed, acked>>
    BY <1>3 DEF ReadsOnly, serverRest
  <2>2. AInv'
    BY <2>1 DEF CoreInv, AInv, AckPending, AckAfterCustody
  <2>3. CASE down' = down
    <3>1. CustodyInv'
      BY <1>1, <2>1, <2>3, RestKeepsCustody DEF CoreInv
    <3>2. OrderInv'
      BY <1>3, <2>1, <2>3, RestKeepsOrder DEF CoreInv, ReadsOnly
    <3> QED BY <2>2, <3>1, <3>2 DEF CoreInv
  <2>4. ASSUME NEW c \in Conns, down[c] # << >>, down' = [down EXCEPT ![c] = Tail(@)], task' = task
        PROVE  CoreInv'
    <3>1. CustodyInv'
      BY <1>1, <2>1, <2>4, ReadKeepsCustody DEF CoreInv
    <3>2. OrderInv'
      BY <1>1, <2>1, <2>4, ReadKeepsOrder DEF CoreInv
    <3> QED BY <2>2, <3>1, <3>2 DEF CoreInv
  <2> QED BY <1>3, <2>3, <2>4 DEF ReadsOnly
<1> QED BY <1>2, <1>3, ServerOrReads

(***************************************************************************)
(* With the clients of im-client at its connections the server still       *)
(* acknowledges only what it has in custody, keeps each message in one     *)
(* place and keeps the messages of a sender in order.                      *)
(***************************************************************************)
THEOREM ClientsKeepCustody == DSpec => [](AckAfterCustody /\ SingleCustody /\ SenderOrder)
<1>1. Init => AInv /\ OrderInv
  BY DEF Init, AInv, AckPending, AckAfterCustody, OrderInv, BusyLives, Handled, NewestInHand,
         RepliesOnly, InOrder, InHand, Idle, Ordered, OrderedLive
<1>2. Init => CustodyInv
  BY CustodyInit
<1>3. DInit => CoreInv
  BY <1>1, <1>2 DEF DInit, CoreInv
<1>4. Mailing /\ CoreInv /\ [DNext]_dvars => CoreInv'
  BY CoreStep
<1>5. Mailing /\ CoreInv => AckAfterCustody /\ SingleCustody /\ SenderOrder
  <2> SUFFICES ASSUME Mailing, CoreInv PROVE AckAfterCustody /\ SingleCustody /\ SenderOrder
    OBVIOUS
  <2>1. AckAfterCustody
    BY DEF CoreInv, AInv
  <2>2. SingleCustody
    BY CustodyIsSingle DEF CoreInv, Mailing, ServerTypes
  <2>3. SenderOrder
    BY DEF CoreInv, OrderInv, InOrder, OrderedLive, SenderOrder
  <2> QED BY <2>1, <2>2, <2>3
<1> QED BY <1>3, <1>4, <1>5, MailingInvariant, PTL DEF DSpec
=============================================================================
