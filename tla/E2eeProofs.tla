----------------------------- MODULE E2eeProofs -----------------------------
(***************************************************************************)
(* Proofs about module E2ee: no message is decrypted twice, and the first  *)
(* arrival of a message opens it unless it lies too far ahead, for every   *)
(* MAX_SKIP, however many messages are sent and however often and in       *)
(* whatever order the network brings and repeats them.                     *)
(***************************************************************************)
EXTENDS E2ee, SequenceTheorems, WellFoundedInduction, TLAPS

Fields == {"ready", "root", "self", "remote", "send", "recv", "nSend", "nRecv", "prev", "skipped"}

IsSeq(r) == Len(r) \in Nat /\ r = [i \in 1..Len(r) |-> r[i]]

(***************************************************************************)
(* A message key carries the root of its chain and its step in it. It is   *)
(* behind the receiving chain when that chain cannot produce it any more:  *)
(* every new chain has a longer root, and a chain only steps forward.      *)
(***************************************************************************)
RootOf(key) == key[2].root
StepOf(key) == key[2].step
Behind(recv, key) ==
  /\ key = kdf_ck_mk([root |-> RootOf(key), step |-> StepOf(key)])
  /\ Len(RootOf(key)) \in Nat /\ Len(RootOf(key)) <= Len(recv.root)
  /\ StepOf(key) \in Nat
  /\ RootOf(key) = recv.root => StepOf(key) < recv.step

(***************************************************************************)
(* The receiving half of a ratchet whose keys used so far are those of the *)
(* set used: each kept key is kept once, under the peer key of its chain   *)
(* and its own number, and neither it nor a used key can come again.       *)
(***************************************************************************)
InStep(root, recv, nRecv, remote, skipped, used) ==
  /\ IsSeq(root) /\ Len(recv.root) \in Nat /\ Len(recv.root) <= Len(root)
  /\ nRecv \in Nat /\ recv = [root |-> recv.root, step |-> nRecv]
  /\ \A k \in skipped :
       /\ k = [dh |-> k.dh, n |-> k.n, mk |-> k.mk]
       /\ Behind(recv, k.mk) /\ StepOf(k.mk) = k.n
       /\ RootOf(k.mk) = recv.root => k.dh = remote
  /\ \A j, k \in skipped : j.mk = k.mk => j = k
  /\ \A key \in used : Behind(recv, key) /\ \A k \in skipped : k.mk # key

Sound(s, used) ==
  /\ DOMAIN s = Fields /\ s.ready = TRUE
  /\ s.nSend \in Nat /\ s.prev \in Nat
  /\ InStep(s.root, s.recv, s.nRecv, s.remote, s.skipped, used)

\* The keys of the messages p has opened.
UsedKeys(p) == {m.key : m \in {x \in opened : x.from = Peer(p)}}

Ratchets ==
  /\ ratchet = [p \in Sides |-> ratchet[p]]
  /\ \A p \in Sides : \/ ratchet[p] = NoRatchet /\ UsedKeys(p) = {}
                      \/ Sound(ratchet[p], UsedKeys(p))

SentTypes == \A m \in sent : m.header.n \in Nat /\ m.header.prev \in Nat

E2eeInv == Ratchets /\ SentTypes /\ OpenedOnce

LEMMA PeerIsOther == \A p \in Sides : Peer(p) \in Sides /\ \A q \in Sides : Peer(q) = Peer(p) => q = p
<1>1. \A p \in Sides : \E q \in Sides : q # p
  BY DEF Sides
<1>2. \A p \in Sides : Peer(p) \in Sides /\ Peer(p) # p
  BY <1>1 DEF Peer
<1> QED BY <1>2 DEF Sides

LEMMA SeqGrows ==
  ASSUME NEW r, IsSeq(r), NEW x
  PROVE  IsSeq(Append(r, x)) /\ Len(Append(r, x)) = Len(r) + 1
<1> DEFINE S == {r[i] : i \in 1..Len(r)} \cup {x}
           n == Len(r)
<1>1. r \in Seq(S)
  <2>1. n \in Nat /\ r = [i \in 1..n |-> r[i]] /\ \A i \in 1..n : r[i] \in S
    BY DEF IsSeq
  <2> HIDE DEF S, n
  <2> QED BY <2>1
<1>2. Append(r, x) \in Seq(S) /\ Len(Append(r, x)) = Len(r) + 1
  <2>1. x \in S
    OBVIOUS
  <2> HIDE DEF S
  <2> QED BY <1>1, <2>1
<1>3. Append(r, x) = [i \in 1..Len(Append(r, x)) |-> Append(r, x)[i]] /\ Len(Append(r, x)) \in Nat
  <2>1. ASSUME NEW T, NEW q \in Seq(T)
        PROVE  q = [i \in 1..Len(q) |-> q[i]] /\ Len(q) \in Nat
    OBVIOUS
  <2> HIDE DEF S
  <2>2. PICK q : q = Append(r, x)
    OBVIOUS
  <2>3. q \in Seq(S)
    BY <1>2, <2>2
  <2>4. q = [i \in 1..Len(q) |-> q[i]] /\ Len(q) \in Nat
    BY <2>1, <2>3
  <2> QED BY <2>2, <2>4
<1> QED BY <1>2, <1>3 DEF IsSeq

\* What a message key is made of.
LEMMA KeyParts ==
  ASSUME NEW r, NEW j
  PROVE  /\ RootOf(kdf_ck_mk([root |-> r, step |-> j])) = r
         /\ StepOf(kdf_ck_mk([root |-> r, step |-> j])) = j
BY DEF RootOf, StepOf, kdf_ck_mk

(***************************************************************************)
(* skip_to keeps the keys of the numbers it jumps over, and steps forward. *)
(***************************************************************************)
Jumped(recv, nRecv, remote, until) ==
  {[dh |-> remote, n |-> n, mk |-> kdf_ck_mk(Ahead(recv, n - nRecv))] : n \in nRecv .. until - 1}

LEMMA JumpInStep ==
  ASSUME NEW root, NEW recv, NEW nRecv, NEW remote, NEW skipped, NEW used,
         InStep(root, recv, nRecv, remote, skipped, used),
         NEW until \in Nat, nRecv <= until
  PROVE  /\ Ahead(recv, until - nRecv) = [root |-> recv.root, step |-> until]
         /\ InStep(root, Ahead(recv, until - nRecv), until, remote,
                   skipped \cup Jumped(recv, nRecv, remote, until), used)
<1> DEFINE ahead == [root |-> recv.root, step |-> until]
           K(n) == [dh |-> remote, n |-> n, mk |-> kdf_ck_mk([root |-> recv.root, step |-> n])]
<1>a. /\ nRecv \in Nat /\ recv = [root |-> recv.root, step |-> nRecv]
      /\ IsSeq(root) /\ Len(recv.root) \in Nat /\ Len(recv.root) <= Len(root)
  BY DEF InStep
<1>1. \A n \in Nat : Ahead(recv, n - nRecv) = [root |-> recv.root, step |-> n]
  <2> SUFFICES ASSUME NEW n \in Nat PROVE Ahead(recv, n - nRecv) = [root |-> recv.root, step |-> n]
    OBVIOUS
  <2>1. recv.step = nRecv /\ DOMAIN recv = {"root", "step"}
    BY <1>a
  <2>2. Ahead(recv, n - nRecv) = [root |-> recv.root, step |-> recv.step + (n - nRecv)]
    BY <1>a, <2>1 DEF Ahead
  <2>3. recv.step + (n - nRecv) = n
    BY <1>a, <2>1
  <2> QED BY <2>2, <2>3
<1>2. Jumped(recv, nRecv, remote, until) = {K(n) : n \in nRecv .. until - 1}
  <2>1. \A n \in nRecv .. until - 1 : n \in Nat
    BY <1>a
  <2> QED BY <1>1, <2>1 DEF Jumped
<1>3. \A n \in nRecv .. until - 1 :
        /\ n \in Nat /\ nRecv <= n /\ n < until
        /\ K(n).dh = remote /\ K(n).n = n
        /\ RootOf(K(n).mk) = recv.root /\ StepOf(K(n).mk) = n
        /\ Behind(ahead, K(n).mk)
  <2> SUFFICES ASSUME NEW n \in nRecv .. until - 1
               PROVE  /\ n \in Nat /\ nRecv <= n /\ n < until
                      /\ RootOf(K(n).mk) = recv.root /\ StepOf(K(n).mk) = n
                      /\ Behind(ahead, K(n).mk)
    OBVIOUS
  <2>1. n \in Nat /\ nRecv <= n /\ n < until
    BY <1>a
  <2>2. RootOf(K(n).mk) = recv.root /\ StepOf(K(n).mk) = n
    BY KeyParts
  <2>3. K(n).mk = kdf_ck_mk([root |-> RootOf(K(n).mk), step |-> StepOf(K(n).mk)])
    BY <2>2
  <2> HIDE DEF K
  <2> QED BY <1>a, <2>1, <2>2, <2>3 DEF Behind
<1>4. \A key : Behind(recv, key) => Behind(ahead, key)
  BY <1>a DEF Behind
<1>5. ASSUME NEW k \in skipped
      PROVE  /\ k = [dh |-> k.dh, n |-> k.n, mk |-> k.mk]
             /\ Behind(ahead, k.mk) /\ StepOf(k.mk) = k.n
             /\ RootOf(k.mk) = recv.root => k.dh = remote /\ StepOf(k.mk) < nRecv
  BY <1>a, <1>4 DEF InStep, Behind
<1> DEFINE more == skipped \cup Jumped(recv, nRecv, remote, until)
<1>6. ASSUME NEW k \in more
      PROVE  /\ k = [dh |-> k.dh, n |-> k.n, mk |-> k.mk]
             /\ Behind(ahead, k.mk) /\ StepOf(k.mk) = k.n
             /\ RootOf(k.mk) = recv.root => k.dh = remote
  <2>1. CASE k \in skipped
    BY <1>5, <2>1
  <2>2. CASE \E n \in nRecv .. until - 1 : k = K(n)
    BY <1>3, <2>2
  <2> QED BY <1>2, <2>1, <2>2
<1>7. ASSUME NEW j \in more, NEW k \in more, j.mk = k.mk
      PROVE  j = k
  <2>1. CASE j \in skipped /\ k \in skipped
    BY <1>7, <2>1 DEF InStep
  <2>2. ASSUME NEW x \in skipped, NEW n \in nRecv .. until - 1, x.mk = K(n).mk PROVE FALSE
    <3>1. RootOf(x.mk) = recv.root /\ StepOf(x.mk) = n
      BY <1>3, <2>2
    <3>2. n < nRecv
      BY <1>5, <3>1
    <3> QED BY <1>a, <1>3, <3>2
  <2>3. ASSUME NEW n \in nRecv .. until - 1, NEW h \in nRecv .. until - 1, K(n).mk = K(h).mk
        PROVE  n = h
    BY <1>3, <2>3
  <2> HIDE DEF K
  <2> QED BY <1>2, <1>7, <2>1, <2>2, <2>3
<1>8. ASSUME NEW key \in used
      PROVE  Behind(ahead, key) /\ \A k \in more : k.mk # key
  <2>1. Behind(recv, key) /\ \A k \in skipped : k.mk # key
    BY DEF InStep
  <2>2. ASSUME NEW n \in nRecv .. until - 1 PROVE K(n).mk # key
    <3>1. RootOf(key) = recv.root => StepOf(key) < nRecv
      BY <1>a, <2>1 DEF Behind
    <3>2. StepOf(key) \in Nat
      BY <2>1 DEF Behind
    <3> QED BY <1>a, <1>3, <3>1, <3>2
  <2> HIDE DEF K
  <2> QED BY <1>2, <1>4, <2>1, <2>2
<1>9. Ahead(recv, until - nRecv) = ahead
  BY <1>1
<1>10. InStep(root, ahead, until, remote, more, used)
  <2>1. ahead.root = recv.root /\ ahead.step = until
    OBVIOUS
  <2> HIDE DEF more
  <2> QED BY <1>a, <1>6, <1>7, <1>8, <2>1 DEF InStep
<1> QED BY <1>9, <1>10

(***************************************************************************)
(* The next key of the chain is new, and used up by one message.           *)
(***************************************************************************)
LEMMA NextInStep ==
  ASSUME NEW root, NEW recv, NEW nRecv, NEW remote, NEW skipped, NEW used,
         InStep(root, recv, nRecv, remote, skipped, used)
  PROVE  /\ kdf_ck_mk(recv) \notin used
         /\ InStep(root, kdf_ck_next(recv), nRecv + 1, remote, skipped,
                   used \cup {kdf_ck_mk(recv)})
<1> DEFINE next == [root |-> recv.root, step |-> nRecv + 1]
<1>a. /\ nRecv \in Nat /\ recv = [root |-> recv.root, step |-> nRecv]
      /\ IsSeq(root) /\ Len(recv.root) \in Nat /\ Len(recv.root) <= Len(root)
  BY DEF InStep
<1>1. kdf_ck_next(recv) = next
  <2>1. recv.step = nRecv /\ DOMAIN recv = {"root", "step"}
    BY <1>a
  <2> QED BY <1>a, <2>1 DEF kdf_ck_next
<1>2. PICK new : new = kdf_ck_mk(recv)
  OBVIOUS
<1>3. RootOf(new) = recv.root /\ StepOf(new) = nRecv
        /\ new = kdf_ck_mk([root |-> RootOf(new), step |-> StepOf(new)])
  BY <1>a, <1>2, KeyParts
<1>4. \A key : Behind(recv, key) => Behind(next, key) /\ key # new
  BY <1>a, <1>3 DEF Behind
<1>5. Behind(next, new)
  BY <1>a, <1>3 DEF Behind
<1>6. InStep(root, next, nRecv + 1, remote, skipped, used \cup {new})
  <2>1. next.root = recv.root /\ next.step = nRecv + 1 /\ nRecv + 1 \in Nat
    BY <1>a
  <2>2. \A k \in skipped : k.mk # new
    BY <1>4 DEF InStep
  <2>3. \A k \in skipped :
          /\ k = [dh |-> k.dh, n |-> k.n, mk |-> k.mk]
          /\ Behind(next, k.mk) /\ StepOf(k.mk) = k.n
          /\ RootOf(k.mk) = recv.root => k.dh = remote
    BY <1>4 DEF InStep
  <2>4. \A key \in used \cup {new} : Behind(next, key) /\ \A k \in skipped : k.mk # key
    BY <1>4, <1>5, <2>2 DEF InStep
  <2>5. \A j, k \in skipped : j.mk = k.mk => j = k
    BY DEF InStep
  <2> QED BY <1>a, <2>1, <2>3, <2>4, <2>5 DEF InStep
<1>7. new \notin used
  BY <1>4 DEF InStep
<1> QED BY <1>1, <1>2, <1>6, <1>7

(***************************************************************************)
(* A new receiving chain has a longer root than any key so far.            *)
(***************************************************************************)
LEMMA NewChainInStep ==
  ASSUME NEW root, NEW recv, NEW nRecv, NEW remote, NEW skipped, NEW used,
         InStep(root, recv, nRecv, remote, skipped, used),
         NEW x, NEW y, NEW other
  PROVE  InStep(Append(Append(root, x), y), [root |-> Append(root, x), step |-> 0], 0, other,
                skipped, used)
<1>1. PICK r : r = Append(root, x)
  OBVIOUS
<1>2. IsSeq(root) /\ Len(recv.root) \in Nat /\ Len(recv.root) <= Len(root)
  BY DEF InStep
<1>3. IsSeq(r) /\ Len(r) = Len(root) + 1
  BY <1>1, <1>2, SeqGrows
<1>4. IsSeq(Append(r, y)) /\ Len(Append(r, y)) = Len(r) + 1
  BY <1>3, SeqGrows
<1> DEFINE chain == [root |-> r, step |-> 0]
<1>5. \A key : Behind(recv, key) => Behind(chain, key) /\ RootOf(key) # r
  BY <1>2, <1>3 DEF Behind, IsSeq
<1>6. chain.root = r /\ chain.step = 0
  OBVIOUS
<1>7. \A k \in skipped :
        /\ k = [dh |-> k.dh, n |-> k.n, mk |-> k.mk]
        /\ Behind(chain, k.mk) /\ StepOf(k.mk) = k.n
        /\ RootOf(k.mk) # r
  BY <1>5 DEF InStep
<1>8. \A key \in used : Behind(chain, key) /\ \A k \in skipped : k.mk # key
  BY <1>5 DEF InStep
<1>9. \A j, k \in skipped : j.mk = k.mk => j = k
  BY DEF InStep
<1>10. Len(r) \in Nat /\ Len(r) <= Len(Append(r, y))
  BY <1>3, <1>4 DEF IsSeq
<1> HIDE DEF chain
<1>11. InStep(Append(r, y), chain, 0, other, skipped, used)
  BY <1>4, <1>6, <1>7, <1>8, <1>9, <1>10 DEF InStep, chain
<1> QED BY <1>1, <1>11 DEF chain

\* The sending half may change as it likes, as long as the root only grows.
LEMMA SendInStep ==
  ASSUME NEW root, NEW recv, NEW nRecv, NEW remote, NEW skipped, NEW used,
         InStep(root, recv, nRecv, remote, skipped, used), NEW x
  PROVE  InStep(Append(root, x), recv, nRecv, remote, skipped, used)
<1>1. IsSeq(root) /\ IsSeq(Append(root, x)) /\ Len(Append(root, x)) = Len(root) + 1
  BY SeqGrows DEF InStep
<1>2. Len(recv.root) <= Len(Append(root, x))
  BY <1>1 DEF InStep, IsSeq
<1> QED BY <1>1, <1>2 DEF InStep

\* A kept key that is used leaves its place to nobody.
LEMMA TakeInStep ==
  ASSUME NEW root, NEW recv, NEW nRecv, NEW remote, NEW skipped, NEW used,
         InStep(root, recv, nRecv, remote, skipped, used), NEW k \in skipped
  PROVE  /\ k.mk \notin used
         /\ InStep(root, recv, nRecv, remote, skipped \ {k}, used)
         /\ InStep(root, recv, nRecv, remote, skipped \ {k}, used \cup {k.mk})
BY DEF InStep

(***************************************************************************)
(* The steps of a ratchet state.                                           *)
(***************************************************************************)
LEMMA SendChainFields ==
  ASSUME NEW s, DOMAIN s = Fields, NEW key, NEW t, t = NewSendChain(s, key)
  PROVE  /\ DOMAIN t = Fields /\ t.root = Append(s.root, DH(key, s.remote))
         /\ t.ready = s.ready /\ t.recv = s.recv /\ t.nRecv = s.nRecv /\ t.remote = s.remote
         /\ t.skipped = s.skipped /\ t.nSend = 0 /\ t.prev = s.nSend
BY DEF NewSendChain, kdf_rk, Fields

LEMMA SendChainBegins ==
  ASSUME NEW s, DOMAIN s = Fields, NEW key, NEW t, t = NewSendChain(s, key)
  PROVE  t.self = key /\ t.send = [root |-> t.root, step |-> 0]
BY DEF NewSendChain, kdf_rk, Fields

LEMMA SkipFields ==
  ASSUME NEW s, DOMAIN s = Fields, NEW remote, NEW chain, NEW until,
         NEW t, t = skip_to(s, remote, chain, until).state
  PROVE  /\ DOMAIN t = Fields /\ t.ready = s.ready /\ t.root = s.root /\ t.recv = s.recv
         /\ t.remote = s.remote /\ t.nSend = s.nSend /\ t.prev = s.prev
         /\ t.self = s.self /\ t.send = s.send
         /\ t.nRecv = until
         /\ t.skipped = insert(s.skipped, Jumped(chain, s.nRecv, remote, until))
<1>1. PassedKeys(s, remote, chain, until) = Jumped(chain, s.nRecv, remote, until)
  BY DEF PassedKeys, Jumped
<1> QED BY <1>1 DEF skip_to, Fields

\* A key that takes the place of another is no worse than both.
LEMMA InsertInStep ==
  ASSUME NEW root, NEW recv, NEW nRecv, NEW remote, NEW kept, NEW keys, NEW used,
         InStep(root, recv, nRecv, remote, kept \cup keys, used)
  PROVE  InStep(root, recv, nRecv, remote, insert(kept, keys), used)
<1>1. PICK all, some : all = kept \cup keys /\ some = insert(kept, keys)
  OBVIOUS
<1>2. some \subseteq all
  BY <1>1 DEF insert
<1>3. InStep(root, recv, nRecv, remote, all, used)
  BY <1>1
<1>4. InStep(root, recv, nRecv, remote, some, used)
  BY <1>2, <1>3 DEF InStep
<1> QED BY <1>1, <1>4

\* A turn keeps the rest of the ended chain and opens two new ones.
LEMMA TurnedSound ==
  ASSUME NEW s, NEW used, Sound(s, used), NEW m, m.header.prev \in Nat, NEW key,
         ~OldChainTooFar(s, m), NEW t, t = Turned(s, m, key)
  PROVE  Sound(t, used)
<1> DEFINE jumps == s.remote # NoKey /\ s.recv # NoChain
           until == m.header.prev
<1>a. /\ DOMAIN s = Fields /\ s.ready = TRUE /\ s.nSend \in Nat /\ s.prev \in Nat
      /\ InStep(s.root, s.recv, s.nRecv, s.remote, s.skipped, used)
  BY DEF Sound
<1>1. CASE m.header.dh = s.remote
  BY <1>1 DEF Turned
<1>2. CASE m.header.dh # s.remote
  <2>1. PICK u : u = IF jumps THEN skip_to(s, s.remote, s.recv, until).state ELSE s
    OBVIOUS
  <2>2. t = dh_ratchet_recv_side(u, m.header.dh, key)
    BY <1>2, <2>1 DEF Turned
  <2>3. /\ DOMAIN u = Fields /\ u.ready = TRUE /\ u.nSend \in Nat /\ u.root = s.root
        /\ \E c : InStep(u.root, c, u.nRecv, u.remote, u.skipped, used)
    <3>1. CASE jumps
      <4>1. s.nRecv \in Nat
        BY <1>a DEF InStep
      <4>2. ~(until < s.nRecv)
        BY <1>2, <3>1 DEF OldChainTooFar, TooFar
      <4>3. s.nRecv <= until
        BY <4>1, <4>2
      <4>4. InStep(s.root, Ahead(s.recv, until - s.nRecv), until, s.remote,
                   s.skipped \cup Jumped(s.recv, s.nRecv, s.remote, until), used)
        BY <1>a, <4>3, JumpInStep
      <4>5. u = skip_to(s, s.remote, s.recv, until).state
        BY <2>1, <3>1
      <4>6. /\ DOMAIN u = Fields /\ u.ready = s.ready /\ u.root = s.root /\ u.recv = s.recv
            /\ u.remote = s.remote /\ u.nSend = s.nSend /\ u.nRecv = until
            /\ u.skipped = insert(s.skipped, Jumped(s.recv, s.nRecv, s.remote, until))
        BY <1>a, <4>5, SkipFields
      <4>7. InStep(s.root, Ahead(s.recv, until - s.nRecv), until, s.remote,
                   insert(s.skipped, Jumped(s.recv, s.nRecv, s.remote, until)), used)
        BY <4>4, InsertInStep
      <4> QED BY <1>a, <4>6, <4>7
    <3>2. CASE ~jumps
      BY <1>a, <2>1, <3>2
    <3> QED BY <3>1, <3>2
  <2>4. PICK c : InStep(u.root, c, u.nRecv, u.remote, u.skipped, used)
    BY <2>3
  <2>5. InStep(Append(Append(u.root, DH(u.self, m.header.dh)), DH(key, m.header.dh)),
               [root |-> Append(u.root, DH(u.self, m.header.dh)), step |-> 0], 0, m.header.dh,
               u.skipped, used)
    BY <2>4, NewChainInStep
  <2>6. /\ DOMAIN t = Fields
        /\ t.root = Append(Append(u.root, DH(u.self, m.header.dh)), DH(key, m.header.dh))
        /\ t.ready = u.ready /\ t.remote = m.header.dh /\ t.skipped = u.skipped
        /\ t.recv = [root |-> Append(u.root, DH(u.self, m.header.dh)), step |-> 0] /\ t.nRecv = 0
        /\ t.nSend = 0 /\ t.prev = u.nSend
    <3>1. PICK dh : dh = m.header.dh
      OBVIOUS
    <3> DEFINE root == Append(u.root, DH(u.self, dh))
    <3>2. kdf_rk(u.root, DH(u.self, dh)) = [rk |-> root, ck |-> [root |-> root, step |-> 0]]
      BY DEF kdf_rk
    <3>3. PICK v : v = [u EXCEPT !.remote = dh, !.root = root,
                                 !.recv = [root |-> root, step |-> 0], !.nRecv = 0]
      OBVIOUS
    <3>4. /\ DOMAIN v = Fields /\ v.root = root /\ v.remote = dh
          /\ v.recv = [root |-> root, step |-> 0] /\ v.nRecv = 0
          /\ v.ready = u.ready /\ v.skipped = u.skipped /\ v.nSend = u.nSend
      <4> HIDE DEF root
      <4> QED BY <2>3, <3>3 DEF Fields
    <3>5. t = NewSendChain(v, key)
      <4>1. t = NewSendChain([u EXCEPT !.remote = dh, !.root = kdf_rk(u.root, DH(u.self, dh)).rk,
                                       !.recv = kdf_rk(u.root, DH(u.self, dh)).ck, !.nRecv = 0],
                             key)
        BY <2>2, <3>1 DEF dh_ratchet_recv_side
      <4>2. /\ kdf_rk(u.root, DH(u.self, dh)).rk = root
            /\ kdf_rk(u.root, DH(u.self, dh)).ck = [root |-> root, step |-> 0]
        BY <3>2
      <4> HIDE DEF root
      <4> QED BY <3>3, <4>1, <4>2
    <3>6. /\ DOMAIN t = Fields /\ t.root = Append(v.root, DH(key, v.remote))
          /\ t.ready = v.ready /\ t.recv = v.recv /\ t.nRecv = v.nRecv /\ t.remote = v.remote
          /\ t.skipped = v.skipped /\ t.nSend = 0 /\ t.prev = v.nSend
      BY <3>4, <3>5, SendChainFields
    <3> QED BY <3>1, <3>4, <3>6
  <2> QED BY <2>3, <2>5, <2>6 DEF Sound
<1> QED BY <1>1, <1>2

LEMMA FewerUsed ==
  ASSUME NEW s, NEW used, NEW x, Sound(s, used \cup {x})
  PROVE  Sound(s, used)
BY DEF Sound, InStep

(***************************************************************************)
(* What one decryption does: a message it opens has a key that was not     *)
(* used before, and the state after it is sound with that key used.        *)
(***************************************************************************)
LEMMA DecryptedSound ==
  ASSUME NEW s, NEW used, Sound(s, used), NEW m, m.header.prev \in Nat, m.header.n \in Nat,
         NEW key, NEW d, d = Decrypted(s, m, key)
  PROVE  /\ d.ok => m.key \notin used /\ Sound(d.state, used \cup {m.key})
         /\ ~d.ok => Sound(d.state, used)
<1> DEFINE n == m.header.n
<1>a. /\ DOMAIN s = Fields /\ s.ready = TRUE /\ s.nSend \in Nat /\ s.prev \in Nat
      /\ InStep(s.root, s.recv, s.nRecv, s.remote, s.skipped, used)
  BY DEF Sound
<1>t. PICK t : t = Turned(s, m, key)
  OBVIOUS
<1>j. PICK j : j = skip_to(t, t.remote, t.recv, n)
  OBVIOUS
<1>1. CASE Kept(s, m) # {}
  <2>1. PICK k : k = CHOOSE x \in Kept(s, m) : TRUE
    OBVIOUS
  <2>2. k \in s.skipped
    BY <1>1, <2>1 DEF Kept
  <2>3. d = [state |-> TakeKept(s, k), ok |-> open(k.mk, m), turned |-> FALSE]
    BY <1>1, <2>1 DEF Decrypted
  <2>4. PICK v : v = [s EXCEPT !.skipped = @ \ {k}]
    OBVIOUS
  <2>5. /\ DOMAIN v = Fields /\ v.ready = s.ready /\ v.root = s.root /\ v.recv = s.recv
        /\ v.remote = s.remote /\ v.nSend = s.nSend /\ v.prev = s.prev /\ v.nRecv = s.nRecv
        /\ v.skipped = s.skipped \ {k}
    BY <1>a, <2>4 DEF Fields
  <2>6. d.state = v /\ (d.ok <=> m.key = k.mk)
    <3>1. TakeKept(s, k) = v
      BY <2>4 DEF TakeKept
    <3>2. d.state = v /\ d.ok = (m.key = k.mk)
      BY <2>3, <3>1 DEF open
    <3> QED BY <3>2
  <2>7. /\ k.mk \notin used
        /\ InStep(s.root, s.recv, s.nRecv, s.remote, s.skipped \ {k}, used)
        /\ InStep(s.root, s.recv, s.nRecv, s.remote, s.skipped \ {k}, used \cup {k.mk})
    BY <1>a, <2>2, TakeInStep
  <2>8. Sound(v, used) /\ Sound(v, used \cup {k.mk})
    BY <1>a, <2>5, <2>7 DEF Sound
  <2> QED BY <2>6, <2>7, <2>8
<1>2. CASE Kept(s, m) = {} /\ OldChainTooFar(s, m)
  <2>1. d = [state |-> s, ok |-> FALSE, turned |-> FALSE]
    BY <1>2 DEF Decrypted
  <2> QED BY <2>1
<1>3. CASE Kept(s, m) = {} /\ ~OldChainTooFar(s, m) /\ TooFar(t, n)
  <2>1. d.state = t /\ d.ok = FALSE
    BY <1>3, <1>t DEF Decrypted
  <2> QED BY <1>3, <1>t, <2>1, TurnedSound
<1>4. CASE Kept(s, m) = {} /\ ~OldChainTooFar(s, m) /\ ~TooFar(t, n)
  <2>1. Sound(t, used)
    BY <1>4, <1>t, TurnedSound
  <2>2. /\ DOMAIN t = Fields /\ t.ready = TRUE /\ t.nSend \in Nat /\ t.prev \in Nat
        /\ InStep(t.root, t.recv, t.nRecv, t.remote, t.skipped, used)
    BY <2>1 DEF Sound
  <2>3. t.nRecv \in Nat /\ t.nRecv <= n
    <3>1. t.nRecv \in Nat
      BY <2>2 DEF InStep
    <3>2. ~(n < t.nRecv)
      BY <1>4 DEF TooFar
    <3> QED BY <3>1, <3>2
  <2>4. PICK c : c = Ahead(t.recv, n - t.nRecv)
    OBVIOUS
  <2>5. PICK more : more = insert(t.skipped, Jumped(t.recv, t.nRecv, t.remote, n))
    OBVIOUS
  <2>6. InStep(t.root, c, n, t.remote, more, used)
    <3>1. InStep(t.root, c, n, t.remote, t.skipped \cup Jumped(t.recv, t.nRecv, t.remote, n), used)
      BY <2>2, <2>3, <2>4, JumpInStep
    <3> QED BY <2>5, <3>1, InsertInStep
  <2>7. /\ kdf_ck_mk(c) \notin used
        /\ InStep(t.root, kdf_ck_next(c), n + 1, t.remote, more, used \cup {kdf_ck_mk(c)})
    BY <2>6, NextInStep
  <2>8. j.chain = c
    BY <1>j, <2>4 DEF skip_to
  <2>9. PICK u : u = j.state
    OBVIOUS
  <2>10. /\ DOMAIN u = Fields /\ u.ready = t.ready /\ u.root = t.root /\ u.remote = t.remote
         /\ u.nSend = t.nSend /\ u.prev = t.prev /\ u.skipped = more
    BY <1>j, <2>2, <2>5, <2>9, SkipFields
  <2>11. PICK v : v = [u EXCEPT !.recv = kdf_ck_next(c), !.nRecv = n + 1]
    OBVIOUS
  <2>12. /\ DOMAIN v = Fields /\ v.ready = t.ready /\ v.root = t.root /\ v.remote = t.remote
         /\ v.nSend = t.nSend /\ v.prev = t.prev /\ v.skipped = more
         /\ v.recv = kdf_ck_next(c) /\ v.nRecv = n + 1
    BY <2>10, <2>11 DEF Fields
  <2>13. d.state = v /\ (d.ok <=> m.key = kdf_ck_mk(c))
    BY <1>4, <1>t, <1>j, <2>8, <2>9, <2>11 DEF Decrypted, open
  <2>14. Sound(v, used \cup {kdf_ck_mk(c)})
    BY <2>2, <2>7, <2>12 DEF Sound
  <2>15. Sound(v, used)
    BY <2>14, FewerUsed
  <2> QED BY <2>7, <2>13, <2>14, <2>15
<1> QED BY <1>1, <1>2, <1>3, <1>4

(***************************************************************************)
(* The agreement starts both ratchets with nothing received or used.       *)
(***************************************************************************)
LEMMA InitialSound ==
  ASSUME NEW ikm, NEW remote, NEW s, s = init_initiator(derive_sk(ikm), remote)
  PROVE  Sound(s, {})
<1>1. PICK r : r = <<ikm>>
  OBVIOUS
<1>2. IsSeq(r) /\ Len(r) = 1
  BY <1>1 DEF IsSeq
<1>3. /\ DOMAIN s = Fields /\ s.ready = TRUE /\ s.nSend = 0 /\ s.prev = 0 /\ s.nRecv = 0
      /\ s.root = r /\ s.recv = NoChain /\ s.skipped = {}
  BY <1>1 DEF init_initiator, derive_sk, Fields
<1>4. /\ NoChain = [root |-> NoChain.root, step |-> 0]
      /\ Len(NoChain.root) = 0
  BY DEF NoChain
<1>5. InStep(r, NoChain, 0, s.remote, {}, {})
  BY <1>2, <1>4 DEF InStep
<1> QED BY <1>3, <1>5 DEF Sound

LEMMA ResponderSound ==
  ASSUME NEW ikm, NEW spk, NEW t, t = init_responder(derive_sk(ikm), spk)
  PROVE  Sound(t, {})
<1>1. PICK s : s = init_initiator(derive_sk(ikm), NoKey)
  OBVIOUS
<1>2. Sound(s, {})
  BY <1>1, InitialSound
<1>3. t = [s EXCEPT !.self = spk]
  BY <1>1 DEF init_responder
<1>4. DOMAIN s = Fields
  BY <1>2 DEF Sound
<1>5. /\ DOMAIN t = Fields /\ t.ready = s.ready /\ t.nSend = s.nSend /\ t.prev = s.prev
      /\ t.nRecv = s.nRecv /\ t.root = s.root /\ t.recv = s.recv /\ t.remote = s.remote
      /\ t.skipped = s.skipped
  BY <1>3, <1>4 DEF Fields
<1> QED BY <1>2, <1>5 DEF Sound

(***************************************************************************)
(* The steps of the specification.                                         *)
(***************************************************************************)
\* One side's ratchet is replaced; nothing is opened.
LEMMA OneRatchet ==
  ASSUME Ratchets, NEW p \in Sides, NEW t, Sound(t, UsedKeys(p)),
         ratchet' = [ratchet EXCEPT ![p] = t], opened' = opened
  PROVE  Ratchets'
<1>1. \A q \in Sides : UsedKeys(q)' = UsedKeys(q)
  BY DEF UsedKeys
<1>2. ratchet' = [q \in Sides |-> ratchet'[q]]
  BY DEF Ratchets
<1>3. \A q \in Sides : ratchet'[q] = IF q = p THEN t ELSE ratchet[q]
  BY DEF Ratchets
<1> QED BY <1>1, <1>2, <1>3 DEF Ratchets

LEMMA NotReady ==
  ASSUME Ratchets, NEW p \in Sides, ~ratchet[p].ready
  PROVE  UsedKeys(p) = {}
BY DEF Ratchets, Sound

LEMMA Ready ==
  ASSUME Ratchets, NEW p \in Sides, ratchet[p].ready
  PROVE  Sound(ratchet[p], UsedKeys(p))
BY DEF Ratchets, NoRatchet

LEMMA E2eeInitInv == E2eeInit => E2eeInv
BY DEF E2eeInit, E2eeInv, Ratchets, SentTypes, OpenedOnce, UsedKeys

LEMMA InitiateInv ==
  ASSUME E2eeInv, NEW b, initiate(b)
  PROVE  E2eeInv'
<1>1. PICK sk, remote, ikm :
        /\ ratchet' = [ratchet EXCEPT !["initiator"] = init_initiator(sk, remote)]
        /\ sk = derive_sk(ikm)
  BY DEF initiate
<1>2. /\ ~ratchet["initiator"].ready
      /\ opened' = opened /\ sent' = sent /\ openedAgain' = openedAgain
  BY DEF initiate
<1>3. "initiator" \in Sides
  BY DEF Sides
<1>4. PICK t : t = init_initiator(sk, remote)
  OBVIOUS
<1>5. Sound(t, UsedKeys("initiator"))
  <2>1. UsedKeys("initiator") = {}
    BY <1>2, <1>3, NotReady DEF E2eeInv
  <2>2. t = init_initiator(derive_sk(ikm), remote)
    BY <1>1, <1>4
  <2> QED BY <2>1, <2>2, InitialSound
<1>6. Ratchets'
  BY <1>1, <1>2, <1>3, <1>4, <1>5, OneRatchet DEF E2eeInv
<1> QED BY <1>2, <1>6 DEF E2eeInv, SentTypes, OpenedOnce

LEMMA RespondInv ==
  ASSUME E2eeInv, NEW opk, respond(opk)
  PROVE  E2eeInv'
<1>1. PICK sk, spk, ikm :
        /\ ratchet' = [ratchet EXCEPT !["responder"] = init_responder(sk, spk)]
        /\ sk = derive_sk(ikm)
  BY DEF respond
<1>2. /\ ~ratchet["responder"].ready
      /\ opened' = opened /\ sent' = sent /\ openedAgain' = openedAgain
  BY DEF respond
<1>3. "responder" \in Sides
  BY DEF Sides
<1>4. PICK t : t = init_responder(sk, spk)
  OBVIOUS
<1>5. Sound(t, UsedKeys("responder"))
  <2>1. UsedKeys("responder") = {}
    BY <1>2, <1>3, NotReady DEF E2eeInv
  <2>2. t = init_responder(derive_sk(ikm), spk)
    BY <1>1, <1>4
  <2> QED BY <2>1, <2>2, ResponderSound
<1>6. Ratchets'
  BY <1>1, <1>2, <1>3, <1>4, <1>5, OneRatchet DEF E2eeInv
<1> QED BY <1>2, <1>6 DEF E2eeInv, SentTypes, OpenedOnce

\* The sending half of a sound ratchet stays clear of the receiving half.
LEMMA SendSound ==
  ASSUME NEW s, NEW used, Sound(s, used), NEW key, NEW t, t = NewSendChain(s, key)
  PROVE  Sound(t, used)
<1>1. PICK x : x = DH(key, s.remote)
  OBVIOUS
<1>2. DOMAIN s = Fields
  BY DEF Sound
<1>3. /\ DOMAIN t = Fields /\ t.root = Append(s.root, x)
      /\ t.ready = s.ready /\ t.recv = s.recv /\ t.nRecv = s.nRecv /\ t.remote = s.remote
      /\ t.skipped = s.skipped /\ t.nSend = 0 /\ t.prev = s.nSend
  BY <1>1, <1>2, SendChainFields
<1>4. InStep(s.root, s.recv, s.nRecv, s.remote, s.skipped, used)
  BY DEF Sound
<1>5. InStep(Append(s.root, x), s.recv, s.nRecv, s.remote, s.skipped, used)
  BY <1>4, SendInStep
<1> QED BY <1>3, <1>5 DEF Sound

LEMMA EncryptInv ==
  ASSUME E2eeInv, NEW p \in Sides, encrypt(p)
  PROVE  E2eeInv'
<1> DEFINE key == RatchetKey(p, pairs[p] + 1)
<1>1. PICK s : s = IF ratchet[p].send = NoChain THEN dh_ratchet_send_side(ratchet[p], key)
                   ELSE ratchet[p]
  OBVIOUS
<1>2. /\ ratchet[p].ready
      /\ sent' = sent \cup {sealed_message(p, kdf_ck_mk(s.send),
                                [dh |-> s.self, prev |-> s.prev, n |-> s.nSend])}
      /\ ratchet' = [ratchet EXCEPT ![p] = [s EXCEPT !.send = kdf_ck_next(@), !.nSend = @ + 1]]
      /\ opened' = opened /\ openedAgain' = openedAgain
  BY <1>1 DEF encrypt
<1>3. Sound(ratchet[p], UsedKeys(p))
  BY <1>2, Ready DEF E2eeInv
<1>4. Sound(s, UsedKeys(p))
  <2>1. CASE ratchet[p].send = NoChain
    BY <1>1, <1>3, <2>1, SendSound DEF dh_ratchet_send_side
  <2>2. CASE ratchet[p].send # NoChain
    BY <1>1, <1>3, <2>2
  <2> QED BY <2>1, <2>2
<1>5. PICK t : t = [s EXCEPT !.send = kdf_ck_next(@), !.nSend = @ + 1]
  OBVIOUS
<1>6. DOMAIN s = Fields /\ s.nSend \in Nat /\ s.prev \in Nat
  BY <1>4 DEF Sound
<1>7. /\ DOMAIN t = Fields /\ t.ready = s.ready /\ t.nSend = s.nSend + 1 /\ t.prev = s.prev
      /\ t.nRecv = s.nRecv /\ t.root = s.root /\ t.recv = s.recv /\ t.remote = s.remote
      /\ t.skipped = s.skipped
  BY <1>5, <1>6 DEF Fields
<1>8. Sound(t, UsedKeys(p))
  BY <1>4, <1>6, <1>7 DEF Sound
<1>9. Ratchets'
  BY <1>2, <1>5, <1>8, OneRatchet DEF E2eeInv
<1>10. SentTypes'
  BY <1>2, <1>6 DEF E2eeInv, SentTypes, sealed_message
<1> QED BY <1>2, <1>9, <1>10 DEF E2eeInv, OpenedOnce

LEMMA DecryptInv ==
  ASSUME E2eeInv, NEW p \in Sides, NEW m \in sent, decrypt(p, m)
  PROVE  E2eeInv'
<1>1. PICK key : key = RatchetKey(p, pairs[p] + 1)
  OBVIOUS
<1>2. PICK d : d = Decrypted(ratchet[p], m, key)
  OBVIOUS
<1>3. /\ ratchet[p].ready /\ m.from = Peer(p) /\ sent' = sent
      /\ ratchet' = [ratchet EXCEPT ![p] = d.state]
      /\ opened' = IF d.ok THEN opened \cup {m} ELSE opened
      /\ openedAgain' = IF d.ok /\ m \in opened THEN openedAgain \cup {m} ELSE openedAgain
  BY <1>1, <1>2 DEF decrypt
<1>4. PICK s, used : s = ratchet[p] /\ used = UsedKeys(p)
  OBVIOUS
<1>5. Sound(s, used) /\ m.header.prev \in Nat /\ m.header.n \in Nat
  BY <1>3, <1>4, Ready DEF E2eeInv, SentTypes
<1>6. d = Decrypted(s, m, key)
  BY <1>2, <1>4
<1>7. /\ d.ok => m.key \notin used /\ Sound(d.state, used \cup {m.key})
      /\ ~d.ok => Sound(d.state, used)
  BY <1>5, <1>6, DecryptedSound
<1>8. CASE ~d.ok
  <2>1. PICK t : t = d.state
    OBVIOUS
  <2>2. opened' = opened /\ openedAgain' = openedAgain
    BY <1>3, <1>8
  <2>3. Sound(t, UsedKeys(p)) /\ ratchet' = [ratchet EXCEPT ![p] = t]
    BY <1>3, <1>4, <1>7, <1>8, <2>1
  <2>4. Ratchets'
    BY <2>2, <2>3, OneRatchet DEF E2eeInv
  <2> QED BY <1>3, <2>2, <2>4 DEF E2eeInv, SentTypes, OpenedOnce
<1>9. CASE d.ok
  <2>1. m \notin opened
    BY <1>3, <1>4, <1>7, <1>9 DEF UsedKeys
  <2>2. opened' = opened \cup {m} /\ openedAgain' = openedAgain
    BY <1>3, <1>9, <2>1
  <2>3. UsedKeys(p)' = UsedKeys(p) \cup {m.key}
    BY <1>3, <2>2 DEF UsedKeys
  <2>4. ASSUME NEW q \in Sides, q # p PROVE UsedKeys(q)' = UsedKeys(q)
    <3>1. m.from # Peer(q)
      BY <1>3, <2>4, PeerIsOther
    <3> QED BY <2>2, <3>1 DEF UsedKeys
  <2>5. ratchet' = [q \in Sides |-> ratchet'[q]]
    BY <1>3 DEF E2eeInv, Ratchets
  <2>6. \A q \in Sides : ratchet'[q] = IF q = p THEN d.state ELSE ratchet[q]
    BY <1>3 DEF E2eeInv, Ratchets
  <2>7. Sound(ratchet'[p], UsedKeys(p)')
    BY <1>4, <1>7, <1>9, <2>3, <2>6
  <2>8. Ratchets'
    BY <2>4, <2>5, <2>6, <2>7 DEF E2eeInv, Ratchets
  <2> QED BY <1>3, <2>2, <2>8 DEF E2eeInv, SentTypes, OpenedOnce
<1> QED BY <1>8, <1>9

LEMMA E2eeStep == E2eeInv /\ [E2eeNext]_e2eeVars => E2eeInv'
<1> SUFFICES ASSUME E2eeInv, [E2eeNext]_e2eeVars
             PROVE  E2eeInv'
  OBVIOUS
<1>1. ASSUME UNCHANGED <<ratchet, sent, opened, openedAgain>> PROVE E2eeInv'
  BY <1>1 DEF E2eeInv, Ratchets, SentTypes, OpenedOnce, UsedKeys
<1>2. CASE \E b \in PreKeyBundles : initiate(b)
  BY <1>2, InitiateInv
<1>3. CASE \E opk \in {<< >>} \cup {<<k>> : k \in prekeys.opks} : respond(opk)
  BY <1>3, RespondInv
<1>4. CASE RotateSpk
  BY <1>1, <1>4 DEF RotateSpk
<1>5. ASSUME NEW p \in Sides, encrypt(p) PROVE E2eeInv'
  BY <1>5, EncryptInv
<1>6. ASSUME NEW p \in Sides, EncryptPanics(p) PROVE E2eeInv'
  BY <1>1, <1>6 DEF EncryptPanics
<1>7. ASSUME NEW p \in Sides, NEW m \in sent, decrypt(p, m) PROVE E2eeInv'
  BY <1>7, DecryptInv
<1>8. CASE UNCHANGED e2eeVars
  BY <1>1, <1>8 DEF e2eeVars
<1> QED BY <1>2, <1>3, <1>4, <1>5, <1>6, <1>7, <1>8 DEF E2eeNext

(***************************************************************************)
(* A message the network repeats is never decrypted a second time: a key   *)
(* that opened a message is behind the receiving chain and in no kept      *)
(* place, on this chain and on every later one (ratchet.rs decrypt).       *)
(***************************************************************************)
THEOREM DecryptedOnce == E2eeSpec => []OpenedOnce
<1>1. E2eeInv => OpenedOnce
  BY DEF E2eeInv
<1> QED BY E2eeInitInv, E2eeStep, <1>1, PTL DEF E2eeSpec

-----------------------------------------------------------------------------
(***************************************************************************)
(* The two ratchets turn in step. n is the number of pairs a side has      *)
(* generated; the initiator generates its first before it has received     *)
(* anything, every other pair belongs to a turn.                           *)
(***************************************************************************)
FirstSelf(p) == IF p = "initiator" THEN NoKey ELSE SPK(1)
FirstRemote(p) == IF p = "initiator" THEN SPK(1) ELSE NoKey
Turns(p, n) == IF p = "initiator" /\ n > 0 THEN n - 1 ELSE n

Lockstep(prs) ==
  /\ prs \in [Sides -> Nat]
  /\ prs["responder"] <= prs["initiator"] /\ prs["initiator"] <= prs["responder"] + 1

\* What p, with n pairs, knows of itself and of its peer.
Own(p, s, n) ==
  /\ s.self = IF n = 0 THEN FirstSelf(p) ELSE RatchetKey(p, n)
  /\ s.remote = IF Turns(p, n) = 0 THEN FirstRemote(p) ELSE RatchetKey(Peer(p), Turns(p, n))
  /\ s.send = [root |-> s.send.root, step |-> s.nSend]
  /\ n = 0 => s.send = NoChain
  /\ n > 0 => s.send.root = s.root /\ s.root # << >>
  /\ Turns(p, n) = 0 => s.recv = NoChain
  /\ Turns(p, n) > 0 => s.recv.root # << >>

IndexOf(m) == m.header.dh[3]
Past(m, r, c) == IndexOf(m) < r \/ (IndexOf(m) = r /\ m.header.n < c)
Fits(k, m) == k.dh = m.header.dh /\ k.n = m.header.n

(***************************************************************************)
(* The receiving half of p after r turns against what its peer has sent:   *)
(* what the chain has passed was opened or its key is kept, the rest was   *)
(* not, and the keys it has and will have are those of the messages.       *)
(***************************************************************************)
Hears(p, s, r, ms, op) ==
  /\ s.nRecv \in Nat
  /\ \A k \in s.skipped :
       /\ k.n \in Nat /\ k.dh[3] \in 1..r /\ k.dh = RatchetKey(Peer(p), k.dh[3])
       /\ k.dh[3] = r => k.n < s.nRecv
       /\ \A m \in ms : m.from = Peer(p) /\ Fits(k, m) => k.mk = m.key
  /\ \A m \in ms : m.from = Peer(p) /\ Past(m, r, s.nRecv) =>
       m \in op \/ \E k \in s.skipped : Fits(k, m)
  /\ \A m \in op : m.from = Peer(p) => Past(m, r, s.nRecv)
  /\ \A m \in ms : m.from = Peer(p) /\ IndexOf(m) = r =>
       m.key = kdf_ck_mk([root |-> s.recv.root, step |-> m.header.n])
  /\ r > 0 => \E m \in ms : m.from = Peer(p) /\ IndexOf(m) = r
  /\ s.nRecv > 0 => \E m \in ms :
       m.from = Peer(p) /\ IndexOf(m) = r /\ m.header.n + 1 = s.nRecv

\* The sending half of p with n pairs against what it has sent.
Says(p, s, n, ms) ==
  \A m \in ms : m.from = p =>
    /\ IndexOf(m) \in 1..n /\ m.header.dh = RatchetKey(p, IndexOf(m))
    /\ m.header.n \in Nat /\ m.header.prev \in Nat
    /\ IndexOf(m) = n =>
         /\ m.header.n < s.nSend /\ m.header.prev = s.prev
         /\ m.key = kdf_ck_mk([root |-> s.send.root, step |-> m.header.n])
    /\ IndexOf(m) + 1 = n => m.header.n < s.prev

OneEach(ms) ==
  \A l, m \in ms : l.from = m.from /\ l.header.dh = m.header.dh /\ l.header.n = m.header.n => l = m

\* A ratchet s after r turns against its peer's ratchet t with n pairs: they
\* are on the same chain, or will be after the turn that s has before it.
Meets(s, r, t, n) ==
  /\ n = r /\ n > 0 => t.send.root = s.recv.root
  /\ n = r + 1 => t.root = Append(s.root, DH(s.self, t.self))

Secret(opk) ==
  derive_sk(<<DH(IK("initiator"), SPK(1)), DH(EK, IK("responder")), DH(EK, SPK(1))>>
            \o [i \in DOMAIN opk |-> DH(EK, OPK(opk[i]))])

\* Until the responder has answered: the initiator is at the shared secret, or
\* one step past it.
Waiting(i, n, ini, ms, op) ==
  /\ i.ready
  /\ \A m \in ms : m.from = "initiator"
  /\ \A m \in op : m.from = "responder"
  /\ \E opk \in {<< >>, <<1>>} :
       /\ ini = EncodeInitiation(IK("initiator"), EK, 1, opk)
       /\ i.root = IF n = 0 THEN Secret(opk) ELSE Append(Secret(opk), DH(SPK(1), i.self))

Agreement(rat, prs, ini, ms, op) ==
  \/ /\ ~rat["initiator"].ready /\ ~rat["responder"].ready
     /\ ini = NoInitiation /\ ms = {} /\ op = {}
     /\ prs["initiator"] = 0 /\ prs["responder"] = 0
  \/ /\ ~rat["responder"].ready /\ prs["responder"] = 0
     /\ Waiting(rat["initiator"], prs["initiator"], ini, ms, op)
  \/ /\ rat["responder"].ready /\ rat["initiator"].ready
     /\ prs["initiator"] = 0 => rat["initiator"].root = rat["responder"].root
     /\ \A p \in Sides : Meets(rat[p], Turns(p, prs[p]), rat[Peer(p)], prs[Peer(p)])

InTouch(rat, prs, ini, ms, op) ==
  /\ Lockstep(prs) /\ Agreement(rat, prs, ini, ms, op) /\ OneEach(ms) /\ op \subseteq ms
  /\ \A p \in Sides : rat[p].ready =>
       /\ Own(p, rat[p], prs[p])
       /\ Hears(p, rat[p], Turns(p, prs[p]), ms, op)
       /\ Says(p, rat[p], prs[p], ms)

\* As long as no message was repeated after its chain had ended.
TouchInv ==
  /\ opened \subseteq arrived
  /\ replayed \in BOOLEAN
  /\ ~replayed => InTouch(ratchet, pairs, initiation, sent, opened)

LEMMA PeerIs == Peer("initiator") = "responder" /\ Peer("responder") = "initiator"
<1>1. \A p \in Sides : \E q \in Sides : q # p
  BY DEF Sides
<1>2. \A p \in Sides : Peer(p) \in Sides /\ Peer(p) # p
  BY <1>1 DEF Peer
<1> QED BY <1>2 DEF Sides

\* What is sent and heard after r turns: numbers are numbers, and a chain goes
\* by the peer's key.
Readable(p, ms) ==
  \A m \in ms : m.from = Peer(p) =>
    /\ IndexOf(m) \in Nat /\ m.header.dh = RatchetKey(Peer(p), IndexOf(m))
    /\ m.header.n \in Nat /\ m.header.prev \in Nat

\* What a jump on the present chain keeps.
KeyAt(s, i) ==
  [dh |-> s.remote, n |-> i, mk |-> kdf_ck_mk([root |-> s.recv.root, step |-> i])]

LEMMA JumpKeys ==
  ASSUME NEW s, s.nRecv \in Nat, s.recv = [root |-> s.recv.root, step |-> s.nRecv], NEW until
  PROVE  /\ Jumped(s.recv, s.nRecv, s.remote, until) = {KeyAt(s, i) : i \in s.nRecv .. until - 1}
         /\ until \in Nat => Ahead(s.recv, until - s.nRecv) = [root |-> s.recv.root, step |-> until]
<1>1. \A n \in Int : Ahead(s.recv, n - s.nRecv) = [root |-> s.recv.root, step |-> n]
  <2> SUFFICES ASSUME NEW n \in Int
               PROVE  Ahead(s.recv, n - s.nRecv) = [root |-> s.recv.root, step |-> n]
    OBVIOUS
  <2>1. s.recv.step = s.nRecv /\ DOMAIN s.recv = {"root", "step"}
    OBVIOUS
  <2>2. Ahead(s.recv, n - s.nRecv) = [root |-> s.recv.root, step |-> s.recv.step + (n - s.nRecv)]
    BY <2>1 DEF Ahead
  <2>3. s.recv.step + (n - s.nRecv) = n
    BY <2>1
  <2> QED BY <2>2, <2>3
<1>2. \A n \in s.nRecv .. until - 1 :
        [dh |-> s.remote, n |-> n, mk |-> kdf_ck_mk(Ahead(s.recv, n - s.nRecv))] = KeyAt(s, n)
  <2>1. \A n \in s.nRecv .. until - 1 : n \in Int
    OBVIOUS
  <2> QED BY <1>1, <2>1 DEF KeyAt
<1>3. \A n \in Nat : n \in Int
  OBVIOUS
<1> QED BY <1>1, <1>2, <1>3 DEF Jumped

\* A kept key opens its message and is gone.
LEMMA HearsTake ==
  ASSUME NEW p, NEW r \in Nat, NEW ms, NEW op, NEW s, Hears(p, s, r, ms, op),
         OneEach(ms), Readable(p, ms),
         NEW m \in ms, m.from = Peer(p), NEW k \in s.skipped, Fits(k, m),
         NEW v, v.nRecv = s.nRecv, v.recv = s.recv, v.skipped = s.skipped \ {k}
  PROVE  m.key = k.mk /\ Hears(p, v, r, ms, op \cup {m})
<1>1. /\ m.key = k.mk /\ k.n \in Nat /\ k.dh[3] \in 1..r
      /\ k.dh[3] = r => k.n < s.nRecv
      /\ IndexOf(m) = k.dh[3] /\ m.header.n = k.n /\ s.nRecv \in Nat
  BY DEF Hears, Fits, IndexOf
<1>2. Past(m, r, s.nRecv)
  BY <1>1 DEF Past
<1>3. \A l \in op \cup {m} : l.from = Peer(p) => Past(l, r, s.nRecv)
  BY <1>2 DEF Hears
<1>4. ASSUME NEW l \in ms, l.from = Peer(p), Past(l, r, s.nRecv)
      PROVE  l \in op \cup {m} \/ \E i \in v.skipped : Fits(i, l)
  <2>1. l \in op \/ \E i \in s.skipped : Fits(i, l)
    BY <1>4 DEF Hears
  <2>2. Fits(k, l) => l = m
    BY <1>4 DEF Fits, OneEach
  <2> QED BY <2>1, <2>2
<1>5. v.nRecv \in Nat /\ v.skipped \subseteq s.skipped
  BY <1>1
<1> QED BY <1>1, <1>3, <1>4, <1>5 DEF Hears

\* The chain jumps to a message and its key opens it.
LEMMA HearsAdvance ==
  ASSUME NEW p, NEW r \in Nat \ {0}, NEW ms, NEW op, NEW s, Hears(p, s, r, ms, op),
         OneEach(ms), Readable(p, ms), op \subseteq ms, s.remote = RatchetKey(Peer(p), r),
         NEW m \in ms, m.from = Peer(p), IndexOf(m) = r, s.nRecv <= m.header.n,
         NEW v, v.nRecv = m.header.n + 1, v.recv.root = s.recv.root,
         v.skipped = s.skipped \cup {KeyAt(s, i) : i \in s.nRecv .. m.header.n - 1}
  PROVE  /\ m.key = kdf_ck_mk([root |-> s.recv.root, step |-> m.header.n])
         /\ Hears(p, v, r, ms, op \cup {m})
<1>1. /\ m.header.n \in Nat /\ s.nRecv \in Nat
      /\ m.key = kdf_ck_mk([root |-> s.recv.root, step |-> m.header.n])
  BY DEF Hears, Readable
<1>2. ASSUME NEW k \in v.skipped
      PROVE  /\ k.n \in Nat /\ k.dh[3] \in 1..r /\ k.dh = RatchetKey(Peer(p), k.dh[3])
             /\ k.dh[3] = r => k.n < v.nRecv
             /\ \A l \in ms : l.from = Peer(p) /\ Fits(k, l) => k.mk = l.key
  <2>1. CASE k \in s.skipped
    <3>1. s.nRecv <= v.nRecv
      BY <1>1
    <3> QED BY <2>1, <3>1, <1>1 DEF Hears
  <2>2. ASSUME NEW i \in s.nRecv .. m.header.n - 1, k = KeyAt(s, i)
        PROVE  /\ k.n \in Nat /\ k.dh[3] \in 1..r /\ k.dh = RatchetKey(Peer(p), k.dh[3])
               /\ k.dh[3] = r => k.n < v.nRecv
               /\ \A l \in ms : l.from = Peer(p) /\ Fits(k, l) => k.mk = l.key
    <3>1. k.dh = RatchetKey(Peer(p), r) /\ k.dh[3] = r /\ k.n = i
          /\ k.mk = kdf_ck_mk([root |-> s.recv.root, step |-> i])
      BY <2>2 DEF KeyAt, RatchetKey
    <3>2. i \in Nat /\ i < v.nRecv
      BY <1>1
    <3>3. ASSUME NEW l \in ms, l.from = Peer(p), Fits(k, l) PROVE k.mk = l.key
      <4>1. IndexOf(l) = r /\ l.header.n = i
        BY <3>1, <3>3 DEF Fits, IndexOf
      <4> QED BY <3>1, <3>3, <4>1 DEF Hears
    <3> QED BY <3>1, <3>2, <3>3
  <2> QED BY <2>1, <2>2
<1>3. ASSUME NEW l \in ms, l.from = Peer(p), Past(l, r, v.nRecv)
      PROVE  l \in op \cup {m} \/ \E k \in v.skipped : Fits(k, l)
  <2>1. CASE Past(l, r, s.nRecv)
    BY <1>3, <2>1 DEF Hears
  <2>2. CASE ~Past(l, r, s.nRecv)
    <3>1. IndexOf(l) = r /\ l.header.n \in Nat /\ l.header.dh = RatchetKey(Peer(p), r)
          /\ s.nRecv <= l.header.n /\ l.header.n <= m.header.n
      BY <1>1, <1>3, <2>2 DEF Past, Readable
    <3>2. CASE l.header.n = m.header.n
      <4>1. m.header.dh = RatchetKey(Peer(p), r)
        BY DEF Readable
      <4> QED BY <1>3, <3>1, <3>2, <4>1 DEF OneEach
    <3>3. CASE l.header.n # m.header.n
      <4>1. l.header.n \in s.nRecv .. m.header.n - 1
        BY <1>1, <3>1, <3>3
      <4>2. Fits(KeyAt(s, l.header.n), l)
        BY <3>1 DEF KeyAt, Fits
      <4> QED BY <4>1, <4>2
    <3> QED BY <3>2, <3>3
  <2> QED BY <2>1, <2>2
<1>4. \A l \in op \cup {m} : l.from = Peer(p) => Past(l, r, v.nRecv)
  <2>1. ASSUME NEW l \in op, l.from = Peer(p) PROVE Past(l, r, v.nRecv)
    <3>1. Past(l, r, s.nRecv)
      BY <2>1 DEF Hears
    <3>2. l.header.n \in Nat
      BY <2>1 DEF Readable
    <3> QED BY <1>1, <3>1, <3>2 DEF Past
  <2>2. Past(m, r, v.nRecv)
    BY <1>1 DEF Past
  <2> QED BY <2>1, <2>2
<1>5. v.nRecv \in Nat /\ \E l \in ms : l.from = Peer(p) /\ IndexOf(l) = r /\ l.header.n + 1 = v.nRecv
  BY <1>1
<1>6. /\ \A l \in ms : l.from = Peer(p) /\ IndexOf(l) = r =>
           l.key = kdf_ck_mk([root |-> v.recv.root, step |-> l.header.n])
      /\ r > 0 => \E l \in ms : l.from = Peer(p) /\ IndexOf(l) = r
  BY DEF Hears
<1> QED BY <1>1, <1>2, <1>3, <1>4, <1>5, <1>6 DEF Hears

\* A turn: the rest of the chain of the last one is kept, the next begins.
LEMMA HearsTurn ==
  ASSUME NEW p, NEW r \in Nat, NEW ms, NEW op, NEW s, Hears(p, s, r, ms, op),
         Readable(p, ms), op \subseteq ms,
         r > 0 => s.remote = RatchetKey(Peer(p), r),
         NEW m \in ms, m.from = Peer(p), IndexOf(m) = r + 1,
         NEW until \in Nat, \A l \in ms : l.from = Peer(p) /\ IndexOf(l) = r => l.header.n < until,
         \A l \in ms : l.from = Peer(p) => IndexOf(l) >= 1,
         NEW v, v.nRecv = 0,
         \A l \in ms : l.from = Peer(p) /\ IndexOf(l) = r + 1 =>
           l.key = kdf_ck_mk([root |-> v.recv.root, step |-> l.header.n]),
         v.skipped = IF r = 0 THEN s.skipped
                     ELSE s.skipped \cup {KeyAt(s, i) : i \in s.nRecv .. until - 1}
  PROVE  Hears(p, v, r + 1, ms, op)
<1>1. s.nRecv \in Nat /\ r + 1 \in Nat
  BY DEF Hears
<1>2. ASSUME NEW k \in v.skipped
      PROVE  /\ k.n \in Nat /\ k.dh[3] \in 1..(r + 1) /\ k.dh = RatchetKey(Peer(p), k.dh[3])
             /\ k.dh[3] # r + 1
             /\ \A l \in ms : l.from = Peer(p) /\ Fits(k, l) => k.mk = l.key
  <2>1. CASE k \in s.skipped
    <3>1. k.dh[3] \in 1..r => k.dh[3] \in 1..(r + 1) /\ k.dh[3] # r + 1
      OBVIOUS
    <3> QED BY <2>1, <3>1 DEF Hears
  <2>2. ASSUME NEW i \in s.nRecv .. until - 1, r # 0, k = KeyAt(s, i)
        PROVE  /\ k.n \in Nat /\ k.dh[3] \in 1..(r + 1) /\ k.dh = RatchetKey(Peer(p), k.dh[3])
               /\ k.dh[3] # r + 1
               /\ \A l \in ms : l.from = Peer(p) /\ Fits(k, l) => k.mk = l.key
    <3>1. k.dh = RatchetKey(Peer(p), r) /\ k.dh[3] = r /\ k.n = i
          /\ k.mk = kdf_ck_mk([root |-> s.recv.root, step |-> i])
      BY <2>2 DEF KeyAt, RatchetKey
    <3>2. i \in Nat /\ r \in 1..(r + 1) /\ r # r + 1
      BY <1>1, <2>2
    <3>3. ASSUME NEW l \in ms, l.from = Peer(p), Fits(k, l) PROVE k.mk = l.key
      <4>1. IndexOf(l) = r /\ l.header.n = i
        BY <3>1, <3>3 DEF Fits, IndexOf
      <4> QED BY <3>1, <3>3, <4>1 DEF Hears
    <3> QED BY <3>1, <3>2, <3>3
  <2> QED BY <2>1, <2>2
<1>3. ASSUME NEW l \in ms, l.from = Peer(p), Past(l, r + 1, 0)
      PROVE  l \in op \/ \E k \in v.skipped : Fits(k, l)
  <2>1. /\ IndexOf(l) \in Nat /\ l.header.n \in Nat /\ IndexOf(l) >= 1
        /\ l.header.dh = RatchetKey(Peer(p), IndexOf(l))
    BY <1>3 DEF Readable
  <2>2. IndexOf(l) <= r
    BY <1>3, <2>1 DEF Past
  <2>3. CASE Past(l, r, s.nRecv)
    BY <1>3, <2>3 DEF Hears
  <2>4. CASE ~Past(l, r, s.nRecv)
    <3>1. IndexOf(l) = r /\ s.nRecv <= l.header.n /\ r # 0
      BY <1>1, <2>1, <2>2, <2>4 DEF Past
    <3>2. l.header.n \in s.nRecv .. until - 1
      BY <1>1, <1>3, <2>1, <3>1
    <3>3. Fits(KeyAt(s, l.header.n), l)
      BY <2>1, <3>1 DEF KeyAt, Fits
    <3> QED BY <3>1, <3>2, <3>3
  <2> QED BY <2>3, <2>4
<1>4. \A l \in op : l.from = Peer(p) => Past(l, r + 1, 0)
  <2>1. \A l \in op : l.from = Peer(p) => Past(l, r, s.nRecv) /\ IndexOf(l) \in Nat
    BY DEF Hears, Readable
  <2> QED BY <2>1 DEF Past
<1> QED BY <1>1, <1>2, <1>3, <1>4 DEF Hears

\* What only concerns the other direction.
LEMMA HearsOther ==
  ASSUME NEW p, NEW r, NEW ms, NEW op, NEW s, Hears(p, s, r, ms, op),
         NEW v, v.nRecv = s.nRecv, v.skipped = s.skipped, v.recv.root = s.recv.root,
         NEW more, NEW now, ms \subseteq more, op \subseteq now,
         \A m \in more : m.from = Peer(p) => m \in ms,
         \A m \in now : m.from = Peer(p) => m \in op
  PROVE  Hears(p, v, r, more, now)
BY DEF Hears

\* The peer sends the next message of the present chain or of the next.
LEMMA HearsMore ==
  ASSUME NEW p, NEW r \in Nat, NEW ms, NEW op, NEW s, Hears(p, s, r, ms, op), op \subseteq ms,
         NEW x, x.from = Peer(p), IndexOf(x) \in Nat, x.header.n \in Nat, x \notin ms,
         IndexOf(x) = r \/ IndexOf(x) = r + 1,
         \A m \in ms : m.from = Peer(p) /\ IndexOf(m) = IndexOf(x) =>
           m.header.n \in Nat /\ m.header.n < x.header.n,
         IndexOf(x) = r => x.key = kdf_ck_mk([root |-> s.recv.root, step |-> x.header.n])
  PROVE  Hears(p, s, r, ms \cup {x}, op)
<1>1. s.nRecv \in Nat
  BY DEF Hears
<1>2. ~Past(x, r, s.nRecv)
  <2>1. CASE s.nRecv = 0
    BY <2>1 DEF Past
  <2>2. ASSUME s.nRecv > 0, IndexOf(x) = r PROVE s.nRecv <= x.header.n
    <3>1. PICK m \in ms : m.from = Peer(p) /\ IndexOf(m) = r /\ m.header.n + 1 = s.nRecv
      BY <2>2 DEF Hears
    <3>2. m.header.n \in Nat /\ m.header.n < x.header.n
      BY <2>2, <3>1
    <3> QED BY <1>1, <3>1, <3>2
  <2>3. CASE IndexOf(x) = r + 1
    BY <2>3 DEF Past
  <2> QED BY <1>1, <2>1, <2>2, <2>3 DEF Past
<1>3. ASSUME NEW k \in s.skipped PROVE ~Fits(k, x)
  <2>1. k.dh[3] \in 1..r /\ (k.dh[3] = r => k.n < s.nRecv)
    BY DEF Hears
  <2>2. Fits(k, x) => IndexOf(x) = k.dh[3] /\ x.header.n = k.n
    BY DEF Fits, IndexOf
  <2> QED BY <2>1, <2>2, <1>2 DEF Past
<1> QED BY <1>2, <1>3 DEF Hears

(***************************************************************************)
(* What the turns and jumps of a ratchet leave in its fields.              *)
(***************************************************************************)
\* t is s after a turn to the peer key dh: root is the new receiving root.
IsTurn(s, m, dh, key, root, t) ==
  /\ DOMAIN t = Fields /\ t.ready = s.ready
  /\ t.root = Append(root, DH(key, dh)) /\ t.self = key /\ t.remote = dh
  /\ t.recv = [root |-> root, step |-> 0] /\ t.nRecv = 0
  /\ t.send = [root |-> t.root, step |-> 0] /\ t.nSend = 0 /\ t.prev = s.nSend
  /\ t.skipped = IF s.remote # NoKey /\ s.recv # NoChain
          THEN insert(s.skipped, Jumped(s.recv, s.nRecv, s.remote, m.header.prev))
          ELSE s.skipped

LEMMA TurnFields ==
  ASSUME NEW s, DOMAIN s = Fields, NEW m, NEW dh, dh = m.header.dh, dh # s.remote,
         NEW key, NEW t, t = Turned(s, m, key), NEW root, root = Append(s.root, DH(s.self, dh))
  PROVE  IsTurn(s, m, dh, key, root, t)
<1>1. PICK u : u = IF s.remote # NoKey /\ s.recv # NoChain
                   THEN skip_to(s, s.remote, s.recv, m.header.prev).state ELSE s
  OBVIOUS
<1>2. t = dh_ratchet_recv_side(u, dh, key)
  BY <1>1 DEF Turned
<1>3. /\ DOMAIN u = Fields /\ u.ready = s.ready /\ u.root = s.root /\ u.self = s.self
      /\ u.nSend = s.nSend
      /\ u.skipped = IF s.remote # NoKey /\ s.recv # NoChain
                     THEN insert(s.skipped, Jumped(s.recv, s.nRecv, s.remote, m.header.prev))
                     ELSE s.skipped
  <2>1. CASE s.remote # NoKey /\ s.recv # NoChain
    <3>1. PICK until : until = m.header.prev
      OBVIOUS
    <3>2. u = skip_to(s, s.remote, s.recv, until).state
      BY <1>1, <2>1, <3>1
    <3> QED BY <2>1, <3>1, <3>2, SkipFields
  <2>2. CASE ~(s.remote # NoKey /\ s.recv # NoChain)
    BY <1>1, <2>2
  <2> QED BY <2>1, <2>2
<1>4. kdf_rk(u.root, DH(u.self, dh)).rk = root
      /\ kdf_rk(u.root, DH(u.self, dh)).ck = [root |-> root, step |-> 0]
  BY <1>3 DEF kdf_rk
<1>5. PICK v : v = [u EXCEPT !.remote = dh, !.root = root,
                             !.recv = [root |-> root, step |-> 0], !.nRecv = 0]
  OBVIOUS
<1>6. /\ DOMAIN v = Fields /\ v.root = root /\ v.remote = dh
      /\ v.recv = [root |-> root, step |-> 0] /\ v.nRecv = 0
      /\ v.ready = u.ready /\ v.skipped = u.skipped /\ v.nSend = u.nSend
  BY <1>3, <1>5 DEF Fields
<1>7. t = NewSendChain(v, key)
  BY <1>2, <1>4, <1>5 DEF dh_ratchet_recv_side
<1>8. /\ DOMAIN t = Fields /\ t.root = Append(v.root, DH(key, v.remote))
      /\ t.ready = v.ready /\ t.recv = v.recv /\ t.nRecv = v.nRecv /\ t.remote = v.remote
      /\ t.skipped = v.skipped /\ t.nSend = 0 /\ t.prev = v.nSend
      /\ t.self = key /\ t.send = [root |-> t.root, step |-> 0]
  BY <1>6, <1>7, SendChainFields, SendChainBegins
<1> QED BY <1>3, <1>6, <1>8 DEF IsTurn

\* No key is kept for a number the present chain has yet to come to, so that
\* the keys of a jump take nobody's place.
NoneAhead(t) == \A k \in t.skipped : k.dh = t.remote => k.n \in Nat /\ k.n < t.nRecv

LEMMA NothingReplaced ==
  ASSUME NEW t, NoneAhead(t), t.nRecv \in Nat, NEW until
  PROVE  insert(t.skipped, Jumped(t.recv, t.nRecv, t.remote, until))
           = t.skipped \cup Jumped(t.recv, t.nRecv, t.remote, until)
<1>1. ASSUME NEW i \in Jumped(t.recv, t.nRecv, t.remote, until)
      PROVE  i.dh = t.remote /\ i.n \in t.nRecv .. until - 1
  BY <1>1 DEF Jumped
<1>2. ASSUME NEW k \in t.skipped, NEW i \in Jumped(t.recv, t.nRecv, t.remote, until)
      PROVE  i.dh # k.dh \/ i.n # k.n
  <2>1. i.dh = t.remote /\ i.n \in t.nRecv .. until - 1
    BY <1>1
  <2>2. k.dh = t.remote => k.n \in Nat /\ k.n < t.nRecv
    BY DEF NoneAhead
  <2> QED BY <2>1, <2>2
<1> QED BY <1>2 DEF insert

\* What a ratchet has heard has no key ahead.
LEMMA HeardNoneAhead ==
  ASSUME NEW p, NEW s, NEW r, NEW ms, NEW op, Hears(p, s, r, ms, op),
         s.remote = RatchetKey(Peer(p), r)
  PROVE  NoneAhead(s) /\ s.nRecv \in Nat
<1>1. ASSUME NEW k \in s.skipped, k.dh = s.remote PROVE k.n \in Nat /\ k.n < s.nRecv
  <2>1. k.n \in Nat /\ (k.dh[3] = r => k.n < s.nRecv)
    BY DEF Hears
  <2>2. k.dh[3] = r
    BY <1>1 DEF RatchetKey
  <2> QED BY <2>1, <2>2
<1> QED BY <1>1 DEF NoneAhead, Hears

\* The state after the message until of the present chain, and the key it
\* was opened with.
AfterJump(t, until) ==
  [skip_to(t, t.remote, t.recv, until).state EXCEPT
      !.recv = kdf_ck_next(skip_to(t, t.remote, t.recv, until).chain), !.nRecv = until + 1]
Stepping(t) == t.nRecv \in Nat /\ t.recv = [root |-> t.recv.root, step |-> t.nRecv]
KeyOfJump(t, until) == kdf_ck_mk(skip_to(t, t.remote, t.recv, until).chain)

LEMMA JumpFields ==
  ASSUME NEW t, DOMAIN t = Fields, Stepping(t), NoneAhead(t), NEW until \in Nat,
         NEW v, v = AfterJump(t, until)
  PROVE  /\ KeyOfJump(t, until) = kdf_ck_mk([root |-> t.recv.root, step |-> until])
         /\ v.ready = t.ready /\ v.root = t.root /\ v.self = t.self /\ v.remote = t.remote
         /\ v.send = t.send /\ v.nSend = t.nSend /\ v.prev = t.prev
         /\ v.nRecv = until + 1 /\ v.recv.root = t.recv.root
         /\ v.skipped = t.skipped \cup {KeyAt(t, i) : i \in t.nRecv .. until - 1}
<1>1. PICK u : u = skip_to(t, t.remote, t.recv, until).state
  OBVIOUS
<1>2. /\ DOMAIN u = Fields /\ u.ready = t.ready /\ u.root = t.root /\ u.self = t.self
      /\ u.remote = t.remote /\ u.send = t.send /\ u.nSend = t.nSend /\ u.prev = t.prev
      /\ u.skipped = t.skipped \cup Jumped(t.recv, t.nRecv, t.remote, until)
  <2>1. t.nRecv \in Nat
    BY DEF Stepping
  <2> QED BY <1>1, <2>1, SkipFields, NothingReplaced
<1>3. skip_to(t, t.remote, t.recv, until).chain = [root |-> t.recv.root, step |-> until]
  BY JumpKeys DEF skip_to, Stepping
<1>4. Jumped(t.recv, t.nRecv, t.remote, until) = {KeyAt(t, i) : i \in t.nRecv .. until - 1}
  BY JumpKeys DEF Stepping
<1>5. kdf_ck_next(skip_to(t, t.remote, t.recv, until).chain)
        = [root |-> t.recv.root, step |-> until + 1]
  BY <1>3 DEF kdf_ck_next
<1>6. v = [u EXCEPT !.recv = [root |-> t.recv.root, step |-> until + 1], !.nRecv = until + 1]
  BY <1>1, <1>5 DEF AfterJump
<1>7. /\ v.ready = u.ready /\ v.root = u.root /\ v.self = u.self /\ v.remote = u.remote
      /\ v.send = u.send /\ v.nSend = u.nSend /\ v.prev = u.prev /\ v.skipped = u.skipped
      /\ v.nRecv = until + 1 /\ v.recv.root = t.recv.root
  BY <1>2, <1>6 DEF Fields
<1>8. KeyOfJump(t, until) = kdf_ck_mk([root |-> t.recv.root, step |-> until])
  BY <1>3 DEF KeyOfJump
<1> QED BY <1>2, <1>4, <1>7, <1>8

\* The largest of the numbers below a bound is below it.
LEMMA LargestBelow ==
  ASSUME NEW ns, ns \subseteq Nat, ns # {}, NEW c \in Nat, \A n \in ns : n < c
  PROVE  (CHOOSE n \in ns : \A k \in ns : k <= n) \in ns
<1> DEFINE R == {ss \in Nat \X Nat : ss[1] < ss[2]}
           down == {i \in Nat : \E n \in ns : i = c - n}
<1>1. IsWellFoundedOn(R, Nat)
  BY NatLessThanWellFounded DEF OpToRel
<1>2. down \subseteq Nat /\ down # {}
  <2>1. PICK n \in ns : TRUE
    OBVIOUS
  <2>2. c - n \in down
    OBVIOUS
  <2> QED BY <2>2
<1> HIDE DEF R
<1>3. PICK x \in down : \A y \in down : ~(<<y, x>> \in R)
  <2> HIDE DEF down
  <2> QED BY <1>1, <1>2, WFMin
<1>4. PICK n \in ns : x = c - n
  OBVIOUS
<1>5. ASSUME NEW k \in ns PROVE k <= n
  <2>1. c - k \in down
    OBVIOUS
  <2>2. ~(c - k < x)
    <3>1. x \in Nat /\ c - k \in Nat /\ ~(<<c - k, x>> \in R)
      BY <1>2, <1>3, <2>1
    <3> HIDE DEF down
    <3>2. (c - k < x) => <<c - k, x>> \in R
      BY <3>1 DEF R
    <3> QED BY <3>1, <3>2
  <2> QED BY <1>4, <2>2
<1>6. \E i \in ns : \A k \in ns : k <= i
  BY <1>4, <1>5
<1> QED BY <1>6

-----------------------------------------------------------------------------
(***************************************************************************)
(* Both sides are ready: p has the ratchet s and n pairs, its peer t and   *)
(* k pairs.                                                                *)
(***************************************************************************)
Steps(p, n, k) ==
  /\ n \in Nat /\ k \in Nat
  /\ p = "initiator" => k <= n /\ n <= k + 1
  /\ p = "responder" => n <= k /\ k <= n + 1

NoPairYet(p, n, k) == IF p = "initiator" THEN n = 0 ELSE k = 0

Talking(p, s, n, t, k, ms, op) ==
  /\ Steps(p, n, k) /\ OneEach(ms) /\ op \subseteq ms
  /\ s.ready /\ t.ready
  /\ Own(p, s, n) /\ Own(Peer(p), t, k)
  /\ Says(p, s, n, ms) /\ Says(Peer(p), t, k, ms)
  /\ Hears(p, s, Turns(p, n), ms, op) /\ Hears(Peer(p), t, Turns(Peer(p), k), ms, op)
  /\ Meets(s, Turns(p, n), t, k) /\ Meets(t, Turns(Peer(p), k), s, n)
  /\ NoPairYet(p, n, k) => s.root = t.root

LEMMA StepsFacts ==
  ASSUME NEW p \in Sides, NEW n, NEW k, Steps(p, n, k)
  PROVE  /\ Steps(Peer(p), k, n) /\ Turns(p, n) \in Nat /\ Turns(Peer(p), k) \in Nat
         /\ k = Turns(p, n) \/ k = Turns(p, n) + 1
         /\ k = Turns(p, n) + 1 =>
              /\ k > 0 /\ Turns(Peer(p), k) = n /\ Turns(p, n + 1) = Turns(p, n) + 1
              /\ Steps(p, n + 1, k) /\ ~NoPairYet(p, n + 1, k)
BY PeerIs DEF Sides, Steps, Turns, NoPairYet

LEMMA PeersPeer == \A p \in Sides : Peer(p) \in Sides /\ Peer(Peer(p)) = p /\ Peer(p) # p
BY PeerIs DEF Sides

LEMMA TalkingFrom ==
  ASSUME NEW rat, NEW prs, NEW ini, NEW ms, NEW op, InTouch(rat, prs, ini, ms, op),
         NEW p \in Sides, rat[p].ready, rat[Peer(p)].ready
  PROVE  Talking(p, rat[p], prs[p], rat[Peer(p)], prs[Peer(p)], ms, op)
<1>1. Lockstep(prs) /\ Agreement(rat, prs, ini, ms, op) /\ OneEach(ms) /\ op \subseteq ms
  BY DEF InTouch
<1>2. Steps(p, prs[p], prs[Peer(p)])
  BY <1>1, PeerIs DEF Lockstep, Steps, Sides
<1>3. /\ rat["responder"].ready /\ rat["initiator"].ready
      /\ prs["initiator"] = 0 => rat["initiator"].root = rat["responder"].root
      /\ \A q \in Sides : Meets(rat[q], Turns(q, prs[q]), rat[Peer(q)], prs[Peer(q)])
  <2>1. rat["responder"].ready /\ rat["initiator"].ready
    BY PeerIs DEF Sides
  <2> QED BY <1>1, <2>1 DEF Agreement
<1>4. NoPairYet(p, prs[p], prs[Peer(p)]) => rat[p].root = rat[Peer(p)].root
  BY <1>3, PeerIs DEF Sides, NoPairYet
<1>5. /\ Own(p, rat[p], prs[p]) /\ Says(p, rat[p], prs[p], ms)
      /\ Hears(p, rat[p], Turns(p, prs[p]), ms, op)
  BY DEF InTouch
<1>6. /\ Own(Peer(p), rat[Peer(p)], prs[Peer(p)]) /\ Says(Peer(p), rat[Peer(p)], prs[Peer(p)], ms)
      /\ Hears(Peer(p), rat[Peer(p)], Turns(Peer(p), prs[Peer(p)]), ms, op)
  BY PeersPeer DEF InTouch
<1>7. Meets(rat[Peer(p)], Turns(Peer(p), prs[Peer(p)]), rat[p], prs[p])
  BY <1>3, PeersPeer
<1> QED BY <1>1, <1>2, <1>3, <1>4, <1>5, <1>6, <1>7 DEF Talking

LEMMA TalkingTo ==
  ASSUME NEW rat, NEW prs \in [Sides -> Nat], NEW ini, NEW ms, NEW op, NEW p \in Sides,
         Talking(p, rat[p], prs[p], rat[Peer(p)], prs[Peer(p)], ms, op)
  PROVE  InTouch(rat, prs, ini, ms, op)
<1>1. Steps(p, prs[p], prs[Peer(p)]) /\ OneEach(ms) /\ op \subseteq ms
  BY DEF Talking
<1>2. Lockstep(prs)
  BY <1>1, PeerIs DEF Lockstep, Steps, Sides
<1>3. \A q \in Sides :
        /\ rat[q].ready
        /\ Own(q, rat[q], prs[q]) /\ Says(q, rat[q], prs[q], ms)
        /\ Hears(q, rat[q], Turns(q, prs[q]), ms, op)
        /\ Meets(rat[q], Turns(q, prs[q]), rat[Peer(q)], prs[Peer(q)])
  <2>1. \A q \in Sides : q = p \/ q = Peer(p)
    BY PeerIs DEF Sides
  <2> QED BY <2>1, PeersPeer DEF Talking
<1>4. prs["initiator"] = 0 => rat["initiator"].root = rat["responder"].root
  <2>1. NoPairYet(p, prs[p], prs[Peer(p)]) => rat[p].root = rat[Peer(p)].root
    BY DEF Talking
  <2> QED BY <2>1, PeerIs DEF Sides, NoPairYet
<1>5. Agreement(rat, prs, ini, ms, op)
  BY <1>3, <1>4 DEF Agreement, Sides
<1> QED BY <1>1, <1>2, <1>3, <1>5 DEF InTouch

\* What a side hears from is what its peer says.
LEMMA SaysReadable ==
  ASSUME NEW p, NEW t, NEW k \in Nat, NEW ms, Says(Peer(p), t, k, ms)
  PROVE  Readable(p, ms)
<1>1. 1..k \subseteq Nat
  OBVIOUS
<1>2. ASSUME NEW m \in ms, m.from = Peer(p)
      PROVE  /\ IndexOf(m) \in 1..k /\ m.header.dh = RatchetKey(Peer(p), IndexOf(m))
             /\ m.header.n \in Nat /\ m.header.prev \in Nat
  BY <1>2 DEF Says
<1> QED BY <1>1, <1>2 DEF Readable

LEMMA TakeTalks ==
  ASSUME NEW p \in Sides, NEW s, NEW n, NEW t, NEW k, NEW ms, NEW op,
         Talking(p, s, n, t, k, ms, op),
         NEW m \in ms, m.from = Peer(p), NEW key \in s.skipped, Fits(key, m),
         DOMAIN s = Fields, NEW v, v = TakeKept(s, key)
  PROVE  m.key = key.mk /\ Talking(p, v, n, t, k, ms, op \cup {m})
<1>1. /\ Steps(p, n, k) /\ OneEach(ms) /\ op \subseteq ms /\ s.ready /\ t.ready
      /\ Own(p, s, n) /\ Own(Peer(p), t, k)
      /\ Says(p, s, n, ms) /\ Says(Peer(p), t, k, ms)
      /\ Hears(p, s, Turns(p, n), ms, op) /\ Hears(Peer(p), t, Turns(Peer(p), k), ms, op)
      /\ Meets(s, Turns(p, n), t, k) /\ Meets(t, Turns(Peer(p), k), s, n)
      /\ NoPairYet(p, n, k) => s.root = t.root
  BY DEF Talking
<1>2. /\ v.ready = s.ready /\ v.root = s.root /\ v.self = s.self /\ v.remote = s.remote
      /\ v.send = s.send /\ v.recv = s.recv /\ v.nSend = s.nSend /\ v.nRecv = s.nRecv
      /\ v.prev = s.prev /\ v.skipped = s.skipped \ {key}
  BY DEF TakeKept, Fields
<1>3. k \in Nat /\ Turns(p, n) \in Nat
  BY <1>1, StepsFacts DEF Steps
<1>4. Readable(p, ms)
  BY <1>1, <1>3, SaysReadable
<1>5. m.key = key.mk /\ Hears(p, v, Turns(p, n), ms, op \cup {m})
  BY <1>1, <1>2, <1>3, <1>4, HearsTake
<1>6. Hears(Peer(p), t, Turns(Peer(p), k), ms, op \cup {m})
  <2>1. \A x \in op \cup {m} : x.from = Peer(Peer(p)) => x \in op
    BY PeersPeer
  <2>2. op \subseteq op \cup {m}
    OBVIOUS
  <2> QED BY <1>1, <2>1, <2>2, HearsOther
<1>7. Own(p, v, n) /\ Says(p, v, n, ms)
  BY <1>1, <1>2 DEF Own, Says
<1>8. Meets(v, Turns(p, n), t, k) /\ Meets(t, Turns(Peer(p), k), v, n)
  BY <1>1, <1>2 DEF Meets
<1>9. op \cup {m} \subseteq ms
  BY <1>1
<1> QED BY <1>1, <1>2, <1>5, <1>6, <1>7, <1>8, <1>9 DEF Talking

LEMMA AdvanceTalks ==
  ASSUME NEW p \in Sides, NEW s, NEW n, NEW t, NEW k, NEW ms, NEW op,
         Talking(p, s, n, t, k, ms, op),
         NEW m \in ms, m.from = Peer(p), m.header.dh = s.remote, s.nRecv <= m.header.n,
         DOMAIN s = Fields, Stepping(s), Turns(p, n) > 0, IndexOf(m) = Turns(p, n),
         NEW v, v = AfterJump(s, m.header.n)
  PROVE  m.key = KeyOfJump(s, m.header.n) /\ Talking(p, v, n, t, k, ms, op \cup {m})
<1>1. /\ Steps(p, n, k) /\ OneEach(ms) /\ op \subseteq ms /\ s.ready /\ t.ready
      /\ Own(p, s, n) /\ Own(Peer(p), t, k)
      /\ Says(p, s, n, ms) /\ Says(Peer(p), t, k, ms)
      /\ Hears(p, s, Turns(p, n), ms, op) /\ Hears(Peer(p), t, Turns(Peer(p), k), ms, op)
      /\ Meets(s, Turns(p, n), t, k) /\ Meets(t, Turns(Peer(p), k), s, n)
      /\ NoPairYet(p, n, k) => s.root = t.root
  BY DEF Talking
<1>2. PICK r : r = Turns(p, n)
  OBVIOUS
<1>3. k \in Nat /\ r \in Nat \ {0}
  BY <1>1, <1>2, StepsFacts DEF Steps
<1>4. Readable(p, ms)
  BY <1>1, <1>3, SaysReadable
<1>5. m.header.n \in Nat /\ s.remote = RatchetKey(Peer(p), r)
  BY <1>1, <1>2, <1>3, <1>4 DEF Readable, Own
<1>6. /\ KeyOfJump(s, m.header.n) = kdf_ck_mk([root |-> s.recv.root, step |-> m.header.n])
      /\ v.ready = s.ready /\ v.root = s.root /\ v.self = s.self /\ v.remote = s.remote
      /\ v.send = s.send /\ v.nSend = s.nSend /\ v.prev = s.prev
      /\ v.nRecv = m.header.n + 1 /\ v.recv.root = s.recv.root
      /\ v.skipped = s.skipped \cup {KeyAt(s, i) : i \in s.nRecv .. m.header.n - 1}
  <2>1. NoneAhead(s)
    BY <1>1, <1>2, <1>5, HeardNoneAhead
  <2> QED BY <1>5, <2>1, JumpFields
<1>7. /\ m.key = kdf_ck_mk([root |-> s.recv.root, step |-> m.header.n])
      /\ Hears(p, v, r, ms, op \cup {m})
  <2>1. Hears(p, s, r, ms, op) /\ OneEach(ms) /\ op \subseteq ms /\ IndexOf(m) = r
    BY <1>1, <1>2
  <2>2. /\ s.remote = RatchetKey(Peer(p), r)
        /\ v.nRecv = m.header.n + 1 /\ v.recv.root = s.recv.root
        /\ v.skipped = s.skipped \cup {KeyAt(s, i) : i \in s.nRecv .. m.header.n - 1}
    BY <1>5, <1>6
  <2> QED BY <1>3, <1>4, <2>1, <2>2, HearsAdvance, SMTT(30)
<1>8. Hears(Peer(p), t, Turns(Peer(p), k), ms, op \cup {m})
  <2>1. \A x \in op \cup {m} : x.from = Peer(Peer(p)) => x \in op
    BY PeersPeer
  <2>2. op \subseteq op \cup {m}
    OBVIOUS
  <2> QED BY <1>1, <2>1, <2>2, HearsOther
<1>9. Own(p, v, n) /\ Says(p, v, n, ms)
  <2>1. Says(p, v, n, ms)
    BY <1>1, <1>6 DEF Says
  <2>2. Turns(p, n) # 0
    BY <1>2, <1>3
  <2> QED BY <1>1, <1>6, <2>1, <2>2 DEF Own
<1>10. Meets(v, Turns(p, n), t, k) /\ Meets(t, Turns(Peer(p), k), v, n)
  BY <1>1, <1>6 DEF Meets
<1>11. op \cup {m} \subseteq ms
  BY <1>1
<1> QED BY <1>1, <1>2, <1>6, <1>7, <1>8, <1>9, <1>10, <1>11 DEF Talking

\* The first message of the peer's next chain turns the ratchet.
LEMMA TurnTalks ==
  ASSUME NEW p \in Sides, NEW s, NEW n, NEW t, NEW k, NEW ms, NEW op,
         Talking(p, s, n, t, k, ms, op),
         NEW m \in ms, m.from = Peer(p), m.header.dh # s.remote,
         DOMAIN s = Fields, Stepping(s), IndexOf(m) = Turns(p, n) + 1,
         NEW v, v = Turned(s, m, RatchetKey(p, n + 1))
  PROVE  /\ Talking(p, v, n + 1, t, k, ms, op)
         /\ DOMAIN v = Fields /\ Stepping(v) /\ v.remote = m.header.dh /\ v.nRecv = 0
         /\ Turns(p, n + 1) = Turns(p, n) + 1
<1>1. /\ Steps(p, n, k) /\ OneEach(ms) /\ op \subseteq ms /\ s.ready /\ t.ready
      /\ Own(p, s, n) /\ Own(Peer(p), t, k)
      /\ Says(p, s, n, ms) /\ Says(Peer(p), t, k, ms)
      /\ Hears(p, s, Turns(p, n), ms, op) /\ Hears(Peer(p), t, Turns(Peer(p), k), ms, op)
      /\ Meets(s, Turns(p, n), t, k)
  BY DEF Talking
<1>2. PICK r, q, key, dh : r = Turns(p, n) /\ q = Peer(p) /\ key = RatchetKey(p, n + 1) /\ dh = m.header.dh
  OBVIOUS
<1>3. n \in Nat /\ k \in Nat /\ r \in Nat
  BY <1>1, <1>2, StepsFacts DEF Steps
<1>4. /\ IndexOf(m) \in 1..k /\ dh = RatchetKey(q, IndexOf(m))
      /\ m.header.prev \in Nat
  BY <1>1, <1>2 DEF Says
<1>5. k = r + 1
  <2>1. k = r \/ k = r + 1
    BY <1>1, <1>2, StepsFacts
  <2> QED BY <1>2, <1>3, <1>4, <2>1
<1>6. /\ k > 0 /\ Turns(q, k) = n /\ Turns(p, n + 1) = r + 1
      /\ Steps(p, n + 1, k) /\ ~NoPairYet(p, n + 1, k)
  BY <1>1, <1>2, <1>5, StepsFacts
<1>7. PICK root : root = Append(s.root, DH(s.self, dh))
  OBVIOUS
<1>8. /\ DOMAIN v = Fields /\ v.ready = s.ready
      /\ v.root = Append(root, DH(key, dh)) /\ v.self = key /\ v.remote = dh
      /\ v.recv = [root |-> root, step |-> 0] /\ v.nRecv = 0
      /\ v.send = [root |-> v.root, step |-> 0] /\ v.nSend = 0 /\ v.prev = s.nSend
      /\ v.skipped = IF s.remote # NoKey /\ s.recv # NoChain
                     THEN insert(s.skipped, Jumped(s.recv, s.nRecv, s.remote, m.header.prev))
                     ELSE s.skipped
  <2>1. dh # s.remote /\ v = Turned(s, m, key) /\ dh = m.header.dh /\ DOMAIN s = Fields
    BY <1>2
  <2>2. IsTurn(s, m, dh, key, root, v)
    BY <1>7, <2>1, TurnFields
  <2> QED BY <2>2 DEF IsTurn
<1>9. dh = t.self /\ t.root = root /\ t.send.root = root
  <2>1. t.self = RatchetKey(q, k) /\ t.send.root = t.root
    BY <1>1, <1>2, <1>3, <1>6 DEF Own
  <2>2. t.self = dh
    BY <1>2, <1>4, <1>5, <2>1
  <2>3. t.root = Append(s.root, DH(s.self, t.self))
    BY <1>1, <1>2, <1>5 DEF Meets
  <2> QED BY <1>7, <2>1, <2>2, <2>3
<1>10. v.skipped = IF r = 0 THEN s.skipped
                   ELSE s.skipped \cup {KeyAt(s, i) : i \in s.nRecv .. m.header.prev - 1}
  <2>1. CASE r = 0
    <3>1. s.recv = NoChain
      BY <1>1, <1>2, <2>1 DEF Own
    <3> QED BY <1>8, <2>1, <3>1
  <2>2. CASE r # 0
    <3>1. s.recv.root # << >> /\ s.remote = RatchetKey(q, r)
      BY <1>1, <1>2, <1>3, <2>2 DEF Own
    <3>2. s.recv # NoChain
      BY <3>1 DEF NoChain
    <3>3. s.remote # NoKey
      BY <3>1 DEF NoKey, RatchetKey
    <3>4. Jumped(s.recv, s.nRecv, s.remote, m.header.prev)
            = {KeyAt(s, i) : i \in s.nRecv .. m.header.prev - 1}
      BY JumpKeys DEF Stepping
    <3>5. NoneAhead(s) /\ s.nRecv \in Nat
      BY <1>1, <1>2, <3>1, HeardNoneAhead
    <3>6. insert(s.skipped, Jumped(s.recv, s.nRecv, s.remote, m.header.prev))
            = s.skipped \cup Jumped(s.recv, s.nRecv, s.remote, m.header.prev)
      BY <3>5, NothingReplaced
    <3> QED BY <1>8, <2>2, <3>2, <3>3, <3>4, <3>6
  <2> QED BY <2>1, <2>2
<1>11. Hears(p, v, r + 1, ms, op)
  <2>1. Readable(p, ms)
    BY <1>1, <1>2, <1>3, SaysReadable
  <2>2. r > 0 => s.remote = RatchetKey(Peer(p), r)
    BY <1>1, <1>2, <1>3 DEF Own
  <2>3. m.header.prev = t.prev
    BY <1>1, <1>2, <1>5 DEF Says
  <2>4. \A l \in ms : l.from = Peer(p) /\ IndexOf(l) = r => l.header.n < m.header.prev
    BY <1>1, <1>2, <1>5, <2>3 DEF Says
  <2>5. \A l \in ms : l.from = Peer(p) => IndexOf(l) >= 1
    <3>1. \A i \in 1..k : i >= 1
      OBVIOUS
    <3> QED BY <1>1, <3>1 DEF Says
  <2>6. \A l \in ms : l.from = Peer(p) /\ IndexOf(l) = r + 1 =>
          l.key = kdf_ck_mk([root |-> v.recv.root, step |-> l.header.n])
    BY <1>1, <1>5, <1>8, <1>9 DEF Says
  <2>7. PICK until : until = m.header.prev
    OBVIOUS
  <2>8. /\ Hears(p, s, r, ms, op) /\ op \subseteq ms /\ IndexOf(m) = r + 1 /\ v.nRecv = 0
        /\ until \in Nat /\ \A l \in ms : l.from = Peer(p) /\ IndexOf(l) = r => l.header.n < until
        /\ v.skipped = IF r = 0 THEN s.skipped
                       ELSE s.skipped \cup {KeyAt(s, i) : i \in s.nRecv .. until - 1}
    BY <1>1, <1>2, <1>4, <1>8, <1>10, <2>4, <2>7
  <2> QED BY <1>3, <2>1, <2>2, <2>5, <2>6, <2>8, HearsTurn
<1>12. Own(p, v, n + 1)
  <2>1. v.root # << >>
    <3>1. PICK x, y, w : root = Append(x, y) /\ w = DH(key, dh)
      BY <1>7
    <3> QED BY <1>8
  <2>2. root # << >>
    BY <1>7
  <2>3. n + 1 # 0 /\ r + 1 # 0
    BY <1>3
  <2> QED BY <1>2, <1>3, <1>4, <1>5, <1>6, <1>8, <2>1, <2>2, <2>3 DEF Own
<1>13. Says(p, v, n + 1, ms)
  <2>1. ASSUME NEW l \in ms, l.from = p
        PROVE  /\ IndexOf(l) \in 1..(n + 1) /\ l.header.dh = RatchetKey(p, IndexOf(l))
               /\ l.header.n \in Nat /\ l.header.prev \in Nat
               /\ IndexOf(l) # n + 1
               /\ IndexOf(l) + 1 = n + 1 => l.header.n < v.prev
    <3>1. /\ IndexOf(l) \in 1..n /\ l.header.dh = RatchetKey(p, IndexOf(l))
          /\ l.header.n \in Nat /\ l.header.prev \in Nat
          /\ IndexOf(l) = n => l.header.n < s.nSend
      BY <1>1, <2>1 DEF Says
    <3>2. PICK i : i = IndexOf(l)
      OBVIOUS
    <3>3. i \in 1..(n + 1) /\ i # n + 1 /\ (i + 1 = n + 1 => i = n)
      BY <1>3, <3>1, <3>2
    <3> QED BY <1>8, <3>1, <3>2, <3>3
  <2> QED BY <2>1 DEF Says
<1>14. Meets(v, r + 1, t, k)
  <2>1. k # (r + 1) + 1
    BY <1>3, <1>5
  <2> QED BY <1>8, <1>9, <2>1 DEF Meets
<1>15. Meets(t, n, v, n + 1)
  <2>1. v.root = Append(t.root, DH(t.self, v.self))
    <3>1. DH(key, dh) = DH(dh, key)
      BY DEF DH
    <3> QED BY <1>8, <1>9, <3>1
  <2>2. n + 1 # n
    BY <1>3
  <2> QED BY <2>1, <2>2 DEF Meets
<1>16. Stepping(v)
  BY <1>8 DEF Stepping
<1> QED BY <1>1, <1>2, <1>6, <1>8, <1>11, <1>12, <1>13, <1>14, <1>15, <1>16 DEF Talking

(***************************************************************************)
(* A message that is not opened on its first arrival lies too far ahead:   *)
(* c bounds what was opened of the chain.                                  *)
(***************************************************************************)
Bounds(c, p, dh, op) == c \in Nat /\ \A x \in op : x.from = p /\ x.header.dh = dh => x.header.n < c

Missed(m, ms, op) ==
  \/ \E c : Bounds(c, m.from, m.header.dh, op) /\ m.header.n > c + MAX_SKIP
  \/ \E c : \E x \in ms : /\ x.from = m.from /\ IndexOf(x) + 1 = IndexOf(m)
                          /\ Bounds(c, m.from, x.header.dh, op)
                          /\ m.header.prev > c + MAX_SKIP

\* What p has opened of the chain it hears is behind what it expects.
LEMMA HearsBounds ==
  ASSUME NEW p, NEW s, NEW r \in Nat, NEW ms, NEW op, Hears(p, s, r, ms, op), NEW dh, dh[3] = r
  PROVE  Bounds(s.nRecv, Peer(p), dh, op)
<1>1. ASSUME NEW x \in op, x.from = Peer(p), x.header.dh = dh PROVE x.header.n < s.nRecv
  <2>1. Past(x, r, s.nRecv) /\ IndexOf(x) = r
    BY <1>1 DEF Hears, IndexOf
  <2>2. s.nRecv \in Nat /\ ~(r < r)
    BY DEF Hears
  <2> QED BY <2>1, <2>2 DEF Past
<1> QED BY <1>1 DEF Hears, Bounds

\* The outcome of a decryption by the place of the message; t is s, turned if
\* the message asks for it.
IsOutcome(s, m, t, d) ==
  /\ Kept(s, m) # {} => \E kept \in Kept(s, m) :
       /\ d.state = TakeKept(s, kept) /\ d.turned = FALSE /\ d.ok = (m.key = kept.mk)
  /\ Kept(s, m) = {} /\ OldChainTooFar(s, m) =>
       d.state = s /\ d.turned = FALSE /\ d.ok = FALSE
  /\ Kept(s, m) = {} /\ ~OldChainTooFar(s, m) =>
       /\ d.turned = (m.header.dh # s.remote)
       /\ TooFar(t, m.header.n) => d.state = t /\ d.ok = FALSE
       /\ ~TooFar(t, m.header.n) =>
            d.state = AfterJump(t, m.header.n) /\ d.ok = (m.key = KeyOfJump(t, m.header.n))

LEMMA Outcomes ==
  ASSUME NEW s, NEW m, NEW key, NEW d, d = Decrypted(s, m, key), NEW t, t = Turned(s, m, key)
  PROVE  IsOutcome(s, m, t, d)
<1>1. CASE Kept(s, m) # {}
  <2>1. PICK kept \in Kept(s, m) : kept = CHOOSE k \in Kept(s, m) : TRUE
    BY <1>1
  <2>2. d = [state |-> TakeKept(s, kept), ok |-> open(kept.mk, m), turned |-> FALSE]
    BY <1>1, <2>1 DEF Decrypted
  <2>3. d.state = TakeKept(s, kept) /\ d.turned = FALSE /\ d.ok = open(kept.mk, m)
    BY <2>2
  <2> QED BY <1>1, <2>3 DEF open, IsOutcome
<1>2. CASE Kept(s, m) = {} /\ OldChainTooFar(s, m)
  <2>1. d = [state |-> s, ok |-> FALSE, turned |-> FALSE]
    BY <1>2 DEF Decrypted
  <2> QED BY <1>2, <2>1 DEF IsOutcome
<1>3. CASE Kept(s, m) = {} /\ ~OldChainTooFar(s, m) /\ TooFar(t, m.header.n)
  <2>1. d = [state |-> t, ok |-> FALSE, turned |-> m.header.dh # s.remote]
    BY <1>3 DEF Decrypted
  <2> QED BY <1>3, <2>1 DEF IsOutcome
<1>4. CASE Kept(s, m) = {} /\ ~OldChainTooFar(s, m) /\ ~TooFar(t, m.header.n)
  <2>1. PICK j : j = skip_to(t, t.remote, t.recv, m.header.n)
    OBVIOUS
  <2>2. d = [state |-> [j.state EXCEPT !.recv = kdf_ck_next(j.chain), !.nRecv = m.header.n + 1],
             ok |-> open(kdf_ck_mk(j.chain), m), turned |-> m.header.dh # s.remote]
    BY <1>4, <2>1 DEF Decrypted
  <2>3. d.state = AfterJump(t, m.header.n) /\ d.ok = open(KeyOfJump(t, m.header.n), m)
        /\ d.turned = (m.header.dh # s.remote)
    BY <2>1, <2>2 DEF AfterJump, KeyOfJump
  <2> QED BY <1>4, <2>3 DEF open, IsOutcome
<1> QED BY <1>1, <1>2, <1>3, <1>4

\* A message of the chain p hears, to the state v with or without success.
Tried(s, m, v, ok) ==
  /\ v = IF TooFar(s, m.header.n) THEN s ELSE AfterJump(s, m.header.n)
  /\ ok = IF TooFar(s, m.header.n) THEN FALSE ELSE m.key = KeyOfJump(s, m.header.n)

Received(p, v, n, t, k, m, ms, op, ok) ==
  /\ Talking(p, v, n, t, k, ms, IF ok THEN op \cup {m} ELSE op)
  /\ m \notin op /\ ~ok => Missed(m, ms, op)

LEMMA OpensHere ==
  ASSUME NEW p \in Sides, NEW s, NEW n, NEW t, NEW k, NEW ms, NEW op,
         Talking(p, s, n, t, k, ms, op),
         NEW m \in ms, m.from = Peer(p), m.header.dh = s.remote, DOMAIN s = Fields, Stepping(s),
         Turns(p, n) > 0, IndexOf(m) = Turns(p, n), m \in op \/ s.nRecv <= m.header.n,
         NEW v, NEW ok, Tried(s, m, v, ok)
  PROVE  Received(p, v, n, t, k, m, ms, op, ok)
<1>1. /\ Hears(p, s, Turns(p, n), ms, op) /\ Says(Peer(p), t, k, ms) /\ Steps(p, n, k)
      /\ k \in Nat /\ Turns(p, n) \in Nat
  BY StepsFacts DEF Talking, Steps
<1>2. m.header.n \in Nat /\ s.nRecv \in Nat
  BY <1>1 DEF Says, Hears
<1>3. CASE TooFar(s, m.header.n)
  <2>1. v = s /\ ok = FALSE
    BY <1>3 DEF Tried
  <2>2. ASSUME m \notin op PROVE Missed(m, ms, op)
    <3>1. m.header.n > s.nRecv + MAX_SKIP
      <4>1. MAX_SKIP \in Nat /\ m.header.n - s.nRecv > MAX_SKIP
        BY <1>2, <1>3, <2>2, E2eeAssumption DEF TooFar
      <4> QED BY <1>2, <4>1
    <3>2. Bounds(s.nRecv, m.from, m.header.dh, op)
      BY <1>1, HearsBounds DEF IndexOf
    <3> QED BY <3>1, <3>2 DEF Missed
  <2> QED BY <2>1, <2>2 DEF Received
<1>4. CASE ~TooFar(s, m.header.n)
  <2>1. v = AfterJump(s, m.header.n) /\ ok = (m.key = KeyOfJump(s, m.header.n)) /\ s.nRecv <= m.header.n
    BY <1>2, <1>4 DEF Tried, TooFar
  <2>2. m.key = KeyOfJump(s, m.header.n) /\ Talking(p, v, n, t, k, ms, op \cup {m})
    BY <2>1, AdvanceTalks
  <2>3. ok = TRUE
    BY <2>1, <2>2
  <2> QED BY <2>2, <2>3 DEF Received
<1> QED BY <1>3, <1>4

(***************************************************************************)
(* A decryption, unless it is of a message opened before on another chain. *)
(***************************************************************************)
LEMMA DecryptTalks ==
  ASSUME NEW p \in Sides, NEW s, NEW n, NEW t, NEW k, NEW ms, NEW op,
         Talking(p, s, n, t, k, ms, op), DOMAIN s = Fields, Stepping(s),
         NEW m \in ms, m.from = Peer(p), m \in op => m.header.dh = s.remote,
         NEW d, d = Decrypted(s, m, RatchetKey(p, n + 1))
  PROVE  Received(p, d.state, n + (IF d.turned THEN 1 ELSE 0), t, k, m, ms, op, d.ok)
<1>1. /\ Hears(p, s, Turns(p, n), ms, op) /\ Says(Peer(p), t, k, ms) /\ Steps(p, n, k)
      /\ Own(p, s, n) /\ op \subseteq ms
  BY DEF Talking
<1>2. PICK r, u : r = Turns(p, n) /\ u = Turned(s, m, RatchetKey(p, n + 1))
  OBVIOUS
<1>3. n \in Nat /\ k \in Nat /\ r \in Nat /\ (k = r \/ k = r + 1) /\ s.nRecv \in Nat
  <2>1. r \in Nat /\ (k = r \/ k = r + 1)
    BY <1>1, <1>2, StepsFacts
  <2>2. n \in Nat /\ k \in Nat
    BY <1>1 DEF Steps
  <2>3. s.nRecv \in Nat
    BY <1>1 DEF Hears
  <2> QED BY <2>1, <2>2, <2>3
<1>4. /\ IndexOf(m) \in 1..k /\ m.header.dh = RatchetKey(Peer(p), IndexOf(m))
      /\ m.header.n \in Nat /\ m.header.prev \in Nat
  BY <1>1 DEF Says
<1>5. r > 0 => s.remote = RatchetKey(Peer(p), r)
  BY <1>1, <1>2, <1>3 DEF Own
<1>6. n + 0 = n
  BY <1>3
<1>7. /\ Kept(s, m) # {} => \E kept \in Kept(s, m) :
           /\ d.state = TakeKept(s, kept) /\ d.turned = FALSE /\ d.ok = (m.key = kept.mk)
      /\ Kept(s, m) = {} /\ OldChainTooFar(s, m) =>
           d.state = s /\ d.turned = FALSE /\ d.ok = FALSE
      /\ Kept(s, m) = {} /\ ~OldChainTooFar(s, m) =>
           /\ d.turned = (m.header.dh # s.remote)
           /\ TooFar(u, m.header.n) => d.state = u /\ d.ok = FALSE
           /\ ~TooFar(u, m.header.n) =>
                d.state = AfterJump(u, m.header.n) /\ d.ok = (m.key = KeyOfJump(u, m.header.n))
  <2>1. PICK key : key = RatchetKey(p, n + 1)
    OBVIOUS
  <2>2. d = Decrypted(s, m, key) /\ u = Turned(s, m, key)
    BY <1>2, <2>1
  <2>3. IsOutcome(s, m, u, d)
    BY <2>2, Outcomes
  <2> QED BY <2>3 DEF IsOutcome
<1>8. CASE Kept(s, m) # {}
  <2>1. PICK kept \in s.skipped : Fits(kept, m) /\ d.state = TakeKept(s, kept)
                                  /\ d.turned = FALSE /\ d.ok = (m.key = kept.mk)
    BY <1>7, <1>8 DEF Kept, Fits
  <2>2. m.key = kept.mk /\ Talking(p, d.state, n, t, k, ms, op \cup {m})
    BY <2>1, TakeTalks
  <2> QED BY <1>6, <2>1, <2>2 DEF Received
<1>9. Kept(s, m) = {} => m \in op \/ ~Past(m, r, s.nRecv)
  BY <1>1, <1>2 DEF Hears, Kept, Fits
<1>10. CASE Kept(s, m) = {} /\ m.header.dh = s.remote
  <2>1. r > 0 /\ IndexOf(m) = r
    <3>1. r # 0
      <4>1. ASSUME r = 0 PROVE FALSE
        <5>1. s.remote = FirstRemote(p)
          BY <1>1, <1>2, <4>1 DEF Own
        <5>2. PICK q, i : RatchetKey(Peer(p), IndexOf(m)) = RatchetKey(q, i)
          OBVIOUS
        <5>3. RatchetKey(q, i) # SPK(1) /\ RatchetKey(q, i) # NoKey
          BY DEF RatchetKey, SPK, NoKey
        <5> QED BY <1>4, <1>10, <5>1, <5>2, <5>3 DEF FirstRemote
      <4> QED BY <4>1
    <3>2. r > 0
      BY <1>3, <3>1
    <3>3. RatchetKey(Peer(p), IndexOf(m)) = RatchetKey(Peer(p), r)
      BY <1>4, <1>5, <1>10, <3>2
    <3> QED BY <3>2, <3>3 DEF RatchetKey
  <2>2. ~OldChainTooFar(s, m) /\ u = s
    BY <1>2, <1>10 DEF OldChainTooFar, Turned
  <2>3. m \in op \/ s.nRecv <= m.header.n
    BY <1>3, <1>4, <1>9, <1>10, <2>1 DEF Past
  <2>4. d.turned = FALSE /\ Tried(s, m, d.state, d.ok)
    BY <1>7, <1>10, <2>2 DEF Tried
  <2>5. Turns(p, n) > 0 /\ IndexOf(m) = Turns(p, n)
    BY <1>2, <2>1
  <2>6. Received(p, d.state, n, t, k, m, ms, op, d.ok)
    BY <1>10, <2>3, <2>4, <2>5, OpensHere
  <2> QED BY <1>6, <2>4, <2>6
<1>11. CASE Kept(s, m) = {} /\ m.header.dh # s.remote
  <2>1. m \notin op
    BY <1>11
  <2>2. IndexOf(m) = r + 1 /\ k = r + 1
    <3>1. ~Past(m, r, s.nRecv)
      BY <1>9, <1>11, <2>1
    <3>2. IndexOf(m) # r
      BY <1>3, <1>4, <1>5, <1>11
    <3> QED BY <1>3, <1>4, <3>1, <3>2 DEF Past
  <2>3. CASE OldChainTooFar(s, m)
    <3>1. d.state = s /\ d.turned = FALSE /\ d.ok = FALSE
      BY <1>7, <1>11, <2>3
    <3>2. r # 0
      BY <1>1, <1>2, <2>3 DEF OldChainTooFar, Own
    <3>3. PICK x \in ms : x.from = Peer(p) /\ IndexOf(x) = r
      BY <1>1, <1>2, <1>3, <3>2 DEF Hears
    <3>4. ~(m.header.prev < s.nRecv)
      <4>1. ASSUME s.nRecv > 0 PROVE s.nRecv <= m.header.prev
        <5>1. PICK l \in ms : l.from = Peer(p) /\ IndexOf(l) = r /\ l.header.n + 1 = s.nRecv
          BY <1>1, <1>2, <4>1 DEF Hears
        <5>2. l.header.n \in Nat /\ l.header.n < t.prev /\ m.header.prev = t.prev
          BY <1>1, <2>2, <5>1 DEF Says
        <5> QED BY <1>3, <1>4, <5>1, <5>2
      <4> QED BY <1>3, <1>4, <4>1
    <3>5. m.header.prev > s.nRecv + MAX_SKIP
      <4>1. MAX_SKIP \in Nat /\ m.header.prev - s.nRecv > MAX_SKIP
        BY <2>3, <3>4, E2eeAssumption DEF OldChainTooFar, TooFar
      <4> QED BY <1>3, <1>4, <4>1
    <3>6. Bounds(s.nRecv, m.from, x.header.dh, op)
      BY <1>1, <1>2, <1>3, <3>3, HearsBounds DEF IndexOf
    <3>7. Missed(m, ms, op)
      BY <2>2, <3>3, <3>5, <3>6 DEF Missed
    <3>8. Talking(p, d.state, n, t, k, ms, op)
      BY <3>1
    <3> QED BY <1>6, <3>1, <3>7, <3>8 DEF Received
  <2>4. CASE ~OldChainTooFar(s, m)
    <3>1. d.turned = TRUE /\ Tried(u, m, d.state, d.ok)
      BY <1>7, <1>11, <2>4 DEF Tried
    <3>2. /\ Talking(p, u, n + 1, t, k, ms, op)
          /\ DOMAIN u = Fields /\ Stepping(u) /\ u.remote = m.header.dh /\ u.nRecv = 0
          /\ Turns(p, n + 1) = r + 1
      BY <1>2, <1>11, <2>2, TurnTalks
    <3>3. u.nRecv <= m.header.n /\ Turns(p, n + 1) > 0 /\ IndexOf(m) = Turns(p, n + 1)
      BY <1>3, <1>4, <2>2, <3>2
    <3>4. m.header.dh = u.remote
      BY <3>2
    <3>5. Received(p, d.state, n + 1, t, k, m, ms, op, d.ok)
      BY <3>1, <3>2, <3>3, <3>4, OpensHere
    <3> QED BY <3>1, <3>5
  <2> QED BY <2>3, <2>4
<1> QED BY <1>8, <1>10, <1>11

-----------------------------------------------------------------------------
(***************************************************************************)
(* Sending: the initiator opens its first chain, and a message is sealed   *)
(* with the next key of the present one.                                   *)
(***************************************************************************)
Sealed(p, s) == sealed_message(p, kdf_ck_mk(s.send), [dh |-> s.self, prev |-> s.prev, n |-> s.nSend])
AfterSealing(s) == [s EXCEPT !.send = kdf_ck_next(@), !.nSend = @ + 1]

\* v is s but for the sending half.
SendsOnly(s, v) ==
  /\ DOMAIN v = Fields /\ v.ready = s.ready /\ v.recv = s.recv /\ v.nRecv = s.nRecv
  /\ v.remote = s.remote /\ v.skipped = s.skipped

LEMMA OpensChain ==
  ASSUME NEW p, p = "initiator", NEW f, DOMAIN f = Fields, Own(p, f, 0), NEW ms, Says(p, f, 0, ms),
         NEW s, s = NewSendChain(f, RatchetKey(p, 1))
  PROVE  /\ Own(p, s, 1) /\ Says(p, s, 1, ms) /\ SendsOnly(f, s)
         /\ s.root = Append(f.root, DH(RatchetKey(p, 1), SPK(1))) /\ s.self = RatchetKey(p, 1)
<1>1. PICK key : key = RatchetKey(p, 1)
  OBVIOUS
<1>2. /\ DOMAIN s = Fields /\ s.root = Append(f.root, DH(key, f.remote))
      /\ s.ready = f.ready /\ s.recv = f.recv /\ s.nRecv = f.nRecv /\ s.remote = f.remote
      /\ s.skipped = f.skipped /\ s.nSend = 0 /\ s.prev = f.nSend
      /\ s.self = key /\ s.send = [root |-> s.root, step |-> 0]
  BY <1>1, SendChainFields, SendChainBegins
<1>3. Turns(p, 0) = 0 /\ Turns(p, 1) = 0
  BY DEF Turns
<1>4. f.remote = SPK(1) /\ f.recv = NoChain
  BY <1>3 DEF Own, FirstRemote
<1>5. s.root # << >>
  <2>1. PICK x : x = DH(key, f.remote)
    OBVIOUS
  <2> QED BY <1>2, <2>1
<1>6. Own(p, s, 1)
  BY <1>1, <1>2, <1>3, <1>4, <1>5 DEF Own, FirstRemote
<1>7. \A m \in ms : m.from # p
  BY DEF Says
<1> QED BY <1>1, <1>2, <1>4, <1>6, <1>7 DEF Says, SendsOnly

\* x is the message s seals among the messages ms, and v the state after it.
SealedBy(p, n, s, ms, v, x) ==
  /\ Own(p, v, n) /\ Says(p, v, n, ms \cup {x}) /\ OneEach(ms \cup {x}) /\ SendsOnly(s, v)
  /\ v.root = s.root /\ v.self = s.self /\ v.send.root = s.send.root
  /\ x \notin ms /\ x.from = p /\ IndexOf(x) = n /\ x.header.n \in Nat
  /\ x.key = kdf_ck_mk([root |-> s.send.root, step |-> x.header.n])
  /\ \A m \in ms : m.from = p /\ IndexOf(m) = n => m.header.n \in Nat /\ m.header.n < x.header.n

LEMMA Seals ==
  ASSUME NEW p, NEW n \in Nat \ {0}, NEW s, DOMAIN s = Fields, s.nSend \in Nat, s.prev \in Nat,
         Own(p, s, n), NEW ms, Says(p, s, n, ms), OneEach(ms),
         NEW v, v = AfterSealing(s), NEW x, x = Sealed(p, s)
  PROVE  SealedBy(p, n, s, ms, v, x)
<1>1. s.send = [root |-> s.send.root, step |-> s.nSend] /\ s.self = RatchetKey(p, n)
  BY DEF Own
<1>2. PICK root, c : root = s.send.root /\ c = s.nSend
  OBVIOUS
<1>3. /\ x.from = p /\ x.header.dh = RatchetKey(p, n) /\ x.header.n = c /\ x.header.prev = s.prev
      /\ x.key = kdf_ck_mk([root |-> root, step |-> c])
  BY <1>1, <1>2 DEF Sealed, sealed_message
<1>4. IndexOf(x) = n
  BY <1>3 DEF IndexOf, RatchetKey
<1>5. kdf_ck_next(s.send) = [root |-> root, step |-> c + 1]
  BY <1>1, <1>2 DEF kdf_ck_next
<1>6. v = [s EXCEPT !.send = [root |-> root, step |-> c + 1], !.nSend = c + 1]
  BY <1>2, <1>5 DEF AfterSealing
<1>7. /\ SendsOnly(s, v) /\ v.root = s.root /\ v.self = s.self /\ v.prev = s.prev
      /\ v.send = [root |-> root, step |-> c + 1] /\ v.nSend = c + 1
  BY <1>6 DEF Fields, SendsOnly
<1>8. Own(p, v, n)
  BY <1>2, <1>7 DEF Own, SendsOnly
<1>9. ASSUME NEW m \in ms, m.from = p
      PROVE  /\ IndexOf(m) \in 1..n /\ m.header.dh = RatchetKey(p, IndexOf(m))
             /\ m.header.n \in Nat /\ m.header.prev \in Nat
             /\ IndexOf(m) = n =>
                  /\ m.header.n < c /\ m.header.prev = s.prev
                  /\ m.key = kdf_ck_mk([root |-> root, step |-> m.header.n])
             /\ IndexOf(m) + 1 = n => m.header.n < s.prev
  BY <1>2, <1>9 DEF Says
<1>10. ASSUME NEW m \in ms, m.from = p, m.header.dh = x.header.dh PROVE m.header.n < x.header.n
  <2>1. IndexOf(m) = n
    BY <1>4, <1>10 DEF IndexOf
  <2> QED BY <1>3, <1>9, <1>10, <2>1
<1>11. \A m \in ms : m.from = p /\ m.header.dh = x.header.dh => m.header.n # x.header.n
  <2>1. c \in Nat /\ ~(c < c)
    BY <1>2
  <2> QED BY <1>3, <1>10, <2>1
<1>12. x \notin ms
  BY <1>3, <1>11
<1>13. OneEach(ms \cup {x})
  BY <1>3, <1>11 DEF OneEach
<1>14. Says(p, v, n, ms \cup {x})
  <2>1. ASSUME NEW m \in ms, m.from = p
        PROVE  /\ IndexOf(m) \in 1..n /\ m.header.dh = RatchetKey(p, IndexOf(m))
               /\ m.header.n \in Nat /\ m.header.prev \in Nat
               /\ IndexOf(m) = n =>
                    /\ m.header.n < v.nSend /\ m.header.prev = v.prev
                    /\ m.key = kdf_ck_mk([root |-> v.send.root, step |-> m.header.n])
               /\ IndexOf(m) + 1 = n => m.header.n < v.prev
    <3>1. v.send.root = root
      BY <1>7
    <3>2. m.header.n < c => m.header.n < v.nSend
      <4>1. PICK i : i = m.header.n
        OBVIOUS
      <4>2. i \in Nat /\ c \in Nat /\ v.nSend = c + 1
        BY <1>2, <1>7, <1>9, <2>1, <4>1
      <4>3. i < c => i < c + 1
        BY <4>2
      <4> QED BY <4>1, <4>2, <4>3
    <3> QED BY <1>7, <1>9, <2>1, <3>1, <3>2
  <2>2. /\ IndexOf(x) \in 1..n /\ x.header.dh = RatchetKey(p, IndexOf(x))
        /\ x.header.n \in Nat /\ x.header.prev \in Nat
        /\ x.header.n < v.nSend /\ x.header.prev = v.prev
        /\ x.key = kdf_ck_mk([root |-> v.send.root, step |-> x.header.n])
        /\ IndexOf(x) + 1 # n
    <3>1. v.send.root = root /\ n \in 1..n /\ n + 1 # n /\ c \in Nat /\ c < c + 1
      BY <1>2, <1>7
    <3> QED BY <1>3, <1>4, <1>7, <3>1
  <2> QED BY <2>1, <2>2 DEF Says
<1>15. \A m \in ms : m.from = p /\ IndexOf(m) = n => m.header.n \in Nat /\ m.header.n < x.header.n
  BY <1>3, <1>9
<1>16. v.send.root = s.send.root
  BY <1>2, <1>7
<1> QED BY <1>2, <1>3, <1>4, <1>7, <1>8, <1>12, <1>13, <1>14, <1>15, <1>16 DEF SealedBy

LEMMA OpensChainTalks ==
  ASSUME NEW p, p = "initiator", NEW f, DOMAIN f = Fields, NEW t, NEW k, NEW ms, NEW op,
         Talking(p, f, 0, t, k, ms, op), NEW s, s = NewSendChain(f, RatchetKey(p, 1))
  PROVE  Talking(p, s, 1, t, k, ms, op)
<1>1. /\ Steps(p, 0, k) /\ OneEach(ms) /\ op \subseteq ms /\ f.ready /\ t.ready
      /\ Own(p, f, 0) /\ Own(Peer(p), t, k)
      /\ Says(p, f, 0, ms) /\ Says(Peer(p), t, k, ms)
      /\ Hears(p, f, Turns(p, 0), ms, op) /\ Hears(Peer(p), t, Turns(Peer(p), k), ms, op)
      /\ NoPairYet(p, 0, k) => f.root = t.root
  BY DEF Talking
<1>2. /\ Own(p, s, 1) /\ Says(p, s, 1, ms) /\ SendsOnly(f, s)
      /\ s.root = Append(f.root, DH(RatchetKey(p, 1), SPK(1))) /\ s.self = RatchetKey(p, 1)
  BY <1>1, OpensChain
<1>3. k = 0 /\ Turns(p, 0) = 0 /\ Turns(p, 1) = 0 /\ Turns(Peer(p), 0) = 0 /\ Steps(p, 1, 0)
      /\ Peer(p) = "responder"
  BY <1>1, PeerIs DEF Steps, Turns
<1>4. t.self = SPK(1) /\ f.root = t.root
  BY <1>1, <1>3 DEF Own, FirstSelf, NoPairYet
<1>5. Meets(s, 0, t, 0)
  BY DEF Meets
<1>6. Meets(t, 0, s, 1)
  <2>1. DH(RatchetKey(p, 1), SPK(1)) = DH(t.self, s.self)
    BY <1>2, <1>4 DEF DH
  <2>2. s.root = Append(t.root, DH(t.self, s.self))
    BY <1>2, <1>4, <2>1
  <2>3. 1 # 0
    OBVIOUS
  <2> QED BY <2>2, <2>3 DEF Meets
<1>7. Hears(p, s, 0, ms, op)
  BY <1>1, <1>2, <1>3, HearsOther DEF SendsOnly
<1>8. s.ready
  BY <1>1, <1>2 DEF SendsOnly
<1>9. ~NoPairYet(p, 1, 0)
  BY DEF NoPairYet
<1> QED BY <1>1, <1>2, <1>3, <1>5, <1>6, <1>7, <1>8, <1>9 DEF Talking

LEMMA SealsTalks ==
  ASSUME NEW p \in Sides, NEW n, n # 0, NEW s, DOMAIN s = Fields, s.nSend \in Nat, s.prev \in Nat,
         NEW t, NEW k, NEW ms, NEW op, Talking(p, s, n, t, k, ms, op),
         NEW v, v = AfterSealing(s), NEW x, x = Sealed(p, s)
  PROVE  Talking(p, v, n, t, k, ms \cup {x}, op)
<1>1. /\ Steps(p, n, k) /\ OneEach(ms) /\ op \subseteq ms /\ s.ready /\ t.ready
      /\ Own(p, s, n) /\ Own(Peer(p), t, k)
      /\ Says(p, s, n, ms) /\ Says(Peer(p), t, k, ms)
      /\ Hears(p, s, Turns(p, n), ms, op) /\ Hears(Peer(p), t, Turns(Peer(p), k), ms, op)
      /\ Meets(s, Turns(p, n), t, k) /\ Meets(t, Turns(Peer(p), k), s, n)
      /\ NoPairYet(p, n, k) => s.root = t.root
  BY DEF Talking
<1>2. n \in Nat \ {0} /\ Peer(Peer(p)) = p /\ Peer(p) \in Sides /\ Peer(p) # p
  BY <1>1, PeersPeer DEF Steps
<1>3. /\ Own(p, v, n) /\ Says(p, v, n, ms \cup {x}) /\ OneEach(ms \cup {x}) /\ SendsOnly(s, v)
      /\ v.root = s.root /\ v.self = s.self /\ v.send.root = s.send.root
      /\ x \notin ms /\ x.from = p /\ IndexOf(x) = n /\ x.header.n \in Nat
      /\ x.key = kdf_ck_mk([root |-> s.send.root, step |-> x.header.n])
      /\ \A m \in ms : m.from = p /\ IndexOf(m) = n => m.header.n \in Nat /\ m.header.n < x.header.n
  <2>1. SealedBy(p, n, s, ms, v, x)
    BY <1>1, <1>2, Seals
  <2> QED BY <2>1 DEF SealedBy
<1>4. Says(Peer(p), t, k, ms \cup {x})
  BY <1>1, <1>2, <1>3 DEF Says
<1>5. Hears(p, v, Turns(p, n), ms \cup {x}, op)
  <2>1. \A m \in ms \cup {x} : m.from = Peer(p) => m \in ms
    BY <1>2, <1>3
  <2>2. ms \subseteq ms \cup {x}
    OBVIOUS
  <2> QED BY <1>1, <1>3, <2>1, <2>2, HearsOther DEF SendsOnly
<1>6. Hears(Peer(p), t, Turns(Peer(p), k), ms \cup {x}, op)
  <2>1. PICK q, r : q = Peer(p) /\ r = Turns(q, k)
    OBVIOUS
  <2>2. Steps(q, k, n) /\ r \in Nat
    BY <1>1, <2>1, StepsFacts
  <2>3. n = r \/ n = r + 1
    <3>1. q \in Sides
      BY <1>2, <2>1
    <3> QED BY <2>1, <2>2, <3>1, StepsFacts
  <2>4. n = r => t.recv.root = s.send.root
    BY <1>1, <1>2, <2>1 DEF Meets
  <2>5. x.from = Peer(q) /\ IndexOf(x) \in Nat /\ (IndexOf(x) = r \/ IndexOf(x) = r + 1)
    BY <1>2, <1>3, <2>1, <2>3
  <2>6. \A m \in ms : m.from = Peer(q) /\ IndexOf(m) = IndexOf(x) =>
          m.header.n \in Nat /\ m.header.n < x.header.n
    BY <1>2, <1>3, <2>1
  <2>7. IndexOf(x) = r => x.key = kdf_ck_mk([root |-> t.recv.root, step |-> x.header.n])
    BY <1>3, <2>4
  <2>8. Hears(q, t, r, ms, op) /\ op \subseteq ms /\ x.header.n \in Nat /\ x \notin ms
    BY <1>1, <1>3, <2>1
  <2>9. Hears(q, t, r, ms \cup {x}, op)
    BY <2>2, <2>5, <2>6, <2>7, <2>8, HearsMore
  <2> QED BY <2>1, <2>9
<1>7. Meets(v, Turns(p, n), t, k) /\ Meets(t, Turns(Peer(p), k), v, n)
  BY <1>1, <1>3 DEF Meets, SendsOnly
<1>8. v.ready /\ op \subseteq ms \cup {x} /\ (NoPairYet(p, n, k) => v.root = t.root)
  BY <1>1, <1>3 DEF SendsOnly
<1> QED BY <1>1, <1>3, <1>4, <1>5, <1>6, <1>7, <1>8 DEF Talking

-----------------------------------------------------------------------------
(***************************************************************************)
(* Only the initiator is ready: i is its ratchet, n its pairs.             *)
(***************************************************************************)
Calling(i, n, ini, ms, op) ==
  /\ n = 0 \/ n = 1
  /\ OneEach(ms) /\ op \subseteq ms
  /\ Own("initiator", i, n) /\ Says("initiator", i, n, ms) /\ Hears("initiator", i, 0, ms, op)
  /\ Waiting(i, n, ini, ms, op)

LEMMA CallingFrom ==
  ASSUME NEW rat, NEW prs, NEW ini, NEW ms, NEW op, InTouch(rat, prs, ini, ms, op),
         NEW p \in Sides, rat[p].ready, ~rat[Peer(p)].ready
  PROVE  /\ p = "initiator" /\ prs["responder"] = 0
         /\ Calling(rat["initiator"], prs["initiator"], ini, ms, op)
<1>1. Lockstep(prs) /\ Agreement(rat, prs, ini, ms, op) /\ OneEach(ms) /\ op \subseteq ms
  BY DEF InTouch
<1>2. p = "initiator" /\ Peer(p) = "responder"
  BY <1>1, PeerIs DEF Sides, Agreement
<1>3. prs["responder"] = 0 /\ Waiting(rat["initiator"], prs["initiator"], ini, ms, op)
  BY <1>1, <1>2 DEF Agreement
<1>4. PICK n : n = prs["initiator"]
  OBVIOUS
<1>5. n = 0 \/ n = 1
  <2>1. n \in Nat /\ n <= 0 + 1
    BY <1>1, <1>3, <1>4 DEF Lockstep, Sides
  <2> QED BY <2>1
<1>6. Turns("initiator", n) = 0
  BY <1>5 DEF Turns
<1>7. /\ Own("initiator", rat["initiator"], n) /\ Says("initiator", rat["initiator"], n, ms)
      /\ Hears("initiator", rat["initiator"], 0, ms, op)
  BY <1>2, <1>4, <1>6 DEF InTouch
<1> QED BY <1>1, <1>2, <1>3, <1>4, <1>5, <1>7 DEF Calling

LEMMA CallingTo ==
  ASSUME NEW rat, NEW prs \in [Sides -> Nat], prs["responder"] = 0, ~rat["responder"].ready,
         NEW ini, NEW ms, NEW op, Calling(rat["initiator"], prs["initiator"], ini, ms, op)
  PROVE  InTouch(rat, prs, ini, ms, op)
<1>1. prs["initiator"] = 0 \/ prs["initiator"] = 1
  BY DEF Calling
<1>2. Turns("initiator", prs["initiator"]) = 0
  BY <1>1 DEF Turns
<1>3. Lockstep(prs)
  BY <1>1 DEF Lockstep
<1>4. Agreement(rat, prs, ini, ms, op)
  BY DEF Calling, Agreement
<1>5. \A p \in Sides : rat[p].ready => p = "initiator"
  BY DEF Sides
<1> QED BY <1>2, <1>3, <1>4, <1>5 DEF Calling, InTouch

LEMMA OpensChainCalls ==
  ASSUME NEW f, DOMAIN f = Fields, NEW ini, NEW ms, NEW op, Calling(f, 0, ini, ms, op),
         NEW s, s = NewSendChain(f, RatchetKey("initiator", 1))
  PROVE  Calling(s, 1, ini, ms, op)
<1>1. PICK p : p = "initiator"
  OBVIOUS
<1>2. /\ OneEach(ms) /\ op \subseteq ms
      /\ Own(p, f, 0) /\ Says(p, f, 0, ms) /\ Hears(p, f, 0, ms, op)
      /\ Waiting(f, 0, ini, ms, op)
  BY <1>1 DEF Calling
<1>3. /\ Own(p, s, 1) /\ Says(p, s, 1, ms) /\ SendsOnly(f, s)
      /\ s.root = Append(f.root, DH(RatchetKey(p, 1), SPK(1))) /\ s.self = RatchetKey(p, 1)
  BY <1>1, <1>2, OpensChain
<1>4. Hears(p, s, 0, ms, op)
  BY <1>2, <1>3, HearsOther DEF SendsOnly
<1>5. PICK opk \in {<< >>, <<1>>} :
        ini = EncodeInitiation(IK("initiator"), EK, 1, opk) /\ f.root = Secret(opk)
  BY <1>2 DEF Waiting
<1>6. s.root = Append(Secret(opk), DH(SPK(1), s.self))
  <2>1. DH(RatchetKey(p, 1), SPK(1)) = DH(SPK(1), s.self)
    BY <1>3 DEF DH
  <2> QED BY <1>3, <1>5, <2>1
<1>7. Waiting(s, 1, ini, ms, op)
  <2>0. f.ready
    BY <1>2 DEF Waiting
  <2>1. s.ready
    BY <1>3, <2>0 DEF SendsOnly
  <2>2. (\A m \in ms : m.from = "initiator") /\ \A m \in op : m.from = "responder"
    BY <1>2 DEF Waiting
  <2> QED BY <1>5, <1>6, <2>1, <2>2 DEF Waiting
<1> QED BY <1>1, <1>2, <1>3, <1>4, <1>7 DEF Calling

LEMMA SealsCalls ==
  ASSUME NEW p, p = "initiator", NEW s, DOMAIN s = Fields, s.nSend \in Nat, s.prev \in Nat,
         NEW ini, NEW ms, NEW op, Calling(s, 1, ini, ms, op),
         NEW v, v = AfterSealing(s), NEW x, x = Sealed(p, s)
  PROVE  Calling(v, 1, ini, ms \cup {x}, op)
<1>1. p = "initiator"
  OBVIOUS
<1>2. /\ OneEach(ms) /\ op \subseteq ms
      /\ Own(p, s, 1) /\ Says(p, s, 1, ms) /\ Hears(p, s, 0, ms, op)
      /\ Waiting(s, 1, ini, ms, op)
  BY <1>1 DEF Calling
<1>3. /\ Own(p, v, 1) /\ Says(p, v, 1, ms \cup {x}) /\ OneEach(ms \cup {x}) /\ SendsOnly(s, v)
      /\ v.root = s.root /\ v.self = s.self /\ x.from = p
  <2>1. 1 \in Nat \ {0}
    OBVIOUS
  <2>2. SealedBy(p, 1, s, ms, v, x)
    BY <1>2, <2>1, Seals
  <2> QED BY <2>2 DEF SealedBy
<1>4. Hears(p, v, 0, ms \cup {x}, op)
  <2>1. \A m \in ms \cup {x} : m.from = Peer(p) => m \in ms
    BY <1>1, <1>3, PeerIs
  <2>2. ms \subseteq ms \cup {x}
    OBVIOUS
  <2> QED BY <1>2, <1>3, <2>1, <2>2, HearsOther DEF SendsOnly
<1>5. Waiting(v, 1, ini, ms \cup {x}, op)
  BY <1>1, <1>2, <1>3 DEF Waiting, SendsOnly
<1> QED BY <1>1, <1>2, <1>3, <1>4, <1>5 DEF Calling

-----------------------------------------------------------------------------
(***************************************************************************)
(* The steps of the specification.                                         *)
(***************************************************************************)
LEMMA OwnFresh ==
  ASSUME NEW p \in Sides, NEW s, NEW n \in Nat, Own(p, s, n)
  PROVE  /\ s.send = NoChain <=> n = 0
         /\ n = 0 /\ s.remote # NoKey => p = "initiator"
<1>1. n > 0 => s.send # NoChain
  <2>1. n > 0 => s.send.root # << >>
    BY DEF Own
  <2> QED BY <2>1 DEF NoChain
<1>2. n = 0 => s.remote = FirstRemote(p)
  BY DEF Own, Turns
<1> QED BY <1>1, <1>2 DEF Own, FirstRemote, Sides

\* The state p sends from.
Sending(p, s, n) == IF n = 0 THEN NewSendChain(s, RatchetKey(p, 1)) ELSE s

LEMMA SendTalks ==
  ASSUME NEW p \in Sides, NEW f, NEW n, Sound(f, {}), NEW t, NEW k, NEW ms, NEW op,
         Talking(p, f, n, t, k, ms, op), n = 0 => p = "initiator",
         NEW s, s = Sending(p, f, n), NEW v, v = AfterSealing(s), NEW x, x = Sealed(p, s)
  PROVE  Talking(p, v, IF n = 0 THEN 1 ELSE n, t, k, ms \cup {x}, op)
<1>1. DOMAIN f = Fields
  BY DEF Sound
<1>2. CASE n = 0
  <2>1. s = NewSendChain(f, RatchetKey(p, 1)) /\ p = "initiator"
    BY <1>2 DEF Sending
  <2>2. DOMAIN s = Fields /\ s.nSend \in Nat /\ s.prev \in Nat
    <3>1. Sound(s, {})
      BY <2>1, SendSound
    <3> QED BY <3>1 DEF Sound
  <2>3. Talking(p, s, 1, t, k, ms, op)
    <3>1. Talking(p, f, 0, t, k, ms, op)
      BY <1>2
    <3> QED BY <1>1, <2>1, <3>1, OpensChainTalks
  <2>4. 1 # 0
    OBVIOUS
  <2>5. Talking(p, v, 1, t, k, ms \cup {x}, op)
    BY <2>2, <2>3, <2>4, SealsTalks
  <2> QED BY <1>2, <2>5
<1>3. CASE n # 0
  <2>1. s = f
    BY <1>3 DEF Sending
  <2>2. DOMAIN s = Fields /\ s.nSend \in Nat /\ s.prev \in Nat
    BY <2>1 DEF Sound
  <2>3. Talking(p, s, n, t, k, ms, op)
    BY <2>1
  <2>4. Talking(p, v, n, t, k, ms \cup {x}, op)
    BY <1>3, <2>2, <2>3, SealsTalks
  <2> QED BY <1>3, <2>4
<1> QED BY <1>2, <1>3

LEMMA SendCalls ==
  ASSUME NEW p, p = "initiator", NEW f, NEW n, Sound(f, {}), NEW ini, NEW ms, NEW op,
         Calling(f, n, ini, ms, op),
         NEW s, s = Sending(p, f, n), NEW v, v = AfterSealing(s), NEW x, x = Sealed(p, s)
  PROVE  Calling(v, 1, ini, ms \cup {x}, op)
<1>1. DOMAIN f = Fields
  BY DEF Sound
<1>2. CASE n = 0
  <2>1. s = NewSendChain(f, RatchetKey(p, 1))
    BY <1>2 DEF Sending
  <2>2. DOMAIN s = Fields /\ s.nSend \in Nat /\ s.prev \in Nat
    <3>1. Sound(s, {})
      BY <2>1, SendSound
    <3> QED BY <3>1 DEF Sound
  <2>3. Calling(s, 1, ini, ms, op)
    <3>1. Calling(f, 0, ini, ms, op)
      BY <1>2
    <3> QED BY <1>1, <2>1, <3>1, OpensChainCalls
  <2> QED BY <2>2, <2>3, SealsCalls
<1>3. CASE n # 0
  <2>1. s = f /\ n = 1
    BY <1>3 DEF Sending, Calling
  <2>2. DOMAIN s = Fields /\ s.nSend \in Nat /\ s.prev \in Nat
    BY <2>1 DEF Sound
  <2>3. Calling(s, 1, ini, ms, op)
    BY <2>1
  <2> QED BY <2>2, <2>3, SealsCalls
<1> QED BY <1>2, <1>3

LEMMA NothingUsed ==
  ASSUME NEW s, NEW used, Sound(s, used)
  PROVE  Sound(s, {}) /\ Stepping(s) /\ DOMAIN s = Fields
BY DEF Sound, InStep, Stepping

LEMMA EncryptTouch ==
  ASSUME E2eeInv, NEW p \in Sides, encrypt(p), InTouch(ratchet, pairs, initiation, sent, opened)
  PROVE  InTouch(ratchet', pairs', initiation, sent', opened)
<1>1. PICK f, n, q : f = ratchet[p] /\ n = pairs[p] /\ q = Peer(p)
  OBVIOUS
<1>2. /\ f.ready /\ (f.send = NoChain => f.remote # NoKey)
      /\ n \in Nat /\ Own(p, f, n) /\ q \in Sides /\ q # p
      /\ pairs \in [Sides -> Nat]
  BY <1>1, PeersPeer DEF encrypt, InTouch, Lockstep
<1>3. Sound(f, {}) /\ ratchet = [i \in Sides |-> ratchet[i]]
  BY <1>1, <1>2, Ready, NothingUsed DEF E2eeInv, Ratchets
<1>4. (f.send = NoChain <=> n = 0) /\ (n = 0 => p = "initiator")
  BY <1>2, OwnFresh
<1>5. PICK s : s = Sending(p, f, n)
  OBVIOUS
<1>6. PICK v, x, n1 : v = AfterSealing(s) /\ x = Sealed(p, s) /\ n1 = IF n = 0 THEN 1 ELSE n
  OBVIOUS
<1>7. s = IF ratchet[p].send = NoChain
          THEN dh_ratchet_send_side(ratchet[p], RatchetKey(p, pairs[p] + 1)) ELSE ratchet[p]
  <2>1. n = 0 => n + 1 = 1
    OBVIOUS
  <2> QED BY <1>1, <1>4, <1>5, <2>1 DEF Sending, dh_ratchet_send_side
<1>8. sent' = sent \cup {x} /\ ratchet' = [ratchet EXCEPT ![p] = v]
  BY <1>6, <1>7 DEF encrypt, Sealed, AfterSealing
<1>9. pairs' = [pairs EXCEPT ![p] = n1]
  <2>1. pairs[p] + (IF ratchet[p].send = NoChain THEN 1 ELSE 0) = n1
    BY <1>1, <1>2, <1>4, <1>6
  <2>2. pairs' = [pairs EXCEPT ![p] = pairs[p] + (IF ratchet[p].send = NoChain THEN 1 ELSE 0)]
    BY <1>2 DEF encrypt
  <2> QED BY <2>1, <2>2
<1>10. /\ ratchet'[p] = v /\ ratchet'[q] = ratchet[q]
       /\ pairs'[p] = n1 /\ pairs'[q] = pairs[q]
  BY <1>2, <1>3, <1>8, <1>9
<1>11. pairs' \in [Sides -> Nat]
  <2>1. n1 \in Nat
    BY <1>2, <1>6
  <2> QED BY <1>2, <1>9, <2>1
<1>12. CASE ratchet[q].ready
  <2>1. Talking(p, f, n, ratchet[q], pairs[q], sent, opened)
    BY <1>1, <1>2, <1>12, TalkingFrom
  <2>2. Talking(p, v, n1, ratchet[q], pairs[q], sent \cup {x}, opened)
    BY <1>3, <1>4, <1>5, <1>6, <2>1, SendTalks
  <2>3. PICK rat, prs, ms : rat = ratchet' /\ prs = pairs' /\ ms = sent'
    OBVIOUS
  <2>4. Talking(p, rat[p], prs[p], rat[Peer(p)], prs[Peer(p)], ms, opened) /\ prs \in [Sides -> Nat]
    BY <1>1, <1>8, <1>10, <1>11, <2>2, <2>3
  <2> QED BY <2>3, <2>4, TalkingTo
<1>13. CASE ~ratchet[q].ready
  <2>1. p = "initiator" /\ q = "responder" /\ pairs["responder"] = 0
        /\ Calling(f, n, initiation, sent, opened)
    BY <1>1, <1>2, <1>13, CallingFrom, PeerIs
  <2>2. Calling(v, 1, initiation, sent \cup {x}, opened)
    BY <1>3, <1>5, <1>6, <2>1, SendCalls
  <2>3. n1 = 1
    BY <1>6, <2>1 DEF Calling
  <2>4. PICK rat, prs, ms : rat = ratchet' /\ prs = pairs' /\ ms = sent'
    OBVIOUS
  <2>5. /\ Calling(rat["initiator"], prs["initiator"], initiation, ms, opened)
        /\ prs \in [Sides -> Nat] /\ prs["responder"] = 0 /\ ~rat["responder"].ready
    BY <1>8, <1>10, <1>11, <1>13, <2>1, <2>2, <2>3, <2>4
  <2> QED BY <2>4, <2>5, CallingTo
<1> QED BY <1>12, <1>13

\* What the responder reads is what the initiator wrote.
LEMMA Decoded ==
  ASSUME NEW ik, NEW ek, NEW opk \in {<< >>, << 1 >>}, NEW b, b = EncodeInitiation(ik, ek, 1, opk)
  PROVE  /\ b # NoInitiation
         /\ DecodeInitiation(b) = [ik |-> ik, ek |-> ek, spkId |-> 1, opk |-> opk]
<1>1. PICK flag : flag = IF opk = << >> THEN 0 ELSE 1
  OBVIOUS
<1>2. PICK head : head = <<flag, ik, ek, 1>>
  OBVIOUS
<1>3. b = head \o opk
  BY <1>1, <1>2 DEF EncodeInitiation
<1> DEFINE S == {flag, ik, ek, 1}
<1>4. head \in Seq(S) /\ opk \in Seq(S) /\ Len(head) = 4
  <2>1. flag \in S /\ ik \in S /\ ek \in S /\ 1 \in S
    OBVIOUS
  <2> HIDE DEF S
  <2>2. head \in Seq(S) /\ Len(head) = 4
    BY <1>2, <2>1
  <2>3. << >> \in Seq(S) /\ <<1>> \in Seq(S)
    BY <2>1
  <2> QED BY <2>2, <2>3
<1>5. head[1] = flag /\ head[2] = ik /\ head[3] = ek /\ head[4] = 1
  BY <1>2
<1> HIDE DEF S
<1>6. /\ Len(b) = 4 + Len(opk)
      /\ \A i \in 1..(4 + Len(opk)) : b[i] = IF i <= 4 THEN head[i] ELSE opk[i - 4]
  <2>1. /\ Len(head \o opk) = Len(head) + Len(opk)
        /\ \A i \in 1..(Len(head) + Len(opk)) :
             (head \o opk)[i] = IF i <= Len(head) THEN head[i] ELSE opk[i - Len(head)]
    BY <1>4, ConcatProperties
  <2> QED BY <1>3, <1>4, <2>1
<1>7. CASE opk = << >>
  <2>1. Len(opk) = 0 /\ flag = 0
    BY <1>1, <1>7
  <2>2. Len(b) = 4 /\ b[1] = 0 /\ b[2] = ik /\ b[3] = ek /\ b[4] = 1
    BY <1>5, <1>6, <2>1
  <2> QED BY <1>7, <2>2 DEF DecodeInitiation, NoInitiation
<1>8. CASE opk = <<1>>
  <2>1. Len(opk) = 1 /\ flag = 1 /\ opk[1] = 1
    BY <1>1, <1>8
  <2>2. Len(b) = 5 /\ b[1] = 1 /\ b[2] = ik /\ b[3] = ek /\ b[4] = 1 /\ b[5] = 1
    <3>1. 4 + Len(opk) = 5 /\ 5 - 4 = 1
      BY <2>1
    <3> QED BY <1>5, <1>6, <2>1, <3>1
  <2> QED BY <1>8, <2>2 DEF DecodeInitiation, NoInitiation
<1> QED BY <1>7, <1>8

\* Of the bundles the initiator is handed, only the signed ones pass.
LEMMA GenuineBundle ==
  ASSUME NEW b \in PreKeyBundles, b.spk[3] = Signed(b.spk[1], b.spk[2])
  PROVE  b.spk[1] = 1 /\ b.spk[2] = SPK(1) /\ b.opk \in {<< >>, <<1>>}
<1>1. SPK(1) # IK("initiator")
  BY DEF SPK, IK
<1>2. Signed(1, SPK(1)) # Signed(1, IK("initiator"))
  BY <1>1 DEF Signed
<1> QED BY <1>2 DEF PreKeyBundles

LEMMA InitiateTouch ==
  ASSUME E2eeInv, NEW b \in PreKeyBundles, initiate(b),
         InTouch(ratchet, pairs, initiation, sent, opened)
  PROVE  InTouch(ratchet', pairs, initiation', sent, opened)
<1>1. /\ ~ratchet["responder"].ready
      /\ sent = {} /\ opened = {} /\ pairs["initiator"] = 0 /\ pairs["responder"] = 0
      /\ pairs \in [Sides -> Nat]
  BY DEF initiate, InTouch, Agreement, Waiting, Lockstep
<1>2. b.spk[1] = 1 /\ b.spk[2] = SPK(1) /\ b.opk \in {<< >>, <<1>>}
  BY GenuineBundle DEF initiate
<1>3. PICK opk : opk = b.opk
  OBVIOUS
<1>4. PICK i : i = init_initiator(Secret(opk), SPK(1))
  OBVIOUS
<1>5. /\ ratchet' = [ratchet EXCEPT !["initiator"] = i]
      /\ initiation' = EncodeInitiation(IK("initiator"), EK, 1, opk)
  BY <1>2, <1>3, <1>4 DEF initiate, Secret
<1>6. /\ i.ready = TRUE /\ i.root = Secret(opk) /\ i.self = NoKey /\ i.remote = SPK(1)
      /\ i.send = NoChain /\ i.recv = NoChain /\ i.nSend = 0 /\ i.nRecv = 0 /\ i.skipped = {}
  <2>1. PICK sk, remote : sk = Secret(opk) /\ remote = SPK(1)
    OBVIOUS
  <2> QED BY <1>4, <2>1 DEF init_initiator
<1>7. Calling(i, 0, initiation', {}, {})
  <2>1. Waiting(i, 0, initiation', {}, {})
    BY <1>2, <1>3, <1>5, <1>6 DEF Waiting
  <2>2. Turns("initiator", 0) = 0
    BY DEF Turns
  <2>3. Own("initiator", i, 0)
    BY <1>6, <2>2 DEF Own, FirstSelf, FirstRemote, NoChain
  <2>4. Hears("initiator", i, 0, {}, {})
    BY <1>6 DEF Hears
  <2>5. Says("initiator", i, 0, {}) /\ OneEach({})
    BY DEF Says, OneEach
  <2> QED BY <2>1, <2>3, <2>4, <2>5 DEF Calling
<1>8. ratchet'["initiator"] = i /\ ratchet'["responder"] = ratchet["responder"]
  BY <1>5 DEF E2eeInv, Ratchets, Sides
<1>9. PICK rat, ini : rat = ratchet' /\ ini = initiation'
  OBVIOUS
<1>10. Calling(rat["initiator"], pairs["initiator"], ini, sent, opened) /\ ~rat["responder"].ready
  BY <1>1, <1>7, <1>8, <1>9
<1> QED BY <1>1, <1>9, <1>10, CallingTo

LEMMA RespondTouch ==
  ASSUME E2eeInv, NEW used \in {<< >>} \cup {<<k>> : k \in prekeys.opks}, respond(used),
         InTouch(ratchet, pairs, initiation, sent, opened)
  PROVE  InTouch(ratchet', pairs, initiation, sent, opened)
<1>1. PICK i, n : i = ratchet["initiator"] /\ n = pairs["initiator"]
  OBVIOUS
<1>2. /\ ~ratchet["responder"].ready /\ initiation # NoInitiation
      /\ Accepts(DecodeInitiation(initiation), used)
  BY DEF respond
<1>3. i.ready
  BY <1>1, <1>2 DEF InTouch, Agreement, Waiting
<1>4. pairs["responder"] = 0 /\ Calling(i, n, initiation, sent, opened) /\ pairs \in [Sides -> Nat]
  <2>1. PICK p : p = "initiator"
    OBVIOUS
  <2>2. p \in Sides /\ Peer(p) = "responder"
    BY <2>1, PeerIs DEF Sides
  <2>3. ratchet[p].ready /\ ~ratchet[Peer(p)].ready
    BY <1>1, <1>2, <1>3, <2>1, <2>2
  <2>4. pairs["responder"] = 0 /\ Calling(ratchet["initiator"], pairs["initiator"], initiation, sent, opened)
    BY <2>2, <2>3, CallingFrom
  <2> QED BY <1>1, <2>4 DEF InTouch, Lockstep
<1>5. PICK opk \in {<< >>, <<1>>} :
        /\ initiation = EncodeInitiation(IK("initiator"), EK, 1, opk)
        /\ i.root = IF n = 0 THEN Secret(opk) ELSE Append(Secret(opk), DH(SPK(1), i.self))
  BY <1>4 DEF Calling, Waiting
<1>6. DecodeInitiation(initiation) = [ik |-> IK("initiator"), ek |-> EK, spkId |-> 1, opk |-> opk]
  <2>1. PICK ik, ek : ik = IK("initiator") /\ ek = EK
    OBVIOUS
  <2> QED BY <1>5, <2>1, Decoded
<1>7. /\ prekeys.spk = 1
      /\ opk # << >> => used # << >>
      /\ opk # << >> /\ used # << >> => opk = used
  BY <1>2, <1>6 DEF Accepts
<1>8. PICK r : r = init_responder(Secret(opk), SPK(1))
  OBVIOUS
<1>9. ratchet' = [ratchet EXCEPT !["responder"] = r]
  <2>1. PICK ikm : ikm = <<DH(SPK(1), IK("initiator")), DH(IK("responder"), EK), DH(SPK(1), EK)>>
                         \o (IF opk # << >> /\ used # << >> THEN <<DH(OPK(used[1]), EK)>> ELSE << >>)
    OBVIOUS
  <2>2. ratchet' = [ratchet EXCEPT !["responder"] = init_responder(derive_sk(ikm), SPK(1))]
    BY <1>6, <1>7, <2>1 DEF respond
  <2>3. derive_sk(ikm) = Secret(opk)
    <3>1. \A x, y : DH(x, y) = DH(y, x)
      BY DEF DH
    <3>2. CASE opk = << >>
      <4>1. [j \in DOMAIN opk |-> DH(EK, OPK(opk[j]))] = << >>
        BY <3>2
      <4> QED BY <2>1, <3>1, <3>2, <4>1 DEF Secret
    <3>3. CASE opk = <<1>>
      <4>1. opk # << >> /\ used # << >> /\ used[1] = 1
        BY <1>7, <3>3
      <4>2. [j \in DOMAIN opk |-> DH(EK, OPK(opk[j]))] = <<DH(EK, OPK(1))>>
        BY <3>3
      <4> QED BY <2>1, <3>1, <4>1, <4>2 DEF Secret
    <3> QED BY <3>2, <3>3
  <2> QED BY <1>8, <2>2, <2>3
<1>10. /\ r.ready = TRUE /\ r.root = Secret(opk) /\ r.self = SPK(1) /\ r.remote = NoKey
       /\ r.send = NoChain /\ r.recv = NoChain /\ r.nSend = 0 /\ r.nRecv = 0 /\ r.skipped = {}
  <2>1. PICK sk, spk : sk = Secret(opk) /\ spk = SPK(1)
    OBVIOUS
  <2> QED BY <1>8, <2>1 DEF init_initiator, init_responder
<1>11. PICK p, q : p = "initiator" /\ q = "responder"
  OBVIOUS
<1>12. /\ n = 0 \/ n = 1
       /\ OneEach(sent) /\ opened \subseteq sent
       /\ Own(p, i, n) /\ Says(p, i, n, sent) /\ Hears(p, i, 0, sent, opened)
       /\ (\A m \in sent : m.from = p) /\ \A m \in opened : m.from = q
  BY <1>4, <1>11 DEF Calling, Waiting
<1>13. Turns(p, n) = 0 /\ Turns(q, 0) = 0 /\ Peer(p) = q /\ Peer(q) = p /\ p \in Sides
  BY <1>11, <1>12, PeerIs DEF Turns, Sides
<1>14. Own(q, r, 0)
  BY <1>10, <1>11, <1>13 DEF Own, FirstSelf, FirstRemote, NoChain
<1>15. Says(q, r, 0, sent)
  BY <1>11, <1>12 DEF Says
<1>16. Hears(q, r, 0, sent, opened)
  <2>1. ASSUME NEW m \in sent PROVE ~Past(m, 0, 0) /\ IndexOf(m) # 0
    <3>1. IndexOf(m) \in 1..n /\ m.header.n \in Nat
      BY <1>12 DEF Says
    <3> QED BY <1>12, <3>1 DEF Past
  <2>2. \A m \in opened : m.from # Peer(q)
    BY <1>11, <1>12, <1>13
  <2> QED BY <1>10, <2>1, <2>2 DEF Hears
<1>17. Meets(i, 0, r, 0) /\ Meets(r, 0, i, n)
  <2>1. n = 0 + 1 => i.root = Append(r.root, DH(r.self, i.self))
    BY <1>5, <1>10
  <2> QED BY <2>1 DEF Meets
<1>18. NoPairYet(p, n, 0) => i.root = r.root
  BY <1>5, <1>10, <1>11 DEF NoPairYet
<1>19. Talking(p, i, n, r, 0, sent, opened)
  <2>1. Steps(p, n, 0)
    BY <1>11, <1>12 DEF Steps
  <2> QED BY <1>3, <1>10, <1>12, <1>13, <1>14, <1>15, <1>16, <1>17, <1>18, <2>1 DEF Talking
<1>20. ratchet'[p] = i /\ ratchet'[q] = r
  BY <1>1, <1>9, <1>11 DEF E2eeInv, Ratchets, Sides
<1>21. PICK rat : rat = ratchet'
  OBVIOUS
<1>22. Talking(p, rat[p], pairs[p], rat[Peer(p)], pairs[Peer(p)], sent, opened)
  BY <1>1, <1>4, <1>11, <1>13, <1>19, <1>20, <1>21
<1> QED BY <1>4, <1>13, <1>21, <1>22, TalkingTo

LEMMA ExpectedBelow ==
  ASSUME NEW p, NEW dh, NEW c, Bounds(c, p, dh, opened), \A x \in opened : x.header.n \in Nat
  PROVE  Expected(p, dh) \in Nat /\ Expected(p, dh) <= c
<1>1. PICK ns : ns = {m.header.n : m \in {x \in opened : x.from = p /\ x.header.dh = dh}}
  OBVIOUS
<1>2. Expected(p, dh) = IF ns = {} THEN 0 ELSE 1 + (CHOOSE n \in ns : \A k \in ns : k <= n)
  BY <1>1 DEF Expected
<1>3. c \in Nat /\ ns \subseteq Nat /\ \A n \in ns : n < c
  BY <1>1 DEF Bounds
<1>4. CASE ns = {}
  BY <1>2, <1>3, <1>4
<1>5. CASE ns # {}
  <2>1. PICK n : n = CHOOSE i \in ns : \A k \in ns : k <= i
    OBVIOUS
  <2>2. n \in ns
    BY <1>3, <1>5, <2>1, LargestBelow
  <2>3. Expected(p, dh) = 1 + n
    BY <1>2, <1>5, <2>1
  <2>4. n \in Nat /\ n < c /\ c \in Nat
    BY <1>3, <2>2
  <2> QED BY <2>3, <2>4
<1> QED BY <1>4, <1>5

LEMMA MissedFar ==
  ASSUME NEW m, Missed(m, sent, opened), m.header.n \in Nat, m.header.prev \in Nat,
         \A x \in opened : x.header.n \in Nat
  PROVE  Far(m)
<1>0. MAX_SKIP \in Nat
  BY E2eeAssumption
<1>1. ASSUME NEW c, Bounds(c, m.from, m.header.dh, opened), m.header.n > c + MAX_SKIP
      PROVE  m.header.n > Expected(m.from, m.header.dh) + MAX_SKIP
  <2>1. PICK e : e = Expected(m.from, m.header.dh)
    OBVIOUS
  <2>2. e \in Nat /\ e <= c /\ c \in Nat
    BY <1>1, <2>1, ExpectedBelow DEF Bounds
  <2> QED BY <1>0, <1>1, <2>1, <2>2
<1>2. ASSUME NEW c, NEW x \in sent, Bounds(c, m.from, x.header.dh, opened),
             m.header.prev > c + MAX_SKIP
      PROVE  m.header.prev > Expected(m.from, x.header.dh) + MAX_SKIP
  <2>1. PICK e : e = Expected(m.from, x.header.dh)
    OBVIOUS
  <2>2. e \in Nat /\ e <= c /\ c \in Nat
    BY <1>2, <2>1, ExpectedBelow DEF Bounds
  <2> QED BY <1>0, <1>2, <2>1, <2>2
<1> QED BY <1>1, <1>2 DEF Missed, Far, IndexOf

LEMMA DecryptTouch ==
  ASSUME E2eeInv, NEW p \in Sides, NEW m \in sent, decrypt(p, m),
         InTouch(ratchet, pairs, initiation, sent, opened), opened \subseteq arrived
  PROVE  /\ ~replayed' => InTouch(ratchet', pairs', initiation, sent, opened')
         /\ m \notin arrived => m \in opened' \/ Far(m)
<1>1. PICK s, n, q, t, k : s = ratchet[p] /\ n = pairs[p] /\ q = Peer(p)
                           /\ t = ratchet[q] /\ k = pairs[q]
  OBVIOUS
<1>2. PICK d, v, ok, n1 : /\ d = Decrypted(s, m, RatchetKey(p, n + 1)) /\ v = d.state /\ ok = d.ok
                          /\ n1 = n + (IF d.turned THEN 1 ELSE 0)
  OBVIOUS
<1>3. /\ s.ready /\ m.from = q
      /\ ratchet' = [ratchet EXCEPT ![p] = v]
      /\ pairs' = [pairs EXCEPT ![p] = @ + (IF d.turned THEN 1 ELSE 0)]
      /\ opened' = IF ok THEN opened \cup {m} ELSE opened
      /\ replayed' = (replayed \/ (m \in opened /\ m.header.dh # s.remote))
  BY <1>1, <1>2 DEF decrypt
<1>4. q \in Sides /\ q # p /\ pairs \in [Sides -> Nat] /\ n \in Nat /\ opened \subseteq sent
  BY <1>1, PeersPeer DEF InTouch, Lockstep
<1>5. t.ready
  <2>1. ASSUME ~t.ready PROVE FALSE
    <3>1. p = "initiator" /\ \A x \in sent : x.from = "initiator"
      BY <1>1, <1>3, <2>1, CallingFrom DEF Calling, Waiting
    <3> QED BY <1>3, <1>4, <3>1
  <2> QED BY <2>1
<1>6. Talking(p, s, n, t, k, sent, opened)
  BY <1>1, <1>3, <1>5, TalkingFrom
<1>7. DOMAIN s = Fields /\ Stepping(s) /\ ratchet = [i \in Sides |-> ratchet[i]]
  BY <1>1, <1>3, Ready, NothingUsed DEF E2eeInv, Ratchets
<1>8. ASSUME m \in opened => m.header.dh = s.remote
      PROVE  Received(p, v, n1, t, k, m, sent, opened, ok)
  BY <1>1, <1>2, <1>3, <1>6, <1>7, <1>8, DecryptTalks
<1>9. ASSUME ~replayed' PROVE InTouch(ratchet', pairs', initiation, sent, opened')
  <2>1. Received(p, v, n1, t, k, m, sent, opened, ok)
    BY <1>3, <1>8, <1>9
  <2>2. pairs' = [pairs EXCEPT ![p] = n1]
    BY <1>1, <1>2, <1>3
  <2>3. ratchet'[p] = v /\ ratchet'[q] = t /\ pairs'[p] = n1 /\ pairs'[q] = k
    BY <1>1, <1>3, <1>4, <1>7, <2>2
  <2>4. pairs' \in [Sides -> Nat]
    <3>1. n1 \in Nat
      BY <1>2, <1>4
    <3> QED BY <1>4, <2>2, <3>1
  <2>5. PICK rat, prs, op : rat = ratchet' /\ prs = pairs' /\ op = opened'
    OBVIOUS
  <2>6. Talking(p, rat[p], prs[p], rat[Peer(p)], prs[Peer(p)], sent, op) /\ prs \in [Sides -> Nat]
    BY <1>1, <1>3, <2>1, <2>3, <2>4, <2>5 DEF Received
  <2> QED BY <2>5, <2>6, TalkingTo
<1>10. ASSUME m \notin arrived, m \notin opened' PROVE Far(m)
  <2>1. m \notin opened
    BY <1>10
  <2>2. ~ok
    BY <1>3, <1>10
  <2>3. Missed(m, sent, opened)
    BY <1>8, <2>1, <2>2 DEF Received
  <2> QED BY <1>4, <2>3, MissedFar DEF E2eeInv, SentTypes
<1> QED BY <1>9, <1>10

LEMMA TouchInit == E2eeInit => TouchInv
<1> SUFFICES ASSUME E2eeInit PROVE TouchInv
  OBVIOUS
<1>1. /\ ratchet = [p \in Sides |-> NoRatchet] /\ pairs = [p \in Sides |-> 0]
      /\ initiation = NoInitiation /\ sent = {} /\ opened = {} /\ replayed = FALSE
  BY DEF E2eeInit
<1>2. \A p \in Sides : ~ratchet[p].ready /\ pairs[p] = 0
  BY <1>1 DEF NoRatchet
<1>3. Lockstep(pairs)
  BY <1>1 DEF Lockstep, Sides
<1>4. Agreement(ratchet, pairs, initiation, sent, opened) /\ OneEach(sent)
  BY <1>1, <1>2 DEF Agreement, OneEach, Sides
<1> QED BY <1>1, <1>2, <1>3, <1>4 DEF TouchInv, InTouch

\* One step: what has been said and heard stays so, and a first arrival opens.
LEMMA TouchStep ==
  ASSUME E2eeInv, TouchInv, [E2eeNext]_e2eeVars
  PROVE  /\ TouchInv'
         /\ \A m \in arrived' \ arrived : m \in opened' \/ Far(m) \/ replayed
<1>1. ASSUME UNCHANGED <<ratchet, pairs, initiation, sent, opened, arrived, replayed>>
      PROVE  TouchInv' /\ \A m \in arrived' \ arrived : m \in opened' \/ Far(m) \/ replayed
  BY <1>1 DEF TouchInv
<1>2. ASSUME UNCHANGED <<opened, arrived, replayed>>,
             ~replayed => InTouch(ratchet', pairs', initiation', sent', opened)
      PROVE  TouchInv' /\ \A m \in arrived' \ arrived : m \in opened' \/ Far(m) \/ replayed
  BY <1>2 DEF TouchInv
<1>3. ASSUME NEW b \in PreKeyBundles, initiate(b)
      PROVE  TouchInv' /\ \A m \in arrived' \ arrived : m \in opened' \/ Far(m) \/ replayed
  <2>1. UNCHANGED <<opened, arrived, replayed, pairs, sent>>
    BY <1>3 DEF initiate
  <2>2. ~replayed => InTouch(ratchet', pairs', initiation', sent', opened)
    BY <1>3, <2>1, InitiateTouch DEF TouchInv
  <2> QED BY <1>2, <2>1, <2>2
<1>4. ASSUME NEW opk \in {<< >>} \cup {<<k>> : k \in prekeys.opks}, respond(opk)
      PROVE  TouchInv' /\ \A m \in arrived' \ arrived : m \in opened' \/ Far(m) \/ replayed
  <2>1. UNCHANGED <<opened, arrived, replayed, pairs, sent, initiation>>
    BY <1>4 DEF respond
  <2>2. ~replayed => InTouch(ratchet', pairs', initiation', sent', opened)
    BY <1>4, <2>1, RespondTouch DEF TouchInv
  <2> QED BY <1>2, <2>1, <2>2
<1>5. ASSUME NEW p \in Sides, encrypt(p)
      PROVE  TouchInv' /\ \A m \in arrived' \ arrived : m \in opened' \/ Far(m) \/ replayed
  <2>1. UNCHANGED <<opened, arrived, replayed, initiation>>
    BY <1>5 DEF encrypt
  <2>2. ~replayed => InTouch(ratchet', pairs', initiation', sent', opened)
    BY <1>5, <2>1, EncryptTouch DEF TouchInv
  <2> QED BY <1>2, <2>1, <2>2
<1>6. ASSUME NEW p \in Sides, NEW m \in sent, decrypt(p, m)
      PROVE  TouchInv' /\ \A x \in arrived' \ arrived : x \in opened' \/ Far(x) \/ replayed
  <2>1. /\ UNCHANGED <<initiation, sent>> /\ arrived' = arrived \cup {m}
        /\ opened' = opened \/ opened' = opened \cup {m}
        /\ replayed' = (replayed \/ (m \in opened /\ m.header.dh # ratchet[p].remote))
    BY <1>6 DEF decrypt
  <2>2. opened' \subseteq arrived' /\ replayed' \in BOOLEAN /\ (replayed => replayed')
    BY <2>1 DEF TouchInv
  <2>3. CASE replayed
    BY <2>2, <2>3 DEF TouchInv
  <2>4. CASE ~replayed
    <3>1. /\ ~replayed' => InTouch(ratchet', pairs', initiation, sent, opened')
          /\ m \notin arrived => m \in opened' \/ Far(m)
      BY <1>6, <2>4, DecryptTouch DEF TouchInv
    <3>2. ~replayed' => InTouch(ratchet', pairs', initiation', sent', opened')
      BY <2>1, <3>1
    <3> QED BY <2>1, <2>2, <3>1, <3>2 DEF TouchInv
  <2> QED BY <2>3, <2>4
<1>7. CASE RotateSpk
  BY <1>1, <1>7 DEF RotateSpk
<1>8. ASSUME NEW p \in Sides, EncryptPanics(p)
      PROVE  TouchInv' /\ \A m \in arrived' \ arrived : m \in opened' \/ Far(m) \/ replayed
  BY <1>1, <1>8 DEF EncryptPanics
<1>9. CASE UNCHANGED e2eeVars
  BY <1>1, <1>9 DEF e2eeVars
<1> QED BY <1>3, <1>4, <1>5, <1>6, <1>7, <1>8, <1>9 DEF E2eeNext

(***************************************************************************)
(* The first arrival of a message opens it, in whatever order the network  *)
(* brings the messages and however many it loses, unless it lies more than *)
(* MAX_SKIP ahead or an opened message came again after its chain had      *)
(* ended: the agreement gave both sides one secret, the ratchets turn in   *)
(* step, and the kept keys cover the ended chains (ratchet.rs decrypt and  *)
(* skip_to, x3dh.rs initiate and respond).                                 *)
(***************************************************************************)
THEOREM FirstArrivalOpens == E2eeSpec => OpensUnlessFar
<1>1. E2eeInit => E2eeInv /\ TouchInv
  BY E2eeInitInv, TouchInit
<1>2. E2eeInv /\ TouchInv /\ [E2eeNext]_e2eeVars => (E2eeInv /\ TouchInv)'
  BY E2eeStep, TouchStep
<1>3. E2eeInv /\ TouchInv /\ [E2eeNext]_e2eeVars
        => [\A m \in arrived' \ arrived : m \in opened' \/ Far(m) \/ replayed]_e2eeVars
  BY TouchStep
<1> QED BY <1>1, <1>2, <1>3, PTL DEF E2eeSpec, OpensUnlessFar
=============================================================================
