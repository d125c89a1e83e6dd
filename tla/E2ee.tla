-------------------------------- MODULE E2ee --------------------------------
(***************************************************************************)
(* End-to-end encryption: the X3DH agreement (im-crypto/src/e2ee/x3dh.rs)  *)
(* followed by the double ratchet (im-crypto/src/e2ee/ratchet.rs) between  *)
(* an initiator and a responder, over a network that reorders, loses and   *)
(* repeats messages.                                                       *)
(*                                                                         *)
(* Keys are symbolic.  A key pair is named by its owner and a number, the  *)
(* shared secret of two pairs is the set of the two names, a root key is   *)
(* the sequence of the secrets hashed into it and a chain key is a root    *)
(* with the number of steps taken: two keys are equal exactly when the     *)
(* code hashes equal inputs in the same order.                             *)
(***************************************************************************)
EXTENDS Naturals, Sequences, FiniteSets

CONSTANTS
    MAX_SKIP,        \* how far one chain may jump (100 in the code)
    MaxSent,         \* bound: messages encrypted by both sides together
    MaxRepeats       \* bound: deliveries of a message that arrived before

ASSUME E2eeAssumption == MAX_SKIP \in Nat /\ MaxSent \in Nat /\ MaxRepeats \in Nat

VARIABLES
    prekeys,         \* the responder's own keys: current SPK, OPKs still held
    initiation,      \* the encoded X3dhInitiation, or NoInitiation
    ratchet,         \* the RatchetState of each side, or NoRatchet
    pairs,           \* how many key pairs each side has generated
    sent,            \* every message encrypted so far
    arrived,         \* the messages that reached their addressee at least once
    repeats,         \* deliveries of messages that had arrived before
    opened,          \* the messages decrypted
    openedAgain,     \* the messages decrypted more than once
    replayed,        \* a message already opened came again after its chain ended
    panicked         \* the sides whose call hit an expect

e2eeVars == <<prekeys, initiation, ratchet, pairs, sent, arrived, repeats,
              opened, openedAgain, replayed, panicked>>

Sides == {"initiator", "responder"}
Peer(p) == CHOOSE q \in Sides : q # p

NoKey == << >>
NoChain == [root |-> << >>, step |-> 0]
NoRatchet == [ready |-> FALSE]
NoInitiation == << >>

(***************************************************************************)
(* Key pairs and the key derivations.                                      *)
(***************************************************************************)
IK(p) == <<p, "identity">>
SPK(id) == <<"responder", "signed", id>>
OPK(id) == <<"responder", "onetime", id>>
EK == <<"initiator", "ephemeral">>
RatchetKey(p, k) == <<p, "ratchet", k>>

DH(a, b) == {a, b}

derive_sk(ikm) == <<ikm>>

\* The new root and the chain it opens.
kdf_rk(rk, dh) == [rk |-> Append(rk, dh), ck |-> [root |-> Append(rk, dh), step |-> 0]]
kdf_ck_next(ck) == [ck EXCEPT !.step = @ + 1]
kdf_ck_mk(ck) == <<"message key", ck>>

(***************************************************************************)
(* X3DH.  The bundles the initiator may be handed: the genuine one, with a *)
(* one-time key or after the stock ran out, and one whose signed key was   *)
(* exchanged for a key the identity never signed.                          *)
(***************************************************************************)
Signed(id, public) == <<IK("responder"), id, public>>

PreKeyBundles ==
    { [spk |-> <<1, SPK(1), Signed(1, SPK(1))>>, opk |-> <<1>>],
      [spk |-> <<1, SPK(1), Signed(1, SPK(1))>>, opk |-> << >>],
      [spk |-> <<1, IK("initiator"), Signed(1, SPK(1))>>, opk |-> <<1>>] }

\* The layout of the initiation: a flag for the one-time key, the two public
\* keys, the signed key's id and, when the flag is set, the one-time key's id.
EncodeInitiation(ik, ek, spkId, opk) ==
    <<IF opk = << >> THEN 0 ELSE 1, ik, ek, spkId>> \o opk

Truncated(bytes) == Len(bytes) < 4 \/ (bytes[1] = 1 /\ Len(bytes) < 5)

DecodeInitiation(bytes) ==
    [ik |-> bytes[2], ek |-> bytes[3], spkId |-> bytes[4],
     opk |-> IF bytes[1] = 1 THEN <<bytes[5]>> ELSE << >>]

init_initiator(sk, remote) ==
    [ready |-> TRUE, root |-> sk, self |-> NoKey, remote |-> remote,
     send |-> NoChain, recv |-> NoChain, nSend |-> 0, nRecv |-> 0, prev |-> 0,
     skipped |-> {}]

init_responder(sk, spk) ==
    [init_initiator(sk, NoKey) EXCEPT !.self = spk]

initiate(bundle) ==
    LET spk == bundle.spk[2]
        ikm == <<DH(IK("initiator"), spk), DH(EK, IK("responder")), DH(EK, spk)>>
               \o [i \in DOMAIN bundle.opk |-> DH(EK, OPK(bundle.opk[i]))]
    IN  /\ ~ratchet["initiator"].ready
        /\ bundle.spk[3] = Signed(bundle.spk[1], spk)
        /\ ratchet' = [ratchet EXCEPT !["initiator"] = init_initiator(derive_sk(ikm), spk)]
        /\ initiation' = EncodeInitiation(IK("initiator"), EK, bundle.spk[1], bundle.opk)
        /\ UNCHANGED <<prekeys, pairs, sent, arrived, repeats, opened, openedAgain,
                       replayed, panicked>>

\* What the responder accepts: its current signed key, and a one-time key
\* exactly when it passes the one that was used.
Accepts(ini, opk) ==
    /\ ini.spkId = prekeys.spk
    /\ (ini.opk # << >> /\ opk # << >>) => ini.opk = opk
    /\ ini.opk # << >> => opk # << >>

\* opk is what the caller looked up: nothing, or a one-time key still held.
\* The caller burns the key it passed.
respond(opk) ==
    LET ini == DecodeInitiation(initiation)
        ikm == <<DH(SPK(prekeys.spk), ini.ik), DH(IK("responder"), ini.ek),
                 DH(SPK(prekeys.spk), ini.ek)>>
               \o (IF ini.opk # << >> /\ opk # << >> THEN <<DH(OPK(opk[1]), ini.ek)>> ELSE << >>)
    IN  /\ ~ratchet["responder"].ready
        /\ initiation # NoInitiation
        /\ ~Truncated(initiation)
        /\ Accepts(ini, opk)
        /\ ratchet' = [ratchet EXCEPT !["responder"] =
                           init_responder(derive_sk(ikm), SPK(prekeys.spk))]
        /\ prekeys' = [prekeys EXCEPT !.opks = @ \ {opk[i] : i \in DOMAIN opk}]
        /\ UNCHANGED <<initiation, pairs, sent, arrived, repeats, opened, openedAgain,
                       replayed, panicked>>

\* The responder replaces its signed key before it has answered.
RotateSpk ==
    /\ prekeys.spk = 1
    /\ ~ratchet["responder"].ready
    /\ prekeys' = [prekeys EXCEPT !.spk = 2]
    /\ UNCHANGED <<initiation, ratchet, pairs, sent, arrived, repeats, opened,
                   openedAgain, replayed, panicked>>

(***************************************************************************)
(* The double ratchet.                                                     *)
(***************************************************************************)
\* One DH step on the sending side with the fresh pair key.
NewSendChain(s, key) ==
    LET d == kdf_rk(s.root, DH(key, s.remote))
    IN  [s EXCEPT !.root = d.rk, !.self = key, !.prev = s.nSend, !.send = d.ck, !.nSend = 0]

dh_ratchet_send_side(s, key) == NewSendChain(s, key)

\* Two DH steps: the peer's new chain under the old pair, then the own chain
\* under the fresh pair key.
dh_ratchet_recv_side(s, remote, key) ==
    LET d == kdf_rk(s.root, DH(s.self, remote))
    IN  NewSendChain([s EXCEPT !.remote = remote, !.root = d.rk, !.recv = d.ck, !.nRecv = 0],
                     key)

TooFar(s, until) == until < s.nRecv \/ until - s.nRecv > MAX_SKIP

\* The chain key n steps further on.
Ahead(ck, n) == [ck EXCEPT !.step = @ + n]

\* The keys of the numbers from nRecv on that a jump to until passes over.
PassedKeys(s, remote, chain, until) ==
    {[dh |-> remote, n |-> n, mk |-> kdf_ck_mk(Ahead(chain, n - s.nRecv))] :
        n \in s.nRecv .. until - 1}

\* Inserted into the map of kept keys, a key takes the place of the one that
\* was kept under the same peer key and number.
insert(kept, keys) ==
    {k \in kept : \A i \in keys : i.dh # k.dh \/ i.n # k.n} \cup keys

\* A jump that hands back the chain key it was given.
skip_to_KeepsChain(s, remote, chain, until) ==
    [state |-> [s EXCEPT !.nRecv = until,
                         !.skipped = insert(@, PassedKeys(s, remote, chain, until))],
     chain |-> chain]

\* The state and the chain key after jumping to until on the chain of remote:
\* the keys jumped over are kept under the peer's key and their number.
skip_to(s, remote, chain, until) ==
    [state |-> [s EXCEPT !.nRecv = until,
                         !.skipped = insert(@, PassedKeys(s, remote, chain, until))],
     chain |-> Ahead(chain, until - s.nRecv)]

sealed_message(p, mk, header) == [from |-> p, header |-> header, key |-> mk]
open(mk, m) == m.key = mk

\* The first message of the initiator opens its sending chain; a responder
\* that has received nothing has no peer key to do so and panics.
encrypt(p) ==
    LET fresh == ratchet[p].send = NoChain
        s == IF fresh THEN dh_ratchet_send_side(ratchet[p], RatchetKey(p, pairs[p] + 1))
             ELSE ratchet[p]
    IN  /\ ratchet[p].ready
        /\ p \notin panicked
        /\ Cardinality(sent) < MaxSent
        /\ fresh => ratchet[p].remote # NoKey
        /\ sent' = sent \cup {sealed_message(p, kdf_ck_mk(s.send),
                                   [dh |-> s.self, prev |-> s.prev, n |-> s.nSend])}
        /\ ratchet' = [ratchet EXCEPT ![p] =
                           [s EXCEPT !.send = kdf_ck_next(@), !.nSend = @ + 1]]
        /\ pairs' = [pairs EXCEPT ![p] = @ + (IF fresh THEN 1 ELSE 0)]
        /\ UNCHANGED <<prekeys, initiation, arrived, repeats, opened, openedAgain,
                       replayed, panicked>>

EncryptPanics(p) ==
    /\ ratchet[p].ready
    /\ p \notin panicked
    /\ ratchet[p].send = NoChain
    /\ ratchet[p].remote = NoKey
    /\ panicked' = panicked \cup {p}
    /\ UNCHANGED <<prekeys, initiation, ratchet, pairs, sent, arrived, repeats, opened,
                   openedAgain, replayed>>

\* The kept keys that fit the header.
Kept(s, m) == {k \in s.skipped : k.dh = m.header.dh /\ k.n = m.header.n}

\* A kept key that stays after its use.
TakeKept_Leaves(s, k) == s

\* A kept key is taken out before the message is tried.
TakeKept(s, k) == [s EXCEPT !.skipped = @ \ {k}]

\* The state when the header names a new peer key: the rest of the ended
\* chain is kept, then both chains are replaced.  Unchanged otherwise.
OldChainTooFar(s, m) ==
    /\ m.header.dh # s.remote
    /\ s.remote # NoKey /\ s.recv # NoChain
    /\ TooFar(s, m.header.prev)

Turned(s, m, key) ==
    IF m.header.dh = s.remote THEN s
    ELSE dh_ratchet_recv_side(
             IF s.remote # NoKey /\ s.recv # NoChain
             THEN skip_to(s, s.remote, s.recv, m.header.prev).state ELSE s,
             m.header.dh, key)

\* [state, ok, turned]: the outcome of decrypting m in state s, key being the
\* next fresh pair.
Decrypted(s, m, key) ==
    LET t == Turned(s, m, key)
        j == skip_to(t, t.remote, t.recv, m.header.n)
        turned == m.header.dh # s.remote
    IN  IF Kept(s, m) # {}
        THEN LET k == CHOOSE k \in Kept(s, m) : TRUE
             IN  [state |-> TakeKept(s, k), ok |-> open(k.mk, m), turned |-> FALSE]
        ELSE IF OldChainTooFar(s, m)
        THEN [state |-> s, ok |-> FALSE, turned |-> FALSE]
        ELSE IF TooFar(t, m.header.n)
        THEN [state |-> t, ok |-> FALSE, turned |-> turned]
        ELSE [state |-> [j.state EXCEPT !.recv = kdf_ck_next(j.chain),
                                        !.nRecv = m.header.n + 1],
              ok |-> open(kdf_ck_mk(j.chain), m), turned |-> turned]

decrypt(p, m) ==
    LET d == Decrypted(ratchet[p], m, RatchetKey(p, pairs[p] + 1))
    IN  /\ ratchet[p].ready
        /\ p \notin panicked
        /\ m \in sent /\ m.from = Peer(p)
        /\ m \in arrived => repeats < MaxRepeats
        /\ repeats' = IF m \in arrived THEN repeats + 1 ELSE repeats
        /\ arrived' = arrived \cup {m}
        /\ ratchet' = [ratchet EXCEPT ![p] = d.state]
        /\ pairs' = [pairs EXCEPT ![p] = @ + (IF d.turned THEN 1 ELSE 0)]
        /\ opened' = IF d.ok THEN opened \cup {m} ELSE opened
        /\ openedAgain' = IF d.ok /\ m \in opened THEN openedAgain \cup {m} ELSE openedAgain
        /\ replayed' = (replayed \/ (m \in opened /\ m.header.dh # ratchet[p].remote))
        /\ UNCHANGED <<prekeys, initiation, sent, panicked>>

E2eeInit ==
    /\ prekeys = [spk |-> 1, opks |-> {1, 2}]
    /\ initiation = NoInitiation
    /\ ratchet = [p \in Sides |-> NoRatchet]
    /\ pairs = [p \in Sides |-> 0]
    /\ sent = {} /\ arrived = {} /\ repeats = 0
    /\ opened = {} /\ openedAgain = {} /\ replayed = FALSE
    /\ panicked = {}

E2eeNext ==
    \/ \E b \in PreKeyBundles : initiate(b)
    \/ \E opk \in {<< >>} \cup {<<k>> : k \in prekeys.opks} : respond(opk)
    \/ RotateSpk
    \/ \E p \in Sides : encrypt(p) \/ EncryptPanics(p)
    \/ \E p \in Sides, m \in sent : decrypt(p, m)

E2eeSpec == E2eeInit /\ [][E2eeNext]_e2eeVars

(***************************************************************************)
(* Properties.                                                             *)
(***************************************************************************)
\* The next number of a sender's chain that no opened message has passed.
Expected(p, dh) ==
    LET ns == {m.header.n : m \in {x \in opened : x.from = p /\ x.header.dh = dh}}
    IN  IF ns = {} THEN 0 ELSE 1 + (CHOOSE n \in ns : \A k \in ns : k <= n)

\* m lies more than MAX_SKIP past what its chain, or the sender's chain before
\* it, has delivered.
Far(m) ==
    \/ m.header.n > Expected(m.from, m.header.dh) + MAX_SKIP
    \/ \E x \in sent :
          /\ x.from = m.from
          /\ x.header.dh[3] + 1 = m.header.dh[3]
          /\ m.header.prev > Expected(m.from, x.header.dh) + MAX_SKIP

\* Whatever order the network brings the messages in, and however many are
\* lost, the first arrival of a message a session partner encrypted is
\* decrypted, unless it lies more than MAX_SKIP messages ahead: the agreement
\* gave both the same secret, the two ratchets turn in step, and the kept keys
\* cover the ended chains (ratchet.rs decrypt, skip_to; x3dh.rs respond).  A
\* message repeated after its chain has ended is excluded here.
OpensUnlessFar ==
    [][\A m \in arrived' \ arrived : m \in opened' \/ Far(m) \/ replayed]_e2eeVars

\* The same without the exclusion: what ratchet.rs says of reordering and
\* retransmission.
OpensDespiteReplay ==
    [][\A m \in arrived' \ arrived : m \in opened' \/ Far(m)]_e2eeVars

\* A message repeated by the network is never decrypted a second time, on any
\* chain and in any state the repetition itself leads to (the message key is
\* gone after one use).
OpenedOnce == openedAgain = {}
=============================================================================
