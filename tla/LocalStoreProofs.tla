-------------------------- MODULE LocalStoreProofs --------------------------
(***************************************************************************)
(* Proofs about what a client keeps on its disk and shows of it as files.  *)
(* Module Outbox, for every number of messages, connections and crashes    *)
(* and every limit of attempts; module Engine, which is the map of KVStore *)
(* for every set of keys and values, every threshold and every number of   *)
(* operations, compactions and crashes; module Mount with the cache of     *)
(* module Lru, for every set of names, every view of contacts and messages *)
(* and every capacity.                                                     *)
(***************************************************************************)
EXTENDS Outbox, Engine, Mount, FiniteSetTheorems, SequenceTheorems, TLAPS

(***************************************************************************)
(* The outbox.                                                             *)
(***************************************************************************)
\* Messages that exist.
Minted == {n \in Ids : minted[n] > 0}

\* Memory mirrors the retry table, and only a connected process is busy.
Mirror ==
  /\ connected => running
  /\ job # Idle => connected
  /\ running => inflight = pending
  /\ job.kind = "send" => job.ids \subseteq pending

\* A message that is in the retry table is not settled.
Unsettled == pending \cap (server_has \cup gave_up) = {}

\* Everything that bears an id bears the id of a message.
Traces == pending \cup wire \cup server_has \cup gave_up \subseteq Minted

\* Ids are given in order; the one being given is new.
Counter ==
  /\ \A n \in Minted : n <= seq
  /\ job.kind = "enqueue" => job.id = seq /\ job.id \notin Minted

OutboxInv ==
  /\ TypeOK /\ Mirror /\ Unsettled /\ Traces /\ Counter
  /\ NeverReused /\ KeptUntilSettled

(***************************************************************************)
(* Type correctness of one step.                                           *)
(***************************************************************************)
LEMMA OutboxTypeStep ==
  ASSUME TypeOK, Mirror, [Next]_vars
  PROVE TypeOK'
<1> USE OutboxAssumption DEF TypeOK
<1>1. CASE Connect
  BY <1>1 DEF Connect, resends, Sending, disk
<1>2. CASE Disconnect
  BY <1>2 DEF Disconnect, disk
<1>3. CASE BatchSent
  BY <1>3 DEF BatchSent, disk
<1>4. CASE EnqueueSeq
  <2>1. seq' \in 0..MaxMsgs /\ seq + 1 \in Ids
    BY <1>4 DEF EnqueueSeq, Ids
  <2>2. job' \in [kind : {"enqueue", "ack"}, id : Ids]
    BY <1>4, <2>1 DEF EnqueueSeq
  <2>3. UNCHANGED <<pending, disk_attempts, history, running, connected, inflight,
                    attempts, status, wire, connects, crashes, minted, sends,
                    server_has, gave_up>>
    BY <1>4 DEF EnqueueSeq
  <2> QED BY <2>1, <2>2, <2>3
<1>5. CASE EnqueuePending
  <2>1. job.id \in Ids
    BY <1>5 DEF EnqueuePending, Idle
  <2>2. Sending({job.id}) \in [kind : {"send"}, ids : SUBSET Ids]
    BY <2>1 DEF Sending
  <2>3. status' \in [Ids -> {"none", "sending", "delivered", "failed"}]
    BY <1>5, <2>1 DEF EnqueuePending
  <2>4. minted' \in [Ids -> Nat] /\ attempts' \in [Ids -> 0..RETRY_MAX_ATTEMPTS]
           /\ disk_attempts' \in [Ids -> 0..RETRY_MAX_ATTEMPTS]
    BY <1>5, <2>1 DEF EnqueuePending
  <2>5. job' \in [kind : {"send"}, ids : SUBSET Ids]
    BY <1>5, <2>2 DEF EnqueuePending
  <2>6. pending' \subseteq Ids /\ inflight' \subseteq Ids
    BY <1>5, <2>1 DEF EnqueuePending
  <2>7. UNCHANGED <<seq, history, running, connected, wire, connects, crashes,
                    sends, server_has, gave_up>>
    BY <1>5 DEF EnqueuePending
  <2> QED BY <2>3, <2>4, <2>5, <2>6, <2>7
<1>6. CASE AckPut
  <2>1. job.id \in Ids
    BY <1>6 DEF AckPut, Idle
  <2>2. status' \in [Ids -> {"none", "sending", "delivered", "failed"}]
    BY <1>6, <2>1 DEF AckPut, Shown
  <2> QED BY <1>6, <2>1, <2>2 DEF AckPut
<1>7. CASE Crash
  <2>1. status' \in [Ids -> {"none", "sending", "delivered", "failed"}]
    BY <1>7 DEF Crash
  <2>2. attempts' \in [Ids -> 0..RETRY_MAX_ATTEMPTS]
    BY <1>7 DEF Crash
  <2>0. running' = FALSE /\ connected' = FALSE
    BY <1>7 DEF Crash
  <2>3. crashes' \in Nat /\ inflight' = {} /\ job' = Idle /\ wire' = {}
    BY <1>7 DEF Crash
  <2>4. UNCHANGED <<seq, pending, disk_attempts, history, connects, minted, sends,
                    server_has, gave_up>>
    BY <1>7 DEF Crash, disk
  <2> QED BY <2>0, <2>1, <2>2, <2>3, <2>4 DEF Idle
<1>8. CASE load
  <2>1. attempts' \in [Ids -> 0..RETRY_MAX_ATTEMPTS]
    BY <1>8 DEF load, pending_all
  <2>2. inflight' = pending /\ running' = TRUE
           /\ UNCHANGED <<seq, pending, disk_attempts, history, connected, job, status,
                          wire, connects, crashes, minted, sends, server_has, gave_up>>
    BY <1>8 DEF load, pending_all, disk
  <2> QED BY <2>1, <2>2
<1>9. ASSUME NEW n \in Ids, SendNext(n) PROVE TypeOK'
  <2>1. job.ids \in SUBSET Ids
    BY <1>9 DEF SendNext, Idle
  <2>2. job' \in [kind : {"send"}, ids : SUBSET Ids]
    BY <1>9, <2>1 DEF SendNext, Sending
  <2>3. sends[n] + 1 \in Nat
    OBVIOUS
  <2>4. sends' \in [Ids -> Nat] /\ wire' \subseteq Ids
    BY <1>9, <2>3 DEF SendNext
  <2> QED BY <1>9, <2>2, <2>4 DEF SendNext, disk
<1>10. ASSUME NEW n \in Ids, AckDelete(n) PROVE TypeOK'
  BY <1>10 DEF AckDelete
<1>11. ASSUME NEW n \in Ids, LateAck(n) PROVE TypeOK'
  <2>1. status' \in [Ids -> {"none", "sending", "delivered", "failed"}]
    BY <1>11 DEF LateAck, Shown
  <2> QED BY <1>11, <2>1 DEF LateAck, disk
<1>12. ASSUME NEW n \in Ids, DueResend(n) PROVE TypeOK'
  <2>0. attempts[n] \in 0..RETRY_MAX_ATTEMPTS
    OBVIOUS
  <2>1. attempts[n] + 1 \in 0..RETRY_MAX_ATTEMPTS
    BY <1>12, <2>0 DEF DueResend, pending_set_attempts
  <2>2. attempts' \in [Ids -> 0..RETRY_MAX_ATTEMPTS]
           /\ disk_attempts' \in [Ids -> 0..RETRY_MAX_ATTEMPTS]
    BY <1>12, <2>1 DEF DueResend, pending_set_attempts
  <2>3. job' \in [kind : {"send"}, ids : SUBSET Ids]
    BY <1>12 DEF DueResend, pending_set_attempts, Sending
  <2> QED BY <1>12, <2>2, <2>3 DEF DueResend, pending_set_attempts
<1>13. ASSUME NEW n \in Ids, DueGiveUp(n) PROVE TypeOK'
  <2>1. status' \in [Ids -> {"none", "sending", "delivered", "failed"}]
    BY <1>13 DEF DueGiveUp, Shown
  <2> QED BY <1>13, <2>1 DEF DueGiveUp
<1>14. CASE UNCHANGED vars
  BY <1>14 DEF vars, disk
<1> QED
  BY <1>1, <1>2, <1>3, <1>4, <1>5, <1>6, <1>7, <1>8, <1>9, <1>10, <1>11, <1>12,
     <1>13, <1>14 DEF Next

(***************************************************************************)
(* The other parts of the invariant, action by action.                     *)
(***************************************************************************)
LEMMA OutboxStep ==
  ASSUME OutboxInv, [Next]_vars, TypeOK'
  PROVE Mirror' /\ Unsettled' /\ Traces' /\ Counter' /\ NeverReused' /\ KeptUntilSettled'
<1> USE OutboxAssumption DEF OutboxInv, Mirror, Unsettled, Traces, Counter, NeverReused,
                             KeptUntilSettled, Minted
<1>a. seq \in Nat /\ pending \subseteq Ids /\ inflight \subseteq Ids
         /\ minted \in [Ids -> Nat] /\ wire \subseteq Ids
         /\ server_has \subseteq Ids /\ gave_up \subseteq Ids
  BY DEF TypeOK
<1>b. \A n \in Ids : n \in Nat
  BY DEF Ids
<1>1. CASE Connect
  BY <1>1, <1>a DEF Connect, resends, Sending, Idle, disk
<1>2. CASE Disconnect
  BY <1>2, <1>a DEF Disconnect, Idle, disk
<1>3. CASE BatchSent
  BY <1>3, <1>a DEF BatchSent, Idle, disk
<1>4. CASE EnqueueSeq
  <2>1. job' = [kind |-> "enqueue", id |-> seq + 1] /\ seq' = seq + 1 /\ connected
           /\ UNCHANGED <<pending, running, connected, inflight, wire, minted,
                          server_has, gave_up>>
    BY <1>4 DEF EnqueueSeq, Free
  <2>2. \A n \in Minted : n <= seq /\ n <= seq + 1 /\ n # seq + 1
    BY <1>a, <1>b
  <2> QED BY <2>1, <2>2, <1>a
<1>5. CASE EnqueuePending
  <2> DEFINE n == job.id
  <2>1. n \in Ids /\ n = seq /\ n \notin Minted /\ connected /\ running
    BY <1>5 DEF EnqueuePending, Idle, TypeOK
  <2>2. /\ pending' = pending \cup {n} /\ inflight' = inflight \cup {n}
        /\ minted' = [minted EXCEPT ![n] = @ + 1]
        /\ job' = [kind |-> "send", ids |-> {n}]
        /\ UNCHANGED <<seq, running, connected, wire, server_has, gave_up>>
    BY <1>5 DEF EnqueuePending, Sending
  <2>3. minted[n] = 0 /\ minted'[n] = 1
    BY <2>1, <2>2, <1>a
  <2>4. \A m \in Ids \ {n} : minted'[m] = minted[m]
    BY <2>2, <1>a
  <2>5. Minted' = Minted \cup {n}
    BY <2>1, <2>3, <2>4
  <2>6. Mirror'
    BY <2>1, <2>2, <1>a
  <2>7. Unsettled' /\ Traces'
    BY <2>1, <2>2, <2>5
  <2>8. Counter'
    BY <2>1, <2>2, <2>5, <1>a
  <2>9. NeverReused' /\ KeptUntilSettled'
    BY <2>1, <2>2, <2>3, <2>4
  <2> QED BY <2>6, <2>7, <2>8, <2>9
<1>6. CASE AckPut
  BY <1>6, <1>a DEF AckPut, Idle
<1>7. CASE Crash
  BY <1>7, <1>a DEF Crash, Idle, disk
<1>8. CASE load
  BY <1>8, <1>a DEF load, pending_all, Idle, disk
<1>9. ASSUME NEW n \in Ids, SendNext(n) PROVE
        Mirror' /\ Unsettled' /\ Traces' /\ Counter' /\ NeverReused' /\ KeptUntilSettled'
  <2>1. connected
    BY <1>9 DEF SendNext, Idle
  <2> QED BY <1>9, <2>1, <1>a DEF SendNext, Sending, disk
<1>10. ASSUME NEW n \in Ids, AckDelete(n) PROVE
        Mirror' /\ Unsettled' /\ Traces' /\ Counter' /\ NeverReused' /\ KeptUntilSettled'
  BY <1>10, <1>a DEF AckDelete, Free
<1>11. ASSUME NEW n \in Ids, LateAck(n) PROVE
        Mirror' /\ Unsettled' /\ Traces' /\ Counter' /\ NeverReused' /\ KeptUntilSettled'
  BY <1>11, <1>a DEF LateAck, Free, disk
<1>12. ASSUME NEW n \in Ids, DueResend(n) PROVE
        Mirror' /\ Unsettled' /\ Traces' /\ Counter' /\ NeverReused' /\ KeptUntilSettled'
  BY <1>12, <1>a DEF DueResend, pending_set_attempts, Free, Sending
<1>13. ASSUME NEW n \in Ids, DueGiveUp(n) PROVE
        Mirror' /\ Unsettled' /\ Traces' /\ Counter' /\ NeverReused' /\ KeptUntilSettled'
  <2>1. /\ connected /\ running /\ job = Idle /\ n \in pending
        /\ inflight' = inflight \ {n} /\ pending' = pending \ {n}
        /\ gave_up' = gave_up \cup {n}
        /\ UNCHANGED <<seq, running, connected, job, wire, minted, server_has>>
    BY <1>13 DEF DueGiveUp, Free
  <2>2. Mirror' /\ Unsettled' /\ Traces'
    BY <2>1, <1>a DEF Idle
  <2>3. Counter' /\ NeverReused' /\ KeptUntilSettled'
    BY <2>1, <1>a
  <2> QED BY <2>2, <2>3
<1>14. CASE UNCHANGED vars
  BY <1>14 DEF vars, disk
<1> QED
  BY <1>1, <1>2, <1>3, <1>4, <1>5, <1>6, <1>7, <1>8, <1>9, <1>10, <1>11, <1>12,
     <1>13, <1>14 DEF Next

\* The invariant holds initially and is kept by every step.
LEMMA OutboxInvariant == Spec => []OutboxInv
<1>1. Init => OutboxInv
  <2> SUFFICES ASSUME Init PROVE OutboxInv
    OBVIOUS
  <2> USE OutboxAssumption DEF Init
  <2>1. status \in [Ids -> {"none", "sending", "delivered", "failed"}]
    OBVIOUS
  <2>2. disk_attempts \in [Ids -> 0..RETRY_MAX_ATTEMPTS]
           /\ attempts \in [Ids -> 0..RETRY_MAX_ATTEMPTS]
           /\ minted \in [Ids -> Nat] /\ sends \in [Ids -> Nat] /\ seq \in 0..MaxMsgs
    OBVIOUS
  <2>7. TypeOK
    BY <2>1, <2>2 DEF TypeOK
  <2>3. Mirror /\ Unsettled
    BY DEF Mirror, Unsettled, Idle
  <2>4. Minted = {}
    BY DEF Minted
  <2>5. Traces /\ Counter
    BY <2>4 DEF Traces, Counter, Idle
  <2>6. NeverReused /\ KeptUntilSettled
    BY DEF NeverReused, KeptUntilSettled
  <2> QED BY <2>7, <2>3, <2>5, <2>6 DEF OutboxInv
<1>2. OutboxInv /\ [Next]_vars => OutboxInv'
  BY OutboxTypeStep, OutboxStep DEF OutboxInv
<1> QED BY <1>1, <1>2, PTL DEF Spec

(***************************************************************************)
(* enqueue_outgoing gives an id to one message only, whatever crashes.     *)
(***************************************************************************)
THEOREM OutboxNeverReused == Spec => []NeverReused
<1>1. OutboxInv => NeverReused
  BY DEF OutboxInv
<1> QED BY <1>1, OutboxInvariant, PTL

(***************************************************************************)
(* The retry table keeps a message until it is confirmed or given up.      *)
(***************************************************************************)
THEOREM OutboxKeptUntilSettled == Spec => []KeptUntilSettled
<1>1. OutboxInv => KeptUntilSettled
  BY DEF OutboxInv
<1> QED BY <1>1, OutboxInvariant, PTL

(***************************************************************************)
(* A message that was confirmed or given up is never sent again, across    *)
(* reconnections and restarts.                                             *)
(***************************************************************************)
THEOREM OutboxSettledNotResent == Spec => SettledNotResent
<1> DEFINE Quiet == \A n \in Ids : sends'[n] > sends[n] => n \notin server_has \cup gave_up
<1>1. OutboxInv /\ [Next]_vars => [Quiet]_vars
  <2> SUFFICES ASSUME OutboxInv, Next PROVE Quiet
    OBVIOUS
  <2>1. sends \in [Ids -> Nat]
    BY DEF OutboxInv, TypeOK
  <2>2. CASE sends' = sends
    <3>1. \A n \in Ids : ~(sends[n] > sends[n])
      BY <2>1
    <3> QED BY <2>2, <3>1
  <2>3. ASSUME NEW n \in Ids, SendNext(n) PROVE Quiet
    <3>1. n \notin server_has \cup gave_up
      BY <2>3 DEF SendNext, OutboxInv, Mirror, Unsettled
    <3>2. \A m \in Ids \ {n} : ~(sends'[m] > sends[m])
      BY <2>1, <2>3 DEF SendNext
    <3> QED BY <3>1, <3>2
  <2>4. (sends' = sends) \/ \E n \in Ids : SendNext(n)
    BY DEF Next, Connect, Disconnect, BatchSent, EnqueueSeq, EnqueuePending, AckPut,
           Crash, load, AckDelete, LateAck, DueResend, DueGiveUp
  <2> QED BY <2>2, <2>3, <2>4
<1> QED BY <1>1, OutboxInvariant, PTL DEF Spec, SettledNotResent

(***************************************************************************)
(* What may be confirmed on this connection is still in the retry table,   *)
(* stored, being stored, or given up: a connection ends with its           *)
(* confirmations before a crash can come between the two writes of         *)
(* ack_outgoing, and the next one sends only what the retry table holds.   *)
(***************************************************************************)
Storing(n) == job.kind = "ack" /\ job.id = n
WireAccounted == \A n \in wire : n \in pending \cup history \cup gave_up \/ Storing(n)

LEMMA WireStep ==
  ASSUME OutboxInv, WireAccounted, DeliveredIsStored, [Next]_vars
  PROVE  WireAccounted' /\ DeliveredIsStored'
<1> USE DEF WireAccounted, DeliveredIsStored, Storing
<1>a. status \in [Ids -> {"none", "sending", "delivered", "failed"}]
         /\ wire \subseteq Ids /\ pending \subseteq Ids
  BY DEF OutboxInv, TypeOK
<1>b. /\ connected => running
      /\ job # Idle => connected
      /\ running => inflight = pending
      /\ job.kind = "send" => job.ids \subseteq pending
  BY DEF OutboxInv, Mirror
<1>1. CASE Connect
  BY <1>1, <1>b DEF Connect, Sending, Idle, disk
<1>2. CASE Disconnect
  BY <1>2 DEF Disconnect, disk
<1>3. CASE BatchSent
  BY <1>3 DEF BatchSent, Sending, Idle, disk
<1>4. CASE EnqueueSeq
  BY <1>4 DEF EnqueueSeq, Free, Idle
<1>5. CASE EnqueuePending
  <2>1. /\ pending' = pending \cup {job.id}
        /\ status' = [status EXCEPT ![job.id] = "sending"]
        /\ UNCHANGED <<history, wire, gave_up>>
    BY <1>5 DEF EnqueuePending
  <2>2. \A n \in Ids : status'[n] = "delivered" => status[n] = "delivered"
    BY <1>a, <2>1
  <2>3. \A n : ~Storing(n)
    BY <1>5 DEF EnqueuePending
  <2> QED BY <2>1, <2>2, <2>3
<1>6. CASE AckPut
  <2>1. /\ history' = history \cup {job.id}
        /\ status' = status \/ status' = [status EXCEPT ![job.id] = "delivered"]
        /\ UNCHANGED <<pending, wire, gave_up>>
    BY <1>6 DEF AckPut, Shown
  <2>2. \A n \in Ids : status'[n] = "delivered" => status[n] = "delivered" \/ n = job.id
    BY <1>a, <2>1
  <2> QED BY <2>1, <2>2
<1>7. CASE Crash
  BY <1>7 DEF Crash
<1>8. CASE load
  BY <1>8, <1>b DEF load, disk, pending_all
<1>9. ASSUME NEW n \in Ids, SendNext(n) PROVE WireAccounted' /\ DeliveredIsStored'
  <2>1. n \in pending /\ wire' = wire \cup {n} /\ \A m : ~Storing(m)
    BY <1>9, <1>b DEF SendNext
  <2>2. UNCHANGED <<pending, history, gave_up, status>>
    BY <1>9 DEF SendNext, disk
  <2> QED BY <2>1, <2>2
<1>10. ASSUME NEW n \in Ids, AckDelete(n) PROVE WireAccounted' /\ DeliveredIsStored'
  <2>1. /\ pending' = pending \ {n} /\ job' = [kind |-> "ack", id |-> n]
        /\ UNCHANGED <<history, gave_up, status, wire>>
        /\ \A m : ~Storing(m)
    BY <1>10 DEF AckDelete, Free, Idle
  <2> QED BY <2>1
<1>11. ASSUME NEW n \in Ids, LateAck(n) PROVE WireAccounted' /\ DeliveredIsStored'
  <2>1. /\ n \in wire /\ n \notin pending /\ job = Idle
        /\ status' = status \/ status' = [status EXCEPT ![n] = "delivered"]
        /\ UNCHANGED <<pending, history, gave_up, wire, job>>
    BY <1>11, <1>b DEF LateAck, Free, Shown, disk
  <2>2. n \in history \cup gave_up
    BY <2>1 DEF Idle
  <2>3. \A m \in Ids : status'[m] = "delivered" => status[m] = "delivered" \/ m = n
    BY <1>a, <2>1
  <2> QED BY <2>1, <2>2, <2>3
<1>12. ASSUME NEW n \in Ids, DueResend(n) PROVE WireAccounted' /\ DeliveredIsStored'
  BY <1>12 DEF DueResend, Free, Idle, Sending
<1>13. ASSUME NEW n \in Ids, DueGiveUp(n) PROVE WireAccounted' /\ DeliveredIsStored'
  <2>1. /\ pending' = pending \ {n} /\ gave_up' = gave_up \cup {n}
        /\ status' = status \/ status' = [status EXCEPT ![n] = "failed"]
        /\ UNCHANGED <<history, wire, job>>
    BY <1>13 DEF DueGiveUp, Shown
  <2>2. \A m \in Ids : status'[m] = "delivered" => status[m] = "delivered"
    BY <1>a, <2>1
  <2> QED BY <2>1, <2>2
<1>14. CASE UNCHANGED vars
  BY <1>14 DEF vars, disk
<1> QED
  BY <1>1, <1>2, <1>3, <1>4, <1>5, <1>6, <1>7, <1>8, <1>9, <1>10, <1>11, <1>12,
     <1>13, <1>14 DEF Next

(***************************************************************************)
(* A message the user sees as delivered is in the stored history, or had   *)
(* been given up before its confirmation came (ack_outgoing, Outbox::ack). *)
(***************************************************************************)
THEOREM OutboxDeliveredIsStored == Spec => []DeliveredIsStored
<1>1. Init => WireAccounted /\ DeliveredIsStored
  BY DEF Init, WireAccounted, DeliveredIsStored
<1>2. OutboxInv /\ WireAccounted /\ DeliveredIsStored /\ [Next]_vars
        => WireAccounted' /\ DeliveredIsStored'
  BY WireStep
<1> QED BY <1>1, <1>2, OutboxInvariant, PTL DEF Spec

(***************************************************************************)
(* The engine.                                                             *)
(***************************************************************************)

(***************************************************************************)
(* Finite sets of numbers in order.                                        *)
(***************************************************************************)
Smaller(S, x) == {y \in S : y < x}

LEMMA SmallerCount ==
  ASSUME NEW S, S \subseteq Nat, IsFiniteSet(S), NEW x \in S
  PROVE  /\ IsFiniteSet(Smaller(S, x)) /\ Cardinality(S) \in Nat
         /\ Cardinality(Smaller(S, x)) \in Nat /\ Cardinality(Smaller(S, x)) < Cardinality(S)
<1>1. Smaller(S, x) \in SUBSET S /\ x \notin Smaller(S, x)
  BY DEF Smaller
<1>2. /\ IsFiniteSet(Smaller(S, x)) /\ Cardinality(Smaller(S, x)) <= Cardinality(S)
      /\ Cardinality(S) = Cardinality(Smaller(S, x)) => S = Smaller(S, x)
  BY <1>1, FS_Subset
<1>3. Cardinality(S) \in Nat /\ Cardinality(Smaller(S, x)) \in Nat
  BY <1>2, FS_CardinalityType
<1> QED BY <1>1, <1>2, <1>3

LEMMA SmallerGrows ==
  ASSUME NEW S, S \subseteq Nat, IsFiniteSet(S), NEW x \in S, NEW z \in S, x < z
  PROVE  Cardinality(Smaller(S, x)) < Cardinality(Smaller(S, z))
<1>1. \A y \in S : y \in Nat
  OBVIOUS
<1>2. x \in Smaller(S, z) /\ x \notin Smaller(S, x)
  BY <1>1 DEF Smaller
<1>3. Smaller(S, x) \in SUBSET Smaller(S, z)
  <2>1. \A y \in S : y < x => y < z
    BY <1>1
  <2> QED BY <2>1 DEF Smaller
<1>4. IsFiniteSet(Smaller(S, z))
  BY SmallerCount
<1>5. /\ Cardinality(Smaller(S, x)) <= Cardinality(Smaller(S, z))
      /\ Cardinality(Smaller(S, z)) = Cardinality(Smaller(S, x)) => Smaller(S, z) = Smaller(S, x)
  BY <1>3, <1>4, FS_Subset
<1>6. Cardinality(Smaller(S, x)) \in Nat /\ Cardinality(Smaller(S, z)) \in Nat
  BY SmallerCount
<1> QED BY <1>2, <1>5, <1>6

\* No two elements have as many smaller ones.
LEMMA SmallerTells ==
  ASSUME NEW S, S \subseteq Nat, IsFiniteSet(S), NEW x \in S, NEW z \in S,
         Cardinality(Smaller(S, x)) = Cardinality(Smaller(S, z))
  PROVE  x = z
<1>1. Cardinality(Smaller(S, x)) \in Nat /\ Cardinality(Smaller(S, z)) \in Nat
  BY SmallerCount
<1>2. ASSUME x < z PROVE FALSE
  <2>1. Cardinality(Smaller(S, x)) < Cardinality(Smaller(S, z))
    BY <1>2, SmallerGrows
  <2> QED BY <1>1, <2>1
<1>3. ASSUME z < x PROVE FALSE
  <2>1. Cardinality(Smaller(S, z)) < Cardinality(Smaller(S, x))
    BY <1>3, SmallerGrows
  <2> QED BY <1>1, <2>1
<1>4. x \in Nat /\ z \in Nat
  OBVIOUS
<1> QED BY <1>2, <1>3, <1>4

LEMMA AscendingIn ==
  ASSUME NEW S, S \subseteq Nat, IsFiniteSet(S), NEW n \in 1..Cardinality(S)
  PROVE  Ascending(S)[n] \in S /\ Cardinality(Smaller(S, Ascending(S)[n])) = n - 1
<1>1. PICK size \in Nat : size = Cardinality(S)
  BY FS_CardinalityType
<1>2. \E x \in S : Cardinality(Smaller(S, x)) = n - 1
  <2> SUFFICES ASSUME \A x \in S : Cardinality(Smaller(S, x)) # n - 1 PROVE FALSE
    OBVIOUS
  <2> DEFINE ranks == 0..(size - 1)
             rest == ranks \ {n - 1}
             f == [x \in S |-> Cardinality(Smaller(S, x))]
  <2>1. IsFiniteSet(ranks) /\ Cardinality(ranks) = size /\ n - 1 \in ranks
    <3>1. PICK a \in Int, b \in Int : a = 0 /\ b = size - 1
      BY <1>1
    <3>2. IsFiniteSet(a..b) /\ Cardinality(a..b) = IF a > b THEN 0 ELSE b - a + 1
      BY FS_Interval
    <3>3. size >= 1
      BY <1>1
    <3> QED BY <1>1, <3>1, <3>2, <3>3
  <2>2. IsFiniteSet(rest) /\ Cardinality(rest) = size - 1
    <3> HIDE DEF ranks
    <3> QED BY <2>1, FS_RemoveElement
  <2>3. Cardinality(rest) < Cardinality(S)
    BY <1>1, <2>2
  <2>4. f \in [S -> rest]
    <3> SUFFICES ASSUME NEW x \in S PROVE Cardinality(Smaller(S, x)) \in rest
      OBVIOUS
    <3>1. Cardinality(Smaller(S, x)) \in Nat /\ Cardinality(Smaller(S, x)) < Cardinality(S)
      BY SmallerCount
    <3> QED BY <1>1, <3>1
  <2>5. \E x, y \in S : x # y /\ f[x] = f[y]
    <3> HIDE DEF f, rest
    <3> QED BY <2>2, <2>3, <2>4, FS_PigeonHole
  <2>6. PICK x, y \in S : x # y /\ Cardinality(Smaller(S, x)) = Cardinality(Smaller(S, y))
    BY <2>5
  <2> QED BY <2>6, SmallerTells
<1>3. Ascending(S)[n] = CHOOSE x \in S : Cardinality(Smaller(S, x)) = n - 1
  BY DEF Ascending, Smaller
<1> QED BY <1>2, <1>3

\* The sequence has every element of the set, each once and smallest first.
LEMMA AscendingOrder ==
  ASSUME NEW S, S \subseteq Nat, IsFiniteSet(S)
  PROVE  /\ Cardinality(S) \in Nat /\ Ascending(S) \in Seq(S) /\ Len(Ascending(S)) = Cardinality(S)
         /\ \A i, j \in 1..Cardinality(S) : i < j => Ascending(S)[i] < Ascending(S)[j]
         /\ \A x \in S : \E i \in 1..Cardinality(S) : Ascending(S)[i] = x
<1>1. Cardinality(S) \in Nat
  BY FS_CardinalityType
<1>2. Ascending(S) = [n \in 1..Cardinality(S) |-> Ascending(S)[n]]
  <2> DEFINE nth(n) == CHOOSE x \in S : Cardinality({y \in S : y < x}) = n - 1
  <2>1. Ascending(S) = [n \in 1..Cardinality(S) |-> nth(n)]
    BY DEF Ascending
  <2> HIDE DEF nth
  <2> QED BY <2>1
<1>3. \A n \in 1..Cardinality(S) : Ascending(S)[n] \in S
  BY AscendingIn
<1>4. Ascending(S) \in Seq(S) /\ Len(Ascending(S)) = Cardinality(S)
  <2>1. PICK size \in Nat : size = Cardinality(S)
    BY <1>1
  <2> PICK q : q = Ascending(S)
    OBVIOUS
  <2>2. q = [n \in 1..size |-> q[n]] /\ \A n \in 1..size : q[n] \in S
    BY <1>2, <1>3, <2>1
  <2>3. q \in Seq(S) /\ Len(q) = size
    BY <2>2
  <2> QED BY <2>1, <2>3
<1>5. ASSUME NEW i \in 1..Cardinality(S), NEW j \in 1..Cardinality(S), i < j
      PROVE  Ascending(S)[i] < Ascending(S)[j]
  <2>1. PICK x \in S : x = Ascending(S)[i] /\ Cardinality(Smaller(S, x)) = i - 1
    BY AscendingIn
  <2>2. PICK y \in S : y = Ascending(S)[j] /\ Cardinality(Smaller(S, y)) = j - 1
    BY AscendingIn
  <2>3. x # y
    BY <1>5, <2>1, <2>2
  <2>4. ~(y < x)
    <3> SUFFICES ASSUME y < x PROVE FALSE
      OBVIOUS
    <3>1. Cardinality(Smaller(S, y)) < Cardinality(Smaller(S, x))
      BY SmallerGrows
    <3> QED BY <1>5, <2>1, <2>2, <3>1
  <2>5. x \in Nat /\ y \in Nat
    OBVIOUS
  <2> QED BY <2>1, <2>2, <2>3, <2>4, <2>5
<1>6. ASSUME NEW x \in S PROVE \E i \in 1..Cardinality(S) : Ascending(S)[i] = x
  <2>1. Cardinality(Smaller(S, x)) \in Nat /\ Cardinality(Smaller(S, x)) < Cardinality(S)
    BY SmallerCount
  <2>2. PICK n \in 1..Cardinality(S) : n = Cardinality(Smaller(S, x)) + 1
    BY <1>1, <2>1
  <2>3. PICK y \in S : y = Ascending(S)[n] /\ Cardinality(Smaller(S, y)) = n - 1
    BY AscendingIn
  <2>4. Cardinality(Smaller(S, y)) = Cardinality(Smaller(S, x))
    BY <2>1, <2>2, <2>3
  <2>5. y = x
    BY <2>4, SmallerTells
  <2> QED BY <2>3, <2>5
<1> QED BY <1>1, <1>4, <1>5, <1>6

LEMMA GreatestNatural ==
  ASSUME NEW S, S \subseteq Nat, IsFiniteSet(S), S # {}
  PROVE  \E x \in S : /\ \A y \in S : y <= x
                      /\ x = Ascending(S)[Cardinality(S)] /\ Cardinality(S) # 0
<1>1. PICK n \in Nat : n = Cardinality(S)
  BY AscendingOrder
<1>2. n # 0
  BY <1>1, FS_EmptySet
<1>3. PICK x \in S : x = Ascending(S)[n]
  <2>1. n \in 1..Cardinality(S)
    BY <1>1, <1>2
  <2>2. Ascending(S)[n] \in S
    BY <2>1, AscendingIn
  <2> QED BY <2>2
<1>4. ASSUME NEW y \in S PROVE y <= x
  <2>1. PICK i \in 1..n : Ascending(S)[i] = y
    BY <1>1, AscendingOrder
  <2>2. i = n \/ (i < n /\ n \in 1..n)
    BY <1>2
  <2>3. \A a, b \in 1..n : a < b => Ascending(S)[a] < Ascending(S)[b]
    BY <1>1, AscendingOrder
  <2>4. y = x \/ y < x
    BY <1>3, <2>1, <2>2, <2>3
  <2>5. x \in Nat /\ y \in Nat
    OBVIOUS
  <2> QED BY <2>4, <2>5
<1> QED BY <1>1, <1>2, <1>3, <1>4

LEMMA MaxIs ==
  ASSUME NEW S, S \subseteq Nat, IsFiniteSet(S), NEW x \in S, \A y \in S : y <= x
  PROVE  Max(S) = x
<1>1. \A y \in S : y \in Nat
  OBVIOUS
<1>2. \A y \in S : x >= y
  BY <1>1
<1>3. \A z \in S : (\A y \in S : z >= y) => z = x
  BY <1>1
<1> QED BY <1>2, <1>3 DEF Max

(***************************************************************************)
(* One file.                                                               *)
(***************************************************************************)
Stored == Values \cup {Nil}
Frames == [key : Keys, record : Stored, whole : BOOLEAN]

GoodOf(f, k) == {n \in GoodFrames(f) : f[n].key = k}
AllWhole(f) == \A n \in 1..Len(f) : f[n].whole

LEMMA NoneStored == None \notin Stored /\ Nil \in Stored /\ Nil # None
BY EngineAssumption DEF Stored

LEMMA GoodBounds ==
  ASSUME NEW f \in Seq(Frames), NEW k
  PROVE  /\ Len(f) \in Nat /\ GoodOf(f, k) \subseteq Nat /\ IsFiniteSet(GoodOf(f, k))
         /\ \A n \in GoodOf(f, k) : n \in GoodFrames(f) /\ n \in 1..Len(f) /\ n # 0 /\ f[n].key = k
         /\ \A n \in GoodFrames(f) : n \in 1..Len(f) /\ read_frame_at(f, n) = <<f[n]>>
<1>1. Len(f) \in Nat
  OBVIOUS
<1>2. GoodOf(f, k) \in SUBSET (1..Len(f))
  BY DEF GoodOf, GoodFrames
<1>3. IsFiniteSet(GoodOf(f, k))
  <2>1. IsFiniteSet(1..Len(f))
    BY <1>1, FS_Interval
  <2> QED BY <1>2, <2>1, FS_Subset
<1>4. ASSUME NEW n \in GoodFrames(f) PROVE n \in 1..Len(f) /\ read_frame_at(f, n) = <<f[n]>>
  <2>1. n \in 1..Len(f) /\ n \in 1..n
    BY <1>1 DEF GoodFrames
  <2>2. read_frame_at(f, n) # << >>
    BY <2>1 DEF GoodFrames
  <2> QED BY <2>1, <2>2 DEF read_frame_at
<1>5. GoodOf(f, k) \subseteq Nat /\ \A n \in GoodOf(f, k) : n # 0
  BY <1>1, <1>2
<1>6. \A n \in GoodOf(f, k) : n \in GoodFrames(f) /\ f[n].key = k
  BY DEF GoodOf
<1> QED BY <1>1, <1>3, <1>4, <1>5, <1>6

\* The index of a key is its last good frame, and replay gives its record.
LEMMA IndexLast ==
  ASSUME NEW f \in Seq(Frames), NEW k \in Keys
  PROVE  \/ GoodOf(f, k) = {} /\ build_index(f)[k] = 0 /\ replay(f)[k] = None
         \/ \E n \in GoodOf(f, k) :
              /\ build_index(f)[k] = n /\ \A m \in GoodOf(f, k) : m <= n
              /\ replay(f)[k] = f[n].record /\ read_record_at(f, n) = f[n].record
<1>1. build_index(f)[k] = IF GoodOf(f, k) = {} THEN 0 ELSE Max(GoodOf(f, k))
  BY DEF build_index, GoodOf
<1>2. replay(f)[k] = IF build_index(f)[k] = 0 THEN None ELSE read_record_at(f, build_index(f)[k])
  BY DEF replay
<1>3. CASE GoodOf(f, k) = {}
  BY <1>1, <1>2, <1>3
<1>4. CASE GoodOf(f, k) # {}
  <2>1. GoodOf(f, k) \subseteq Nat /\ IsFiniteSet(GoodOf(f, k))
    BY GoodBounds
  <2>2. PICK n \in GoodOf(f, k) : \A m \in GoodOf(f, k) : m <= n
    BY <1>4, <2>1, GreatestNatural
  <2>3. build_index(f)[k] = n
    BY <1>1, <1>4, <2>1, <2>2, MaxIs
  <2>4. n # 0 /\ n \in GoodFrames(f)
    BY GoodBounds
  <2>5. read_frame_at(f, n) = <<f[n]>>
    BY <2>4, GoodBounds
  <2>6. read_record_at(f, n) = f[n].record
    BY <2>5 DEF read_record_at
  <2> QED BY <1>2, <2>2, <2>3, <2>4, <2>6
<1> QED BY <1>3, <1>4

LEMMA IndexReads ==
  ASSUME NEW f \in Seq(Frames), NEW k \in Keys
  PROVE  /\ replay(f)[k] \in Stored \cup {None} /\ build_index(f)[k] \in Nat
         /\ build_index(f)[k] = 0 <=> replay(f)[k] = None
         /\ build_index(f)[k] # 0 => read_record_at(f, build_index(f)[k]) = replay(f)[k]
<1>1. CASE GoodOf(f, k) = {} /\ build_index(f)[k] = 0 /\ replay(f)[k] = None
  BY <1>1
<1>2. CASE \E n \in GoodOf(f, k) :
             /\ build_index(f)[k] = n /\ \A m \in GoodOf(f, k) : m <= n
             /\ replay(f)[k] = f[n].record /\ read_record_at(f, n) = f[n].record
  <2>1. PICK n \in GoodOf(f, k) :
             /\ build_index(f)[k] = n
             /\ replay(f)[k] = f[n].record /\ read_record_at(f, n) = f[n].record
    BY <1>2
  <2>2. n \in 1..Len(f) /\ n \in Nat /\ n # 0
    BY GoodBounds
  <2>3. PICK x \in Frames : x = f[n]
    BY <2>2
  <2>4. x.record \in Stored
    BY DEF Frames
  <2> QED BY <2>1, <2>2, <2>3, <2>4, NoneStored
<1> QED BY <1>1, <1>2, IndexLast

\* How replay is found: no frame of the key, or the last one.
LEMMA ReplayNone ==
  ASSUME NEW f \in Seq(Frames), NEW k \in Keys, \A n \in GoodFrames(f) : f[n].key # k
  PROVE  replay(f)[k] = None
<1>1. GoodOf(f, k) = {}
  BY DEF GoodOf
<1> QED BY <1>1, IndexLast

LEMMA ReplayLast ==
  ASSUME NEW f \in Seq(Frames), NEW k \in Keys, NEW n \in GoodFrames(f), f[n].key = k,
         \A m \in GoodFrames(f) : f[m].key = k => m <= n
  PROVE  replay(f)[k] = f[n].record
<1>1. n \in GoodOf(f, k)
  BY DEF GoodOf
<1>2. PICK i \in GoodOf(f, k) : (\A m \in GoodOf(f, k) : m <= i) /\ replay(f)[k] = f[i].record
  BY <1>1, IndexLast
<1>3. i \in Nat /\ n \in Nat
  BY <1>1, GoodBounds
<1>4. i <= n
  BY DEF GoodOf
<1>5. n <= i
  BY <1>1, <1>2
<1> QED BY <1>2, <1>3, <1>4, <1>5

LEMMA GoodWhole ==
  ASSUME NEW f \in Seq(Frames), AllWhole(f)
  PROVE  GoodFrames(f) = 1..Len(f)
<1>1. \A i \in 1..Len(f) : read_frame_at(f, i) # << >>
  BY DEF AllWhole, read_frame_at
<1>2. Len(f) \in Nat
  OBVIOUS
<1>3. \A n \in 1..Len(f) : \A i \in 1..n : i \in 1..Len(f)
  BY <1>2
<1> QED BY <1>1, <1>3 DEF GoodFrames

LEMMA EmptyFile ==
  /\ << >> \in Seq(Frames) /\ AllWhole(<< >>) /\ \A k \in Keys : replay(<< >>)[k] = None
<1>1. << >> \in Seq(Frames) /\ AllWhole(<< >>)
  BY DEF AllWhole
<1>2. PICK f \in Seq(Frames) : f = << >> /\ AllWhole(f)
  BY <1>1
<1>3. GoodFrames(f) = {}
  <2>1. GoodFrames(f) = 1..Len(f)
    BY <1>2, GoodWhole
  <2>2. Len(f) = 0
    BY <1>2
  <2> QED BY <2>1, <2>2
<1>4. \A k \in Keys : replay(f)[k] = None
  BY <1>3, ReplayNone
<1> QED BY <1>1, <1>2, <1>4

WithFrame(f, k, r) == Append(f, encode_frame(k, r))
WithTorn(f, k, r) == Append(f, Torn(encode_frame(k, r)))

\* An appended frame: a whole one is the last of its key, a torn one is nothing.
LEMMA AppendedWhole ==
  ASSUME NEW f \in Seq(Frames), AllWhole(f), NEW k \in Keys, NEW r \in Stored,
         NEW g, g = WithFrame(f, k, r)
  PROVE  /\ g \in Seq(Frames) /\ AllWhole(g)
         /\ \A q \in Keys : replay(g)[q] = IF q = k THEN r ELSE replay(f)[q]
<1> PICK x : x = encode_frame(k, r)
  OBVIOUS
<1>1. x \in Frames /\ x.key = k /\ x.record = r /\ x.whole
  BY DEF encode_frame, Frames
<1>2. PICK l \in Nat : l = Len(f)
  OBVIOUS
<1>3. /\ g \in Seq(Frames) /\ Len(g) = l + 1 /\ g[l + 1] = x
      /\ \A i \in 1..l : g[i] = f[i]
  BY <1>1, <1>2 DEF WithFrame
<1>4. AllWhole(g)
  <2>1. \A i \in 1..(l + 1) : i \in 1..l \/ i = l + 1
    BY <1>2
  <2> QED BY <1>1, <1>2, <1>3, <2>1 DEF AllWhole
<1>5. GoodFrames(f) = 1..l /\ GoodFrames(g) = 1..(l + 1)
  BY <1>2, <1>3, <1>4, GoodWhole
<1>6. replay(g)[k] = r
  <2>1. l + 1 \in GoodFrames(g) /\ \A m \in GoodFrames(g) : m <= l + 1
    BY <1>2, <1>5
  <2>2. PICK n \in GoodFrames(g) : n = l + 1
    BY <2>1
  <2>3. g[n] = x /\ g[n].key = k /\ \A m \in GoodFrames(g) : g[m].key = k => m <= n
    BY <1>1, <1>3, <2>1, <2>2
  <2>4. replay(g)[k] = g[n].record
    BY <1>3, <2>3, ReplayLast
  <2> QED BY <1>1, <2>3, <2>4
<1>7. ASSUME NEW q \in Keys, q # k PROVE replay(g)[q] = replay(f)[q]
  <2>1. \A m \in GoodFrames(g) : g[m].key = q => m \in 1..l /\ f[m].key = q /\ g[m] = f[m]
    BY <1>1, <1>2, <1>3, <1>5, <1>7
  <2>2. CASE GoodOf(f, q) = {} /\ replay(f)[q] = None
    <3>1. \A m \in GoodFrames(g) : g[m].key # q
      BY <1>5, <2>1, <2>2 DEF GoodOf
    <3> QED BY <1>3, <2>2, <3>1, ReplayNone
  <2>3. CASE \E n \in GoodOf(f, q) :
               (\A m \in GoodOf(f, q) : m <= n) /\ replay(f)[q] = f[n].record
    <3>1. PICK n \in GoodOf(f, q) :
               (\A m \in GoodOf(f, q) : m <= n) /\ replay(f)[q] = f[n].record
      BY <2>3
    <3>2. n \in 1..l /\ f[n].key = q /\ n \in GoodFrames(g) /\ g[n] = f[n]
      BY <1>2, <1>3, <1>5 DEF GoodOf
    <3>3. \A m \in GoodFrames(g) : g[m].key = q => m <= n
      BY <1>5, <2>1, <3>1 DEF GoodOf
    <3>4. replay(g)[q] = g[n].record
      BY <1>3, <3>2, <3>3, ReplayLast
    <3> QED BY <3>1, <3>2, <3>4
  <2> QED BY <2>2, <2>3, IndexLast
<1> QED BY <1>3, <1>4, <1>6, <1>7

LEMMA AppendedTorn ==
  ASSUME NEW f \in Seq(Frames), AllWhole(f), NEW k \in Keys, NEW r \in Stored,
         NEW g, g = WithTorn(f, k, r)
  PROVE  g \in Seq(Frames) /\ \A q \in Keys : replay(g)[q] = replay(f)[q]
<1> PICK x : x = Torn(encode_frame(k, r))
  OBVIOUS
<1>1. x \in Frames /\ ~x.whole
  BY DEF encode_frame, Torn, Frames
<1>2. PICK l \in Nat : l = Len(f)
  OBVIOUS
<1>3. /\ g \in Seq(Frames) /\ Len(g) = l + 1 /\ g[l + 1] = x
      /\ \A i \in 1..l : g[i] = f[i]
  BY <1>1, <1>2 DEF WithTorn
<1>4. GoodFrames(f) = 1..l
  BY <1>2, GoodWhole
<1>5. GoodFrames(g) = 1..l
  <2>1. read_frame_at(g, l + 1) = << >>
    BY <1>1, <1>3 DEF read_frame_at
  <2>2. ASSUME NEW n \in GoodFrames(g) PROVE n \in 1..l
    <3>1. n \in 1..(l + 1) /\ \A i \in 1..n : read_frame_at(g, i) # << >>
      BY <1>3 DEF GoodFrames
    <3>2. n # l + 1
      BY <1>2, <2>1, <3>1
    <3> QED BY <1>2, <3>1, <3>2
  <2>3. ASSUME NEW n \in 1..l PROVE n \in GoodFrames(g)
    <3>1. n \in 1..Len(g) /\ \A i \in 1..n : i \in 1..l /\ i \in 1..Len(g)
      BY <1>2, <1>3
    <3>2. \A i \in 1..n : read_frame_at(g, i) # << >>
      BY <1>2, <1>3, <3>1 DEF read_frame_at, AllWhole
    <3> QED BY <3>1, <3>2 DEF GoodFrames
  <2> QED BY <2>2, <2>3
<1>6. ASSUME NEW q \in Keys PROVE replay(g)[q] = replay(f)[q]
  <2>1. GoodOf(g, q) = GoodOf(f, q)
    BY <1>3, <1>4, <1>5 DEF GoodOf
  <2>2. CASE GoodOf(f, q) = {} /\ replay(f)[q] = None
    <3>1. \A m \in GoodFrames(g) : g[m].key # q
      BY <2>1, <2>2 DEF GoodOf
    <3> QED BY <1>3, <2>2, <3>1, ReplayNone
  <2>3. CASE \E n \in GoodOf(f, q) :
               (\A m \in GoodOf(f, q) : m <= n) /\ replay(f)[q] = f[n].record
    <3>1. PICK n \in GoodOf(f, q) :
               (\A m \in GoodOf(f, q) : m <= n) /\ replay(f)[q] = f[n].record
      BY <2>3
    <3>2. n \in 1..l /\ n \in GoodFrames(g) /\ g[n] = f[n] /\ g[n].key = q
      BY <1>3, <1>4, <1>5 DEF GoodOf
    <3>3. \A m \in GoodFrames(g) : g[m].key = q => m <= n
      BY <2>1, <3>1 DEF GoodOf
    <3>4. replay(g)[q] = g[n].record
      BY <1>3, <3>2, <3>3, ReplayLast
    <3> QED BY <3>1, <3>2, <3>4
  <2> QED BY <2>2, <2>3, IndexLast
<1> QED BY <1>3, <1>6

\* A file all of whose frames bear the record that R has for their key.
LEMMA PartOf ==
  ASSUME NEW f \in Seq(Frames), NEW R, \A n \in 1..Len(f) : f[n].record = R[f[n].key],
         NEW k \in Keys
  PROVE  replay(f)[k] = None \/ replay(f)[k] = R[k]
<1>1. CASE \E n \in GoodOf(f, k) : replay(f)[k] = f[n].record
  <2>1. PICK n \in GoodOf(f, k) : replay(f)[k] = f[n].record
    BY <1>1
  <2>2. n \in 1..Len(f) /\ f[n].key = k
    BY GoodBounds
  <2> QED BY <2>1, <2>2
<1> QED BY <1>1, IndexLast

(***************************************************************************)
(* The files together. Shows(d, k, r): the newest file of d that has a     *)
(* record of k has r, or none has one and r is Nil.                        *)
(***************************************************************************)
FilesOK(d) ==
  /\ d = [i \in DOMAIN d |-> d[i]] /\ DOMAIN d \subseteq Nat /\ IsFiniteSet(DOMAIN d)
  /\ \A i \in DOMAIN d : d[i] \in Seq(Frames)

Has(d, i, k) == i \in DOMAIN d /\ replay(d[i])[k] # None

Shows(d, k, r) ==
  \/ r = Nil /\ \A i \in DOMAIN d : ~Has(d, i, k)
  \/ \E i \in DOMAIN d : /\ Has(d, i, k) /\ replay(d[i])[k] = r
                         /\ \A j \in DOMAIN d : Has(d, j, k) => j <= i

\* The file has no record of k, or r is its record.
Agrees(f, k, r) == replay(f)[k] \in {None, r}

LEMMA ShowsOne ==
  ASSUME NEW d, FilesOK(d), NEW k, NEW r, Shows(d, k, r), NEW s, Shows(d, k, s)
  PROVE  r = s
<1>1. CASE \A i \in DOMAIN d : ~Has(d, i, k)
  BY <1>1 DEF Shows
<1>2. CASE \E i \in DOMAIN d : Has(d, i, k)
  <2>1. PICK i \in DOMAIN d : /\ Has(d, i, k) /\ replay(d[i])[k] = r
                              /\ \A j \in DOMAIN d : Has(d, j, k) => j <= i
    BY <1>2 DEF Shows
  <2>2. PICK j \in DOMAIN d : /\ Has(d, j, k) /\ replay(d[j])[k] = s
                              /\ \A h \in DOMAIN d : Has(d, h, k) => h <= j
    BY <1>2 DEF Shows
  <2>3. i <= j /\ j <= i /\ i \in Nat /\ j \in Nat
    BY <2>1, <2>2 DEF FilesOK
  <2>4. i = j
    BY <2>3
  <2> QED BY <2>1, <2>2, <2>4
<1> QED BY <1>1, <1>2

\* Files with the same records show the same.
LEMMA ShowsSame ==
  ASSUME NEW d, NEW e, NEW k, NEW r, Shows(d, k, r),
         \A i : Has(d, i, k) <=> Has(e, i, k),
         \A i : Has(d, i, k) => replay(e[i])[k] = replay(d[i])[k]
  PROVE  Shows(e, k, r)
<1>1. CASE r = Nil /\ \A i \in DOMAIN d : ~Has(d, i, k)
  <2>1. \A i \in DOMAIN e : ~Has(e, i, k)
    BY <1>1 DEF Has
  <2> QED BY <1>1, <2>1 DEF Shows
<1>2. CASE \E i \in DOMAIN d : /\ Has(d, i, k) /\ replay(d[i])[k] = r
                               /\ \A j \in DOMAIN d : Has(d, j, k) => j <= i
  <2>1. PICK i \in DOMAIN d : /\ Has(d, i, k) /\ replay(d[i])[k] = r
                              /\ \A j \in DOMAIN d : Has(d, j, k) => j <= i
    BY <1>2
  <2>2. i \in DOMAIN e /\ Has(e, i, k) /\ replay(e[i])[k] = r
    BY <2>1 DEF Has
  <2>3. \A j \in DOMAIN e : Has(e, j, k) => j <= i
    BY <2>1 DEF Has
  <2> QED BY <2>2, <2>3 DEF Shows
<1> QED BY <1>1, <1>2 DEF Shows

\* What is read from the files after opening them.
LEMMA OpenShows ==
  ASSUME FilesOK(segmentFiles), NEW k \in Keys
  PROVE  Shows(segmentFiles, k, AfterOpen(k))
<1> PICK d : d = segmentFiles
  OBVIOUS
<1> DEFINE newest == {i \in DOMAIN d : /\ replay(d[i])[k] # None
                                       /\ \A j \in DOMAIN d : j > i => replay(d[j])[k] = None}
           records == {replay(d[i])[k] : i \in newest}
           holders == {i \in DOMAIN d : Has(d, i, k)}
<1>1. AfterOpen(k) = IF records = {} THEN Nil ELSE CHOOSE r \in records : TRUE
  BY DEF AfterOpen
<1>2. CASE holders = {}
  <2>1. \A i \in DOMAIN d : ~Has(d, i, k)
    BY <1>2
  <2>2. newest = {}
    BY <2>1 DEF Has
  <2>3. records = {}
    BY <2>2
  <2> QED BY <1>1, <2>1, <2>3 DEF Shows
<1>3. CASE holders # {}
  <2>1. holders \in SUBSET DOMAIN d /\ DOMAIN d \subseteq Nat /\ IsFiniteSet(DOMAIN d)
    BY DEF FilesOK
  <2>2. holders \subseteq Nat /\ IsFiniteSet(holders)
    BY <2>1, FS_Subset
  <2>3. PICK i \in holders : \A j \in holders : j <= i
    <3> HIDE DEF holders
    <3> QED BY <1>3, <2>2, GreatestNatural
  <2>4. newest = {i}
    <3>1. \A j \in DOMAIN d : j \in Nat
      BY <2>1
    <3>2. i \in newest
      BY <2>3, <3>1 DEF Has
    <3>3. ASSUME NEW j \in newest PROVE j = i
      <4>1. j <= i /\ ~(i > j)
        BY <2>3 DEF Has
      <4> QED BY <3>1, <4>1
    <3> QED BY <3>2, <3>3
  <2>5. records = {replay(d[i])[k]}
    BY <2>4
  <2>6. AfterOpen(k) = replay(d[i])[k]
    BY <1>1, <2>5
  <2> QED BY <2>3, <2>6 DEF Shows
<1> QED BY <1>2, <1>3

(***************************************************************************)
(* A list of sealed segments on the files d, oldest first, as segments     *)
(* and ToMerge are.                                                        *)
(***************************************************************************)
SegmentsOf(segs, d) ==
  /\ segs \in Seq([id : Nat, index : [Keys -> Nat]])
  /\ \A i \in 1..Len(segs) : segs[i].id \in DOMAIN d /\ segs[i].index = build_index(d[segs[i].id])
  /\ \A i, j \in 1..Len(segs) : i < j => segs[i].id <= segs[j].id

Held(segs, d, i, k) == i \in 1..Len(segs) /\ Has(d, segs[i].id, k)

LEMMA SegmentReads ==
  ASSUME NEW segs, FilesOK(segmentFiles), SegmentsOf(segs, segmentFiles), NEW k \in Keys
  PROVE  \/ /\ Holding(segs, k) = {} /\ Poured(segs, k) = None
            /\ \A i : ~Held(segs, segmentFiles, i, k)
         \/ \E i \in 1..Len(segs) :
              /\ Held(segs, segmentFiles, i, k)
              /\ \A j : Held(segs, segmentFiles, j, k) => j <= i
              /\ Holding(segs, k) # {} /\ Max(Holding(segs, k)) = i
              /\ Poured(segs, k) = replay(segmentFiles[segs[i].id])[k]
              /\ RecordIn(segs[i], k) = replay(segmentFiles[segs[i].id])[k]
<1>1. /\ Len(segs) \in Nat
      /\ \A i \in 1..Len(segs) : segs[i].id \in DOMAIN segmentFiles
                                 /\ segs[i].index = build_index(segmentFiles[segs[i].id])
  BY DEF SegmentsOf
<1>2. \A i : i \in Holding(segs, k) <=> Held(segs, segmentFiles, i, k)
  <2>1. ASSUME NEW i \in 1..Len(segs)
        PROVE  segs[i].index[k] # 0 <=> replay(segmentFiles[segs[i].id])[k] # None
    <3>1. PICK f \in Seq(Frames) : f = segmentFiles[segs[i].id]
      BY <1>1 DEF FilesOK
    <3>2. build_index(f)[k] = 0 <=> replay(f)[k] = None
      BY IndexReads
    <3> QED BY <1>1, <3>1, <3>2
  <2>2. ASSUME NEW i PROVE i \in Holding(segs, k) <=> Held(segs, segmentFiles, i, k)
    <3>1. CASE i \in 1..Len(segs)
      <4>1. i \in Holding(segs, k) <=> segs[i].index[k] # 0
        BY <3>1 DEF Holding
      <4>2. Held(segs, segmentFiles, i, k) <=> replay(segmentFiles[segs[i].id])[k] # None
        BY <1>1, <3>1 DEF Held, Has
      <4> QED BY <2>1, <3>1, <4>1, <4>2
    <3>2. CASE i \notin 1..Len(segs)
      BY <3>2 DEF Holding, Held
    <3> QED BY <3>1, <3>2
  <2> QED BY <2>2
<1>3. CASE Holding(segs, k) = {}
  BY <1>2, <1>3 DEF Poured
<1>4. CASE Holding(segs, k) # {}
  <2>1. Holding(segs, k) \in SUBSET (1..Len(segs)) /\ IsFiniteSet(1..Len(segs))
    <3>1. PICK l \in Int : l = Len(segs)
      BY <1>1
    <3>2. IsFiniteSet(1..l)
      BY <3>1, FS_Interval
    <3> QED BY <3>1, <3>2 DEF Holding
  <2>2. Holding(segs, k) \subseteq Nat /\ IsFiniteSet(Holding(segs, k))
    BY <1>1, <2>1, FS_Subset
  <2>3. PICK i \in Holding(segs, k) : \A j \in Holding(segs, k) : j <= i
    BY <1>4, <2>2, GreatestNatural
  <2>4. Max(Holding(segs, k)) = i
    BY <2>2, <2>3, MaxIs
  <2>5. i \in 1..Len(segs) /\ segs[i].index[k] # 0
    BY DEF Holding
  <2>6. RecordIn(segs[i], k) = replay(segmentFiles[segs[i].id])[k]
    <3>1. PICK f \in Seq(Frames) : f = segmentFiles[segs[i].id]
      BY <1>1, <2>5 DEF FilesOK
    <3>2. segs[i].index = build_index(f)
      BY <1>1, <2>5, <3>1
    <3>3. read_record_at(f, build_index(f)[k]) = replay(f)[k]
      BY <2>5, <3>2, IndexReads
    <3> QED BY <3>1, <3>2, <3>3 DEF RecordIn
  <2>7. Poured(segs, k) = RecordIn(segs[i], k)
    <3> DEFINE last == CHOOSE h \in Holding(segs, k) :
                         \A j \in (h + 1)..Len(segs) : segs[j].index[k] = 0
    <3>1. \A j \in (i + 1)..Len(segs) : segs[j].index[k] = 0
      <4> SUFFICES ASSUME NEW j \in (i + 1)..Len(segs), segs[j].index[k] # 0 PROVE FALSE
        OBVIOUS
      <4>1. j \in 1..Len(segs) /\ j > i
        BY <1>1, <2>5
      <4>2. j \in Holding(segs, k)
        BY <4>1 DEF Holding
      <4> QED BY <1>1, <2>3, <2>5, <4>1, <4>2
    <3>2. last \in Holding(segs, k) /\ \A j \in (last + 1)..Len(segs) : segs[j].index[k] = 0
      BY <3>1
    <3>3. last \in Nat /\ i \in Nat /\ last <= i
      BY <2>2, <2>3, <3>2
    <3>4. ~(last < i)
      <4> HIDE DEF last
      <4> SUFFICES ASSUME last < i PROVE FALSE
        OBVIOUS
      <4>1. i \in (last + 1)..Len(segs)
        BY <1>1, <2>5, <3>3
      <4> QED BY <2>5, <3>2, <4>1
    <3>5. last = i
      BY <3>3, <3>4
    <3>6. Poured(segs, k) = RecordIn(segs[last], k)
      BY <1>4 DEF Poured
    <3> QED BY <3>5, <3>6
  <2> QED BY <1>2, <1>4, <2>3, <2>4, <2>5, <2>6, <2>7
<1> QED BY <1>3, <1>4

\* Segments among which are all files with records, poured, give what is read.
LEMMA PouredShows ==
  ASSUME NEW segs, FilesOK(segmentFiles), SegmentsOf(segs, segmentFiles), NEW k \in Keys,
         \A i : Has(segmentFiles, i, k) => \E n \in 1..Len(segs) : segs[n].id = i
  PROVE  Shows(segmentFiles, k, Visible(Poured(segs, k)))
<1>1. CASE Poured(segs, k) = None /\ \A i : ~Held(segs, segmentFiles, i, k)
  <2>1. \A i \in DOMAIN segmentFiles : ~Has(segmentFiles, i, k)
    BY <1>1 DEF Held
  <2> QED BY <1>1, <2>1 DEF Shows, Visible
<1>2. CASE \E n \in 1..Len(segs) :
             /\ Held(segs, segmentFiles, n, k)
             /\ \A j : Held(segs, segmentFiles, j, k) => j <= n
             /\ Poured(segs, k) = replay(segmentFiles[segs[n].id])[k]
  <2>1. PICK n \in 1..Len(segs) :
             /\ Held(segs, segmentFiles, n, k)
             /\ \A j : Held(segs, segmentFiles, j, k) => j <= n
             /\ Poured(segs, k) = replay(segmentFiles[segs[n].id])[k]
    BY <1>2
  <2>2. Has(segmentFiles, segs[n].id, k) /\ segs[n].id \in DOMAIN segmentFiles
    BY <2>1 DEF Held, Has
  <2>3. Visible(Poured(segs, k)) = replay(segmentFiles[segs[n].id])[k]
    BY <2>1, <2>2 DEF Visible, Has
  <2>4. ASSUME NEW i \in DOMAIN segmentFiles, Has(segmentFiles, i, k) PROVE i <= segs[n].id
    <3>1. PICK m \in 1..Len(segs) : segs[m].id = i
      BY <2>4
    <3>2. m <= n
      BY <2>1, <2>4, <3>1 DEF Held
    <3>3. m = n \/ m < n
      BY <3>2
    <3>4. i \in Nat /\ segs[n].id \in Nat
      BY <2>2 DEF FilesOK
    <3>5. m < n => segs[m].id <= segs[n].id
      BY DEF SegmentsOf
    <3> QED BY <3>1, <3>3, <3>4, <3>5
  <2> QED BY <2>2, <2>3, <2>4 DEF Shows
<1> QED BY <1>1, <1>2, SegmentReads

(***************************************************************************)
(* What the steps do to the files.                                         *)
(***************************************************************************)
Below(d, n) == \A i \in DOMAIN d : i < n

\* e is d with the new newest file f.
Extends(d, id, f, e) ==
  /\ FilesOK(d) /\ id \in Nat /\ Below(d, id) /\ f \in Seq(Frames)
  /\ e = NewFile(d, id, f)

LEMMA NewestFile ==
  ASSUME NEW d, NEW id, NEW f, NEW e, Extends(d, id, f, e)
  PROVE  e[id] = f /\ \A i \in DOMAIN d : e[i] = d[i]
<1>1. id \notin DOMAIN d /\ DOMAIN d \subseteq Nat
  BY DEF Extends, FilesOK, Below
<1>2. e = [i \in DOMAIN d \cup {id} |-> IF i = id THEN f ELSE d[i]]
  BY DEF Extends, NewFile
<1> QED BY <1>1, <1>2

LEMMA NewestFilesOK ==
  ASSUME NEW d, NEW id, NEW f, NEW e, Extends(d, id, f, e)
  PROVE  FilesOK(e) /\ DOMAIN e = DOMAIN d \cup {id} /\ \A i \in DOMAIN e : i <= id
<1>1. DOMAIN d \subseteq Nat /\ IsFiniteSet(DOMAIN d) /\ \A i \in DOMAIN d : d[i] \in Seq(Frames)
  BY DEF Extends, FilesOK
<1>2. DOMAIN e = DOMAIN d \cup {id} /\ e = [i \in DOMAIN e |-> e[i]]
  BY DEF Extends, NewFile
<1>3. e[id] = f /\ \A i \in DOMAIN d : e[i] = d[i]
  BY NewestFile
<1>4. IsFiniteSet(DOMAIN e)
  <2>1. IsFiniteSet(DOMAIN d \cup {id})
    BY <1>1, FS_AddElement
  <2> QED BY <1>2, <2>1
<1>5. \A i \in DOMAIN e : i <= id
  BY <1>1, <1>2 DEF Extends, Below
<1> QED BY <1>1, <1>2, <1>3, <1>4, <1>5 DEF Extends, FilesOK

\* If it agrees with what is read it changes nothing of that.
LEMMA NewestShows ==
  ASSUME NEW d, NEW id, NEW f, NEW e, Extends(d, id, f, e)
  PROVE  \A k, r : Shows(d, k, r) /\ Agrees(f, k, r) => Shows(e, k, r)
<1> SUFFICES ASSUME NEW k, NEW r, Shows(d, k, r), Agrees(f, k, r) PROVE Shows(e, k, r)
  OBVIOUS
<1>1. DOMAIN e = DOMAIN d \cup {id} /\ \A i \in DOMAIN e : i <= id
  BY NewestFilesOK
<1>2. e[id] = f /\ \A i \in DOMAIN d : e[i] = d[i]
  BY NewestFile
<1>6. id \notin DOMAIN d
  BY DEF Extends, FilesOK, Below
<1>3. replay(f)[k] \in {None, r}
  BY DEF Agrees
<1>4. CASE replay(f)[k] # None
  <2>1. Has(e, id, k) /\ replay(e[id])[k] = r /\ id \in DOMAIN e
    BY <1>1, <1>2, <1>3, <1>4 DEF Has
  <2> QED BY <1>1, <2>1 DEF Shows
<1>5. CASE replay(f)[k] = None
  <2>1. ~Has(e, id, k)
    BY <1>2, <1>5 DEF Has
  <2>2. \A i : Has(d, i, k) <=> Has(e, i, k)
    BY <1>1, <1>2, <1>6, <2>1 DEF Has
  <2>3. \A i : Has(d, i, k) => replay(e[i])[k] = replay(d[i])[k]
    BY <1>2 DEF Has
  <2> QED BY <2>2, <2>3, ShowsSame
<1> QED BY <1>4, <1>5

FileWith(d, a, k, r) == [d EXCEPT ![a] = Append(@, encode_frame(k, r))]
FileWithTorn(d, a, k, r) == [d EXCEPT ![a] = Append(@, Torn(encode_frame(k, r)))]

\* A frame at the end of the newest file.
LEMMA FileWritten ==
  ASSUME NEW d, FilesOK(d), NEW a \in DOMAIN d, \A i \in DOMAIN d : i <= a,
         AllWhole(d[a]), NEW k \in Keys, NEW r \in Stored,
         NEW e, e = FileWith(d, a, k, r)
  PROVE  /\ FilesOK(e) /\ DOMAIN e = DOMAIN d /\ \A i \in DOMAIN d \ {a} : e[i] = d[i]
         /\ AllWhole(e[a]) /\ replay(e[a]) = [replay(d[a]) EXCEPT ![k] = r]
         /\ Shows(e, k, r)
         /\ \A q \in Keys \ {k} : \A s : Shows(d, q, s) => Shows(e, q, s)
<1>1. PICK f \in Seq(Frames) : f = d[a]
  BY DEF FilesOK
<1>2. PICK g : g = WithFrame(f, k, r)
  OBVIOUS
<1>3. /\ g \in Seq(Frames) /\ AllWhole(g)
      /\ \A q \in Keys : replay(g)[q] = IF q = k THEN r ELSE replay(f)[q]
  <2>1. AllWhole(f)
    BY <1>1
  <2> QED BY <1>2, <2>1, AppendedWhole
<1>4. DOMAIN e = DOMAIN d /\ e[a] = g /\ \A i \in DOMAIN d \ {a} : e[i] = d[i]
  BY <1>1, <1>2 DEF FilesOK, FileWith, WithFrame
<1>5. FilesOK(e)
  <2>1. e = [i \in DOMAIN e |-> e[i]]
    BY <1>4 DEF FilesOK, FileWith
  <2> QED BY <1>3, <1>4, <2>1 DEF FilesOK
<1>6. replay(g) = [replay(f) EXCEPT ![k] = r]
  <2>1. replay(g) = [q \in Keys |-> replay(g)[q]] /\ replay(f) = [q \in Keys |-> replay(f)[q]]
    BY DEF replay
  <2> QED BY <1>3, <2>1
<1>7. Shows(e, k, r)
  <2>1. Has(e, a, k) /\ replay(e[a])[k] = r /\ a \in DOMAIN e
    BY <1>3, <1>4, NoneStored DEF Has
  <2> QED BY <1>4, <2>1 DEF Shows
<1>8. ASSUME NEW q \in Keys \ {k}, NEW s, Shows(d, q, s) PROVE Shows(e, q, s)
  <2>1. \A i \in DOMAIN d : replay(e[i])[q] = replay(d[i])[q]
    BY <1>1, <1>3, <1>4
  <2>2. \A i : Has(d, i, q) <=> Has(e, i, q)
    BY <1>4, <2>1 DEF Has
  <2>3. \A i : Has(d, i, q) => replay(e[i])[q] = replay(d[i])[q]
    BY <2>1 DEF Has
  <2> QED BY <1>8, <2>2, <2>3, ShowsSame
<1> QED BY <1>1, <1>3, <1>4, <1>5, <1>6, <1>7, <1>8

\* A frame cut off at the end of a file.
LEMMA FileTorn ==
  ASSUME NEW d, FilesOK(d), NEW a \in DOMAIN d, AllWhole(d[a]), NEW k \in Keys, NEW r \in Stored,
         NEW e, e = FileWithTorn(d, a, k, r)
  PROVE  FilesOK(e) /\ \A q \in Keys : \A s : Shows(d, q, s) => Shows(e, q, s)
<1>1. PICK f \in Seq(Frames) : f = d[a]
  BY DEF FilesOK
<1>2. PICK g : g = WithTorn(f, k, r)
  OBVIOUS
<1>3. g \in Seq(Frames) /\ \A q \in Keys : replay(g)[q] = replay(f)[q]
  <2>1. AllWhole(f)
    BY <1>1
  <2> QED BY <1>2, <2>1, AppendedTorn
<1>4. DOMAIN e = DOMAIN d /\ e[a] = g /\ \A i \in DOMAIN d \ {a} : e[i] = d[i]
  BY <1>1, <1>2 DEF FilesOK, FileWithTorn, WithTorn
<1>5. FilesOK(e)
  <2>1. e = [i \in DOMAIN e |-> e[i]]
    BY <1>4 DEF FilesOK, FileWithTorn
  <2> QED BY <1>3, <1>4, <2>1 DEF FilesOK
<1>6. ASSUME NEW q \in Keys, NEW s, Shows(d, q, s) PROVE Shows(e, q, s)
  <2>1. \A i \in DOMAIN d : replay(e[i])[q] = replay(d[i])[q]
    BY <1>1, <1>3, <1>4
  <2>2. \A i : Has(d, i, q) <=> Has(e, i, q)
    BY <1>4, <2>1 DEF Has
  <2>3. \A i : Has(d, i, q) => replay(e[i])[q] = replay(d[i])[q]
    BY <2>1 DEF Has
  <2> QED BY <1>6, <2>2, <2>3, ShowsSame
<1> QED BY <1>5, <1>6

(***************************************************************************)
(* The merged segment: R(k) is the record of k that compact finds.         *)
(***************************************************************************)
MergedRecord(k) == Poured(ToMerge, k)

\* It holds the keys with a live value, once each, or a part of them.
LEMMA MergedFrames ==
  ASSUME FilesOK(segmentFiles), SegmentsOf(ToMerge, segmentFiles)
  PROVE  /\ \A k \in Keys : MergedRecord(k) \in Stored \cup {None}
         /\ Merged \in Seq(Frames) /\ AllWhole(Merged)
         /\ \A n \in 1..Len(Merged) : Merged[n].record = MergedRecord(Merged[n].key)
         /\ \A k \in Keys : MergedRecord(k) \in Values =>
              \E n \in 1..Len(Merged) : Merged[n].key = k
<1>1. ASSUME NEW k \in Keys PROVE MergedRecord(k) \in Stored \cup {None}
  <2> PICK segs : segs = ToMerge
    OBVIOUS
  <2>1. CASE Poured(segs, k) = None
    BY <2>1 DEF MergedRecord
  <2>2. CASE \E i \in 1..Len(segs) :
               /\ Held(segs, segmentFiles, i, k)
               /\ Poured(segs, k) = replay(segmentFiles[segs[i].id])[k]
    <3>1. PICK i \in 1..Len(segs) :
               /\ Held(segs, segmentFiles, i, k)
               /\ Poured(segs, k) = replay(segmentFiles[segs[i].id])[k]
      BY <2>2
    <3>2. PICK f \in Seq(Frames) : f = segmentFiles[segs[i].id]
      BY <3>1 DEF Held, Has, FilesOK
    <3>3. replay(f)[k] \in Stored \cup {None}
      BY IndexReads
    <3> QED BY <3>1, <3>2, <3>3 DEF MergedRecord
  <2>3. SegmentsOf(segs, segmentFiles)
    OBVIOUS
  <2> QED BY <2>1, <2>2, <2>3, SegmentReads
<1> DEFINE keys == {k \in Keys : MergedRecord(k) \in Values}
<1>2. keys \in SUBSET Keys /\ keys \subseteq Nat /\ IsFiniteSet(keys)
  <2>1. keys \in SUBSET Keys /\ Keys \subseteq Nat /\ IsFiniteSet(Keys)
    BY EngineAssumption
  <2> QED BY <2>1, FS_Subset
<1> PICK live : live = Ascending(keys)
  OBVIOUS
<1>3. Merged = [n \in 1..Len(live) |-> encode_frame(live[n], MergedRecord(live[n]))]
  BY DEF Merged, MergedRecord
<1>4. keys = {k \in Keys : MergedRecord(k) \in Values}
  OBVIOUS
<1> HIDE DEF keys
<1>5. /\ live \in Seq(keys) /\ Len(live) \in Nat
      /\ \A k \in keys : \E n \in 1..Len(live) : live[n] = k
  BY <1>2, AscendingOrder
<1>6. ASSUME NEW n \in 1..Len(live)
      PROVE  /\ Merged[n] \in Frames /\ Merged[n].whole /\ Merged[n].key = live[n]
             /\ Merged[n].record = MergedRecord(Merged[n].key)
  <2>1. PICK k \in keys : k = live[n]
    BY <1>5
  <2>2. k \in Keys /\ MergedRecord(k) \in Stored
    BY <1>4 DEF Stored
  <2>3. Merged[n] = encode_frame(k, MergedRecord(k))
    BY <1>3, <2>1
  <2> QED BY <2>1, <2>2, <2>3 DEF encode_frame, Frames
<1>7. Merged \in Seq(Frames) /\ Len(Merged) = Len(live)
  <2> PICK m : m = Merged
    OBVIOUS
  <2> PICK l \in Nat : l = Len(live)
    BY <1>5
  <2>1. m = [n \in 1..l |-> m[n]] /\ \A n \in 1..l : m[n] \in Frames
    BY <1>3, <1>6
  <2> QED BY <2>1
<1>8. ASSUME NEW k \in Keys, MergedRecord(k) \in Values
      PROVE  \E n \in 1..Len(Merged) : Merged[n].key = k
  <2>1. k \in keys
    BY <1>4, <1>8
  <2> QED BY <1>5, <1>6, <1>7, <2>1
<1> QED BY <1>1, <1>6, <1>7, <1>8 DEF AllWhole

\* What the merged segment and what a crash leaves of it say of a key is
\* what is read, and the whole one says so of every live value.
LEMMA MergedSays ==
  ASSUME FilesOK(segmentFiles), SegmentsOf(ToMerge, segmentFiles), NEW k \in Keys
  PROVE  /\ replay(Merged)[k] \in {None, Visible(MergedRecord(k))}
         /\ replay(Merged)[k] = None => Visible(MergedRecord(k)) = Nil
<1>1. MergedRecord(k) \in Stored \cup {None} /\ \A n \in 1..Len(Merged) : Merged[n].whole
  BY MergedFrames DEF AllWhole
<1> PICK R : R = [q \in Keys |-> MergedRecord(q)]
  OBVIOUS
<1> PICK m \in Seq(Frames) : m = Merged
  BY MergedFrames
<1>2. \A n \in 1..Len(m) : m[n].record = R[m[n].key]
  <2>1. ASSUME NEW n \in 1..Len(m) PROVE m[n].record = R[m[n].key]
    <3>1. PICK x \in Frames : x = m[n]
      OBVIOUS
    <3>2. x.key \in Keys
      BY DEF Frames
    <3> QED BY <3>1, <3>2, MergedFrames
  <2> QED BY <2>1
<1>3. replay(m)[k] = None \/ replay(m)[k] = R[k]
  BY <1>2, PartOf
<1>4. ASSUME replay(m)[k] = None PROVE MergedRecord(k) \notin Values
  <2> SUFFICES ASSUME MergedRecord(k) \in Values PROVE FALSE
    OBVIOUS
  <2>1. PICK n \in 1..Len(m) : m[n].key = k
    BY MergedFrames
  <2>2. AllWhole(m)
    BY MergedFrames
  <2>3. n \in GoodOf(m, k)
    BY <2>1, <2>2, GoodWhole DEF GoodOf
  <2>4. PICK i \in GoodOf(m, k) : replay(m)[k] = m[i].record
    BY <2>3, IndexLast
  <2>5. i \in 1..Len(m)
    BY GoodBounds
  <2>6. PICK x \in Frames : x = m[i]
    BY <2>5
  <2>7. x.record \in Stored
    BY DEF Frames
  <2> QED BY <1>4, <2>4, <2>6, <2>7, NoneStored
<1> QED BY <1>1, <1>3, <1>4 DEF Visible, Stored

LEMMA MergedPart ==
  ASSUME FilesOK(segmentFiles), SegmentsOf(ToMerge, segmentFiles),
         NEW n \in 0..Len(Merged), NEW f,
         \/ f = SubSeq(Merged, 1, n)
         \/ n > 0 /\ f = [SubSeq(Merged, 1, n) EXCEPT ![n] = Torn(@)]
  PROVE  f \in Seq(Frames) /\ \A k \in Keys : Agrees(f, k, Visible(MergedRecord(k)))
<1> PICK R : R = [q \in Keys |-> MergedRecord(q)]
  OBVIOUS
<1> PICK m \in Seq(Frames) : m = Merged
  BY MergedFrames
<1>1. PICK l \in Nat : l = n
  OBVIOUS
<1>2. PICK p : p = SubSeq(m, 1, l)
  OBVIOUS
<1>3. p \in Seq(Frames) /\ Len(p) = l /\ \A i \in 1..l : i \in 1..Len(m) /\ p[i] = m[i]
  BY <1>1, <1>2
<1>4. ASSUME NEW i \in 1..l
      PROVE  /\ p[i] \in Frames /\ p[i].record = R[p[i].key]
             /\ Torn(p[i]) \in Frames /\ Torn(p[i]).record = R[Torn(p[i]).key]
  <2>1. PICK x \in Frames : x = m[i]
    BY <1>3
  <2>2. x.key \in Keys
    BY DEF Frames
  <2>3. x.record = R[x.key]
    BY <1>3, <2>1, <2>2, MergedFrames
  <2>4. Torn(x) \in Frames /\ Torn(x).record = x.record /\ Torn(x).key = x.key
    BY DEF Torn, Frames
  <2> QED BY <1>3, <2>1, <2>3, <2>4
<1>5. f \in Seq(Frames) /\ Len(f) = l /\ \A i \in 1..l : f[i].record = R[f[i].key]
  <2>1. CASE f = p
    BY <1>3, <1>4, <2>1
  <2>2. CASE n > 0 /\ f = [p EXCEPT ![l] = Torn(@)]
    <3>1. l \in 1..l /\ l \in 1..Len(p)
      BY <1>1, <1>3, <2>2
    <3>2. DOMAIN f = 1..l /\ \A i \in 1..l : f[i] = IF i = l THEN Torn(p[l]) ELSE p[i]
      <4> PICK z : z = Torn(p[l])
        OBVIOUS
      <4>1. DOMAIN p = 1..l /\ f = [p EXCEPT ![l] = z]
        BY <1>3, <2>2
      <4>2. DOMAIN f = 1..l /\ \A i \in 1..l : f[i] = IF i = l THEN z ELSE p[i]
        BY <4>1
      <4> QED BY <4>2
    <3>3. \A i \in 1..l : f[i] \in Frames /\ f[i].record = R[f[i].key]
      BY <1>4, <3>1, <3>2
    <3>4. PICK c \in Nat : c = l
      BY <1>1
    <3>5. f = [i \in 1..c |-> f[i]] /\ \A i \in 1..c : f[i] \in Frames
      <4>1. f = [i \in DOMAIN p |-> f[i]]
        BY <2>2
      <4>2. DOMAIN p = 1..c
        BY <1>3, <3>4
      <4> QED BY <3>3, <3>4, <4>1, <4>2
    <3>6. f \in Seq(Frames) /\ Len(f) = c
      BY ONLY <3>4, <3>5
    <3> QED BY <3>3, <3>4, <3>6
  <2> QED BY <1>1, <1>2, <2>1, <2>2
<1>6. ASSUME NEW k \in Keys PROVE Agrees(f, k, Visible(MergedRecord(k)))
  <2>1. f \in Seq(Frames) /\ \A n1 \in 1..Len(f) : f[n1].record = R[f[n1].key]
    BY <1>5
  <2>2. replay(f)[k] = None \/ replay(f)[k] = R[k]
    BY ONLY <2>1, k \in Keys, PartOf
  <2> QED BY <2>2 DEF Agrees, Visible
<1> QED BY <1>5, <1>6

(***************************************************************************)
(* The inductive invariant.                                                *)
(***************************************************************************)

\* Before a compaction: every file but the active one, the last, is a sealed
\* segment.
Uncompacted ==
  /\ todo = << >> /\ next_segment = active + 1
  /\ \A i \in DOMAIN segmentFiles : i = active \/ \E n \in 1..Len(segments) : segments[n].id = i
  /\ \A n \in 1..Len(segments) : segments[n].id < active

\* After one: the merged file is the last and the only segment. The other
\* files that have records are yet to be removed, the oldest first, and of
\* a key the merged file leaves out the newest of them has no value.
Compacted ==
  /\ Len(segments) = 1 /\ segments[1].id = next_segment - 1
  /\ active < next_segment - 1 /\ segmentFiles[active] = << >>
  /\ todo \in Seq(Nat)
  /\ \A i \in 1..Len(todo) : todo[i] < active
  /\ \A i, j \in 1..Len(todo) : i < j => todo[i] <= todo[j]
  /\ \A i \in DOMAIN segmentFiles, k \in Keys :
       Has(segmentFiles, i, k) /\ i # next_segment - 1 => \E n \in 1..Len(todo) : todo[n] = i
  /\ \A k \in Keys :
       replay(segmentFiles[next_segment - 1])[k] = None => Shows(segmentFiles, k, Nil)

Serving ==
  /\ SegmentsOf(segments, segmentFiles)
  /\ active \in DOMAIN segmentFiles /\ AllWhole(segmentFiles[active])
  /\ memtable = replay(segmentFiles[active])
  /\ next_segment \in Nat /\ next_segment - 1 \in DOMAIN segmentFiles
  /\ Below(segmentFiles, next_segment)

EngineInv ==
  /\ FilesOK(segmentFiles)
  /\ inUse \in BOOLEAN /\ compacted \in BOOLEAN
  /\ ~inUse => todo = << >> /\ ~compacted
  /\ inUse => Serving
  /\ inUse /\ ~compacted => Uncompacted
  /\ inUse /\ compacted => Compacted

ReadsFiles ==
  \A k \in Keys : Shows(segmentFiles, k, Read[k]) /\ Shows(segmentFiles, k, Scanned[k])

LEMMA EngineReads == EngineInv => ReadsFiles
<1> SUFFICES ASSUME EngineInv, NEW k \in Keys
             PROVE  Shows(segmentFiles, k, Read[k]) /\ Shows(segmentFiles, k, Scanned[k])
  BY DEF ReadsFiles
<1>1. FilesOK(segmentFiles)
  BY DEF EngineInv
<1>2. CASE ~inUse
  <2>1. Read[k] = AfterOpen(k) /\ Scanned[k] = AfterOpen(k)
    BY <1>2 DEF Read, Scanned
  <2> QED BY <1>1, <2>1, OpenShows
<1>3. CASE inUse
  <2>1. Read[k] = get(k) /\ Scanned[k] = scan_prefix(k)
    BY <1>3 DEF Read, Scanned
  <2>2. Serving
    BY <1>3 DEF EngineInv
  <2>3. PICK a \in DOMAIN segmentFiles : a = active /\ a \in Nat
    BY <1>1, <2>2 DEF Serving, FilesOK
  <2>4. PICK r : r = memtable[k] /\ r = replay(segmentFiles[a])[k]
    BY <2>2, <2>3 DEF Serving
  <2>5. SegmentsOf(segments, segmentFiles)
    BY <2>2 DEF Serving
  <2>6. ASSUME memtable[k] = None
        PROVE  get(k) = Visible(Poured(segments, k)) /\ scan_prefix(k) = get(k)
    <3>1. scan_prefix(k) = Visible(Poured(segments, k))
      BY <2>6 DEF scan_prefix
    <3>2. CASE Holding(segments, k) = {} /\ Poured(segments, k) = None
      BY <2>6, <3>1, <3>2 DEF get, Visible
    <3>3. CASE \E i \in 1..Len(segments) :
                 /\ Held(segments, segmentFiles, i, k)
                 /\ Holding(segments, k) # {} /\ Max(Holding(segments, k)) = i
                 /\ Poured(segments, k) = replay(segmentFiles[segments[i].id])[k]
                 /\ RecordIn(segments[i], k) = replay(segmentFiles[segments[i].id])[k]
      <4>1. PICK i \in 1..Len(segments) :
                 /\ Held(segments, segmentFiles, i, k)
                 /\ Holding(segments, k) # {} /\ Max(Holding(segments, k)) = i
                 /\ Poured(segments, k) = replay(segmentFiles[segments[i].id])[k]
                 /\ RecordIn(segments[i], k) = replay(segmentFiles[segments[i].id])[k]
        BY <3>3
      <4>2. get(k) = Poured(segments, k) /\ Poured(segments, k) # None
        BY <2>6, <4>1 DEF get, Held, Has
      <4> QED BY <3>1, <4>2 DEF Visible
    <3> QED BY <1>1, <2>5, <3>2, <3>3, SegmentReads
  <2>7. CASE ~compacted
    <3>1. Uncompacted
      BY <1>3, <2>7 DEF EngineInv
    <3>2. CASE memtable[k] = None
      <4>1. \A i : Has(segmentFiles, i, k) => \E n \in 1..Len(segments) : segments[n].id = i
        BY <2>3, <2>4, <3>1, <3>2 DEF Uncompacted, Has
      <4>2. Shows(segmentFiles, k, Visible(Poured(segments, k)))
        BY <1>1, <2>5, <4>1, PouredShows
      <4> QED BY <2>1, <2>6, <3>2, <4>2
    <3>3. CASE memtable[k] # None
      <4>1. get(k) = r /\ scan_prefix(k) = r
        BY <2>4, <3>3 DEF get, scan_prefix, Visible
      <4>2. \A j \in DOMAIN segmentFiles : j <= a
        BY <1>1, <2>2, <2>3, <3>1 DEF Serving, Uncompacted, Below, FilesOK
      <4>3. Has(segmentFiles, a, k)
        BY <2>3, <2>4, <3>3 DEF Has
      <4>4. Shows(segmentFiles, k, r)
        BY <2>3, <2>4, <4>2, <4>3 DEF Shows
      <4> QED BY <2>1, <4>1, <4>4
    <3> QED BY <3>2, <3>3
  <2>8. CASE compacted
    <3>1. Compacted
      BY <1>3, <2>8 DEF EngineInv
    <3>2. memtable[k] = None
      BY <2>3, <2>4, <3>1, EmptyFile DEF Compacted
    <3>3. PICK m \in DOMAIN segmentFiles : m = next_segment - 1
      BY <2>2 DEF Serving
    <3>4. Len(segments) = 1 /\ segments[1].id = m /\ 1 \in 1..Len(segments)
      BY <3>1, <3>3 DEF Compacted
    <3>5. Shows(segmentFiles, k, Visible(Poured(segments, k)))
      <4>1. CASE Poured(segments, k) = None /\ \A i : ~Held(segments, segmentFiles, i, k)
        <5>1. ~Held(segments, segmentFiles, 1, k)
          BY <4>1
        <5>2. replay(segmentFiles[m])[k] = None
          BY <3>3, <3>4, <5>1 DEF Held, Has
        <5>3. Shows(segmentFiles, k, Nil)
          BY <3>1, <3>3, <5>2 DEF Compacted
        <5> QED BY <4>1, <5>3 DEF Visible
      <4>2. CASE \E i \in 1..Len(segments) :
                   /\ Held(segments, segmentFiles, i, k)
                   /\ Poured(segments, k) = replay(segmentFiles[segments[i].id])[k]
        <5>1. PICK i \in 1..Len(segments) :
                   /\ Held(segments, segmentFiles, i, k)
                   /\ Poured(segments, k) = replay(segmentFiles[segments[i].id])[k]
          BY <4>2
        <5>2. i = 1
          BY <3>4, <5>1
        <5>3. Has(segmentFiles, m, k) /\ Poured(segments, k) = replay(segmentFiles[m])[k]
          BY <3>4, <5>1, <5>2 DEF Held
        <5>4. \A j \in DOMAIN segmentFiles : j <= m
          BY <1>1, <2>2, <3>3 DEF Serving, Below, FilesOK
        <5>5. Visible(Poured(segments, k)) = replay(segmentFiles[m])[k]
          BY <5>3 DEF Visible, Has
        <5> QED BY <3>3, <5>3, <5>4, <5>5 DEF Shows
      <4> QED BY <1>1, <2>5, <4>1, <4>2, SegmentReads
    <3> QED BY <2>1, <2>6, <3>2, <3>5
  <2> QED BY <2>7, <2>8
<1> QED BY <1>2, <1>3

(***************************************************************************)
(* The segments that a step makes.                                         *)
(***************************************************************************)
Sealing(segs, id, f) == Append(segs, SealedSegment(id, f))

LEMMA SealedShape ==
  ASSUME NEW id \in Nat, NEW f \in Seq(Frames)
  PROVE  /\ SealedSegment(id, f) \in [id : Nat, index : [Keys -> Nat]]
         /\ SealedSegment(id, f).id = id /\ SealedSegment(id, f).index = build_index(f)
<1>1. \A k \in Keys : build_index(f)[k] \in Nat
  BY IndexReads
<1>2. build_index(f) = [k \in Keys |-> build_index(f)[k]]
  BY DEF build_index
<1>3. build_index(f) \in [Keys -> Nat]
  <2> PICK g : g = build_index(f)
    OBVIOUS
  <2>1. g = [k \in Keys |-> g[k]] /\ \A k \in Keys : g[k] \in Nat
    BY <1>1, <1>2
  <2> QED BY <2>1
<1> QED BY <1>3 DEF SealedSegment

LEMMA SegmentsAdded ==
  ASSUME NEW segs, NEW d, FilesOK(d), SegmentsOf(segs, d), NEW id \in DOMAIN d,
         \A n \in 1..Len(segs) : segs[n].id <= id,
         NEW t, t = Sealing(segs, id, d[id])
  PROVE  /\ SegmentsOf(t, d) /\ Len(t) = Len(segs) + 1 /\ Len(segs) \in Nat
         /\ t[Len(segs) + 1].id = id
         /\ \A n \in 1..Len(segs) : t[n] = segs[n]
<1> DEFINE Segment == [id : Nat, index : [Keys -> Nat]]
<1>1. id \in Nat /\ d[id] \in Seq(Frames)
  BY DEF FilesOK
<1>2. PICK s : s = SealedSegment(id, d[id])
  OBVIOUS
<1>3. s \in Segment /\ s.id = id /\ s.index = build_index(d[id])
  <2>1. PICK f \in Seq(Frames) : f = d[id]
    BY <1>1
  <2> QED BY <1>1, <1>2, <2>1, SealedShape
<1>4. /\ segs \in Seq(Segment)
      /\ \A i \in 1..Len(segs) :
           segs[i].id \in DOMAIN d /\ segs[i].index = build_index(d[segs[i].id])
      /\ \A i, j \in 1..Len(segs) : i < j => segs[i].id <= segs[j].id
  BY DEF SegmentsOf
<1> HIDE DEF Segment
<1>5. PICK l \in Nat : l = Len(segs)
  BY <1>4
<1>6. t \in Seq(Segment) /\ Len(t) = l + 1 /\ t[l + 1] = s /\ \A n \in 1..l : t[n] = segs[n]
  BY <1>2, <1>3, <1>4, <1>5 DEF Sealing
<1>7. \A n \in 1..(l + 1) : n \in 1..l \/ n = l + 1
  BY <1>5
<1>8. \A i \in 1..Len(t) : t[i].id \in DOMAIN d /\ t[i].index = build_index(d[t[i].id])
  BY <1>3, <1>4, <1>5, <1>6, <1>7
<1>9. ASSUME NEW i \in 1..Len(t), NEW j \in 1..Len(t), i < j PROVE t[i].id <= t[j].id
  <2>1. i \in 1..l
    BY <1>5, <1>6, <1>9
  <2>2. CASE j \in 1..l
    BY <1>4, <1>5, <1>6, <1>9, <2>1, <2>2
  <2>3. CASE j = l + 1
    BY <1>3, <1>5, <1>6, <2>1, <2>3
  <2> QED BY <1>6, <1>7, <2>2, <2>3
<1> QED BY <1>3, <1>5, <1>6, <1>8, <1>9 DEF SegmentsOf, Segment

LEMMA SegmentsStay ==
  ASSUME NEW segs, NEW d, SegmentsOf(segs, d), NEW e,
         \A n \in 1..Len(segs) : segs[n].id \in DOMAIN e /\ e[segs[n].id] = d[segs[n].id]
  PROVE  SegmentsOf(segs, e)
BY DEF SegmentsOf

LEMMA RecoverySegments ==
  ASSUME FilesOK(segmentFiles)
  PROVE  /\ SegmentsOf(Sealed, segmentFiles)
         /\ \A i \in DOMAIN segmentFiles : \E n \in 1..Len(Sealed) : Sealed[n].id = i
         /\ FreshId(segmentFiles) \in Nat /\ Below(segmentFiles, FreshId(segmentFiles))
<1> PICK d : d = segmentFiles
  OBVIOUS
<1> PICK S : S = DOMAIN d
  OBVIOUS
<1>1. S \subseteq Nat /\ IsFiniteSet(S)
  BY DEF FilesOK
<1>2. PICK l \in Nat : l = Cardinality(S)
  BY <1>1, AscendingOrder
<1> PICK ids : ids = Ascending(S)
  OBVIOUS
<1>3. /\ ids \in Seq(S) /\ Len(ids) = l
      /\ \A i, j \in 1..l : i < j => ids[i] < ids[j]
      /\ \A x \in S : \E i \in 1..l : ids[i] = x
  <2>1. /\ Ascending(S) \in Seq(S) /\ Len(Ascending(S)) = Cardinality(S)
        /\ \A i, j \in 1..Cardinality(S) : i < j => Ascending(S)[i] < Ascending(S)[j]
        /\ \A x \in S : \E i \in 1..Cardinality(S) : Ascending(S)[i] = x
    BY ONLY <1>1, AscendingOrder
  <2> QED BY <1>2, <2>1
<1> DEFINE Segment == [id : Nat, index : [Keys -> Nat]]
<1> PICK s : s = Sealed
  OBVIOUS
<1>4. s = [n \in 1..l |-> SealedSegment(ids[n], d[ids[n]])]
  BY <1>3 DEF Sealed, AllFiles
<1>5. ASSUME NEW n \in 1..l
      PROVE  /\ s[n] \in Segment /\ s[n].id = ids[n] /\ ids[n] \in S
             /\ s[n].index = build_index(d[ids[n]])
  <2>1. PICK i \in Nat : i = ids[n] /\ i \in S
    BY <1>1, <1>3
  <2>2. PICK f \in Seq(Frames) : f = d[i]
    BY <2>1 DEF FilesOK
  <2>3. s[n] = SealedSegment(i, f)
    BY <1>4, <2>1, <2>2
  <2> QED BY <2>1, <2>2, <2>3, SealedShape
<1> HIDE DEF Segment
<1>6. s \in Seq(Segment) /\ Len(s) = l
  <2>1. s = [n \in 1..l |-> s[n]]
    BY <1>4
  <2>2. \A n \in 1..l : s[n] \in Segment
    BY <1>5
  <2> QED BY ONLY <1>2, l \in Nat, <2>1, <2>2
<1>7. \A i, j \in 1..Len(s) : i < j => s[i].id <= s[j].id
  <2> SUFFICES ASSUME NEW i \in 1..l, NEW j \in 1..l, i < j PROVE s[i].id <= s[j].id
    BY <1>6
  <2>1. s[i].id = ids[i] /\ s[j].id = ids[j]
    BY <1>5
  <2>2. PICK x \in Nat, y \in Nat : x = ids[i] /\ y = ids[j]
    BY <1>1, <1>5
  <2>3. x < y
    BY <1>3, <2>2
  <2> QED BY <2>1, <2>2, <2>3
<1>8. SegmentsOf(s, d)
  <2>1. \A n \in 1..Len(s) : s[n].id \in DOMAIN d /\ s[n].index = build_index(d[s[n].id])
    <3> SUFFICES ASSUME NEW n \in 1..l
                 PROVE  s[n].id \in DOMAIN d /\ s[n].index = build_index(d[s[n].id])
      BY <1>6
    <3> QED BY <1>5
  <2> QED BY <1>6, <1>7, <2>1 DEF SegmentsOf, Segment
<1>9. ASSUME NEW i \in S PROVE \E n \in 1..Len(s) : s[n].id = i
  <2>1. PICK n \in 1..l : ids[n] = i
    BY <1>3
  <2>2. s[n].id = i /\ n \in 1..Len(s)
    BY <1>5, <1>6, <2>1
  <2> QED BY <2>2
<1>10. FreshId(d) \in Nat /\ Below(d, FreshId(d))
  <2>1. CASE S = {}
    BY <2>1 DEF FreshId, Below
  <2>2. CASE S # {}
    <3>1. PICK x \in S : (\A y \in S : y <= x) /\ x = Ascending(S)[Cardinality(S)]
      BY <1>1, <2>2, GreatestNatural
    <3>2. FreshId(d) = x + 1
      BY <2>2, <3>1 DEF FreshId, AllFiles
    <3>3. x \in Nat /\ \A y \in S : y \in Nat
      BY <1>1, <3>1
    <3> QED BY <3>1, <3>2, <3>3 DEF Below
  <2> QED BY <2>1, <2>2
<1> QED BY <1>8, <1>9, <1>10

(***************************************************************************)
(* The steps. A step leaves what is read of every key, or it writes one.   *)
(***************************************************************************)
Kept(k) == \A s : Shows(segmentFiles, k, s) => Shows(segmentFiles', k, s)
Written(k, r) == Shows(segmentFiles', k, r) /\ \A q \in Keys \ {k} : Kept(q)

LEMMA EmptyReplay == replay(<< >>) = NoRecords
<1>1. replay(<< >>) = [k \in Keys |-> replay(<< >>)[k]]
  BY DEF replay
<1> QED BY <1>1, EmptyFile DEF NoRecords

\* The files with one more frame in the active one.
LEMMA Appending ==
  ASSUME EngineInv, inUse, ~compacted, NEW k \in Keys, NEW r \in Stored,
         NEW e, e = Appended(encode_frame(k, r))
  PROVE  /\ FilesOK(e) /\ DOMAIN e = DOMAIN segmentFiles /\ AllWhole(e[active])
         /\ active \in DOMAIN segmentFiles /\ active \in Nat /\ Below(segmentFiles, active + 1)
         /\ replay(e[active]) = [memtable EXCEPT ![k] = r]
         /\ SegmentsOf(segments, e)
         /\ Shows(e, k, r)
         /\ \A q \in Keys \ {k} : \A s : Shows(segmentFiles, q, s) => Shows(e, q, s)
<1>1. FilesOK(segmentFiles) /\ Serving /\ Uncompacted
  BY DEF EngineInv
<1> PICK d, a : d = segmentFiles /\ a = active
  OBVIOUS
<1>2. a \in DOMAIN d /\ AllWhole(d[a]) /\ memtable = replay(d[a]) /\ SegmentsOf(segments, d)
  BY <1>1 DEF Serving
<1>3. a \in Nat /\ DOMAIN d \subseteq Nat
  BY <1>1, <1>2 DEF FilesOK
<1>4. Below(d, a + 1) /\ \A i \in DOMAIN d : i <= a
  BY <1>1, <1>3 DEF Serving, Uncompacted, Below
<1>5. e = FileWith(d, a, k, r)
  BY DEF Appended, FileWith
<1>6. /\ FilesOK(e) /\ DOMAIN e = DOMAIN d /\ \A i \in DOMAIN d \ {a} : e[i] = d[i]
      /\ AllWhole(e[a]) /\ replay(e[a]) = [replay(d[a]) EXCEPT ![k] = r]
      /\ Shows(e, k, r)
      /\ \A q \in Keys \ {k} : \A s : Shows(d, q, s) => Shows(e, q, s)
  <2>1. FilesOK(d)
    BY <1>1
  <2> QED BY <2>1, <1>2, <1>4, <1>5, FileWritten
<1>7. SegmentsOf(segments, e)
  <2>1. \A n \in 1..Len(segments) : segments[n].id \in DOMAIN d /\ segments[n].id < a
    BY <1>1 DEF Serving, SegmentsOf, Uncompacted
  <2>2. \A n \in 1..Len(segments) :
          segments[n].id \in DOMAIN e /\ e[segments[n].id] = d[segments[n].id]
    BY <1>3, <1>6, <2>1
  <2> QED BY <1>2, <2>2, SegmentsStay
<1> QED BY <1>2, <1>3, <1>4, <1>6, <1>7

LEMMA StepAppend ==
  ASSUME EngineInv, inUse, ~compacted, NEW k \in Keys, NEW r \in Stored,
         segmentFiles' = Appended(encode_frame(k, r)), memtable' = [memtable EXCEPT ![k] = r],
         UNCHANGED <<segments, active, next_segment, inUse, todo, compacted>>
  PROVE  EngineInv' /\ Written(k, r)
<1>1. Serving /\ Uncompacted
  BY DEF EngineInv
<1> PICK e : e = segmentFiles'
  OBVIOUS
<1>2. /\ FilesOK(e) /\ DOMAIN e = DOMAIN segmentFiles /\ AllWhole(e[active])
      /\ active \in DOMAIN segmentFiles
      /\ replay(e[active]) = [memtable EXCEPT ![k] = r] /\ SegmentsOf(segments, e)
  BY Appending
<1>3. Shows(e, k, r) /\ \A q \in Keys \ {k} : \A s : Shows(segmentFiles, q, s) => Shows(e, q, s)
  BY Appending
<1>4. Below(e, next_segment)
  BY <1>1, <1>2 DEF Serving, Below
<1>5. Serving'
  BY <1>1, <1>2, <1>4 DEF Serving
<1>6. Uncompacted'
  BY <1>1, <1>2 DEF Uncompacted
<1> QED BY <1>2, <1>3, <1>5, <1>6 DEF EngineInv, Written, Kept

LEMMA StepSeal ==
  ASSUME EngineInv, inUse, ~compacted, NEW k \in Keys, NEW r \in Stored,
         seal(Appended(encode_frame(k, r))), UNCHANGED <<inUse, todo, compacted>>
  PROVE  EngineInv' /\ Written(k, r)
<1>1. Serving /\ Uncompacted
  BY DEF EngineInv
<1> PICK e : e = Appended(encode_frame(k, r))
  OBVIOUS
<1> PICK a : a = active
  OBVIOUS
<1>2. /\ FilesOK(e) /\ DOMAIN e = DOMAIN segmentFiles /\ a \in DOMAIN e /\ a \in Nat
      /\ Below(segmentFiles, a + 1) /\ SegmentsOf(segments, e)
  BY Appending
<1>3. Shows(e, k, r) /\ \A q \in Keys \ {k} : \A s : Shows(segmentFiles, q, s) => Shows(e, q, s)
  BY Appending
<1>4. next_segment = a + 1 /\ next_segment - 1 = a /\ todo = << >>
  BY <1>1, <1>2 DEF Uncompacted
<1> PICK t : t = Sealing(segments, a, e[a])
  OBVIOUS
<1>5. segments' = t /\ memtable' = NoRecords /\ active' = a + 1 /\ next_segment' = a + 2
  BY <1>2, <1>4 DEF seal, Sealing
<1>6. \A n \in 1..Len(segments) : segments[n].id < a /\ segments[n].id \in Nat
  BY <1>1, <1>2 DEF Uncompacted, SegmentsOf, FilesOK
<1>7. /\ SegmentsOf(t, e) /\ Len(t) = Len(segments) + 1 /\ Len(segments) \in Nat
      /\ t[Len(segments) + 1].id = a
      /\ \A n \in 1..Len(segments) : t[n] = segments[n]
  <2>1. \A n \in 1..Len(segments) : segments[n].id <= a
    BY <1>2, <1>6
  <2> QED BY <1>2, <2>1, SegmentsAdded
<1> PICK g : g = NewFile(e, a + 1, << >>)
  OBVIOUS
<1>8. segmentFiles' = g
  BY <1>4 DEF seal
<1>9. /\ FilesOK(g) /\ DOMAIN g = DOMAIN e \cup {a + 1} /\ Below(g, a + 2)
      /\ g[a + 1] = << >> /\ \A i \in DOMAIN e : g[i] = e[i]
      /\ \A q \in Keys : \A s : Shows(e, q, s) => Shows(g, q, s)
  <2>1. PICK id \in Nat : id = a + 1
    BY <1>2
  <2>2. PICK f \in Seq(Frames) : f = << >> /\ \A q \in Keys : replay(f)[q] = None
    BY EmptyFile
  <2>3. Below(e, id) /\ g = NewFile(e, id, f)
    BY <1>2, <2>1, <2>2 DEF Below
  <2>4. /\ FilesOK(g) /\ DOMAIN g = DOMAIN e \cup {id} /\ \A i \in DOMAIN g : i <= id
        /\ g[id] = f /\ \A i \in DOMAIN e : g[i] = e[i]
        /\ \A q, s : Shows(e, q, s) /\ Agrees(f, q, s) => Shows(g, q, s)
    <3>0. Extends(e, id, f, g)
      BY <1>2, <2>1, <2>2, <2>3 DEF Extends
    <3>1. g[id] = f /\ \A i \in DOMAIN e : g[i] = e[i]
      BY <3>0, NewestFile
    <3>2. FilesOK(g) /\ DOMAIN g = DOMAIN e \cup {id} /\ \A i \in DOMAIN g : i <= id
      BY <3>0, NewestFilesOK
    <3>3. \A q, s : Shows(e, q, s) /\ Agrees(f, q, s) => Shows(g, q, s)
      BY <3>0, NewestShows
    <3> QED BY <3>1, <3>2, <3>3
  <2>5. Below(g, a + 2)
    BY <1>2, <2>1, <2>4 DEF Below, FilesOK
  <2> QED BY <2>1, <2>2, <2>4, <2>5 DEF Agrees
<1>10. SegmentsOf(t, g)
  <2>1. \A n \in 1..Len(t) : t[n].id \in DOMAIN e
    BY <1>7 DEF SegmentsOf
  <2> QED BY <1>7, <1>9, <2>1, SegmentsStay
<1>11. Serving'
  <2>1. a + 1 \in DOMAIN g /\ AllWhole(g[a + 1]) /\ NoRecords = replay(g[a + 1])
    BY <1>9, EmptyFile, EmptyReplay
  <2>2. next_segment' \in Nat /\ next_segment' - 1 = active'
    BY <1>2, <1>5
  <2> QED BY <1>5, <1>8, <1>9, <1>10, <2>1, <2>2 DEF Serving
<1>12. Uncompacted'
  <2>1. a + 2 = a + 1 + 1
    BY <1>2
  <2>2. ASSUME NEW i \in DOMAIN g PROVE i = a + 1 \/ \E n \in 1..Len(t) : t[n].id = i
    <3>1. CASE i = a
      <4>1. Len(segments) + 1 \in 1..Len(t)
        BY <1>7
      <4> QED BY <1>7, <3>1, <4>1
    <3>2. CASE \E n \in 1..Len(segments) : segments[n].id = i
      <4>1. PICK n \in 1..Len(segments) : segments[n].id = i
        BY <3>2
      <4>2. n \in 1..Len(t) /\ t[n].id = i
        BY <1>7, <4>1
      <4> QED BY <4>2
    <3>3. i \in DOMAIN segmentFiles \/ i = a + 1
      BY <1>2, <1>9
    <3> QED BY <1>1, <3>1, <3>2, <3>3 DEF Uncompacted
  <2>3. ASSUME NEW n \in 1..Len(t) PROVE t[n].id < a + 1
    <3>1. n \in 1..Len(segments) \/ n = Len(segments) + 1
      BY <1>7
    <3> QED BY <1>2, <1>6, <1>7, <3>1
  <2> QED BY <1>4, <1>5, <1>8, <2>1, <2>2, <2>3 DEF Uncompacted
<1>13. Written(k, r)
  BY <1>3, <1>8, <1>9 DEF Written, Kept
<1> QED BY <1>8, <1>9, <1>11, <1>12, <1>13 DEF EngineInv

\* What a compaction may merge are all the files with records.
LEMMA MergeReady ==
  ASSUME EngineInv, Ready
  PROVE  /\ FilesOK(segmentFiles) /\ SegmentsOf(ToMerge, segmentFiles)
         /\ next_segment \in Nat /\ Below(segmentFiles, next_segment) /\ Len(ToMerge) \in Nat
         /\ \A i \in DOMAIN segmentFiles, k \in Keys :
              Has(segmentFiles, i, k) => \E n \in 1..Len(ToMerge) : ToMerge[n].id = i
         /\ \A k \in Keys : Shows(segmentFiles, k, Visible(MergedRecord(k)))
<1>1. inUse /\ todo = << >>
  BY DEF Ready
<1>2. FilesOK(segmentFiles) /\ Serving
  BY <1>1 DEF EngineInv
<1> PICK d, id : d = segmentFiles /\ id = next_segment - 1
  OBVIOUS
<1>3. id \in DOMAIN d /\ Below(d, next_segment) /\ next_segment \in Nat /\ SegmentsOf(segments, d)
  BY <1>2 DEF Serving
<1>4. \A i \in DOMAIN d : i \in Nat /\ i <= id
  BY <1>2, <1>3 DEF FilesOK, Below
<1>5. \A n \in 1..Len(segments) : segments[n].id <= id
  BY <1>3, <1>4 DEF SegmentsOf
<1> PICK t : t = Sealing(segments, id, d[id])
  OBVIOUS
<1>6. t = ToMerge
  BY DEF Sealing, ToMerge
<1>7. /\ SegmentsOf(t, d) /\ Len(t) = Len(segments) + 1 /\ Len(segments) \in Nat
      /\ t[Len(segments) + 1].id = id
      /\ \A n \in 1..Len(segments) : t[n] = segments[n]
  BY <1>2, <1>3, <1>5, SegmentsAdded
<1>8. ASSUME NEW i \in DOMAIN d, NEW k \in Keys, Has(d, i, k)
      PROVE  \E n \in 1..Len(t) : t[n].id = i
  <2>1. CASE i = id
    <3>1. Len(segments) + 1 \in 1..Len(t)
      BY <1>7
    <3> QED BY <1>7, <2>1, <3>1
  <2>2. CASE i # id /\ compacted
    <3>1. Compacted
      BY <1>1, <2>2 DEF EngineInv
    <3>2. \E n \in 1..Len(todo) : todo[n] = i
      BY <1>8, <2>2, <3>1 DEF Compacted
    <3> QED BY <1>1, <3>2
  <2>3. CASE i # id /\ ~compacted
    <3>1. Uncompacted
      BY <1>1, <2>3 DEF EngineInv
    <3>2. active \in Nat
      BY <1>2 DEF Serving, FilesOK
    <3>3. PICK n \in 1..Len(segments) : segments[n].id = i
      BY <2>3, <3>1, <3>2 DEF Uncompacted
    <3>4. n \in 1..Len(t) /\ t[n].id = i
      BY <1>7, <3>3
    <3> QED BY <3>4
  <2> QED BY <2>1, <2>2, <2>3
<1>9. ASSUME NEW k \in Keys PROVE Shows(d, k, Visible(MergedRecord(k)))
  <2>1. \A i : Has(d, i, k) => \E n \in 1..Len(t) : t[n].id = i
    BY <1>8 DEF Has
  <2>2. Shows(d, k, Visible(Poured(t, k)))
    BY <1>2, <1>7, <2>1, PouredShows
  <2> QED BY <1>6, <2>2 DEF MergedRecord
<1> QED BY <1>2, <1>3, <1>6, <1>7, <1>8, <1>9

\* The files of a compaction, whatever part of the merged one is written.
Merging(f, e) ==
  /\ f \in Seq(Frames) /\ \A k \in Keys : Agrees(f, k, Visible(MergedRecord(k)))
  /\ e = Compacting(f)

LEMMA CompactingFiles ==
  ASSUME EngineInv, Ready, NEW f, NEW e, Merging(f, e)
  PROVE  /\ FilesOK(e) /\ DOMAIN e = DOMAIN segmentFiles \cup {next_segment, next_segment + 1}
         /\ e[next_segment] = << >> /\ e[next_segment + 1] = f
         /\ \A i \in DOMAIN segmentFiles : e[i] = segmentFiles[i]
         /\ \A i \in DOMAIN e : i <= next_segment + 1
         /\ \A k \in Keys : \A s : Shows(segmentFiles, k, s) => Shows(e, k, s)
<1> PICK d : d = segmentFiles
  OBVIOUS
<1>1. FilesOK(d) /\ next_segment \in Nat /\ Below(d, next_segment)
  BY MergeReady
<1> PICK a, b : a = next_segment /\ b = next_segment + 1
  OBVIOUS
<1>2. a \in Nat /\ b \in Nat /\ a < b /\ Below(d, a)
  BY <1>1
<1> PICK none : none = << >>
  OBVIOUS
<1>3. none \in Seq(Frames) /\ \A k \in Keys : replay(none)[k] = None
  BY EmptyFile
<1> PICK c : c = NewFile(d, a, none)
  OBVIOUS
<1>4. /\ FilesOK(c) /\ DOMAIN c = DOMAIN d \cup {a} /\ \A i \in DOMAIN c : i <= a
      /\ c[a] = none /\ \A i \in DOMAIN d : c[i] = d[i]
      /\ \A k, r : Shows(d, k, r) /\ Agrees(none, k, r) => Shows(c, k, r)
  <2>0. Extends(d, a, none, c)
    BY <1>1, <1>2, <1>3 DEF Extends
  <2>1. c[a] = none /\ \A i \in DOMAIN d : c[i] = d[i]
    BY <2>0, NewestFile
  <2>2. FilesOK(c) /\ DOMAIN c = DOMAIN d \cup {a} /\ \A i \in DOMAIN c : i <= a
    BY <2>0, NewestFilesOK
  <2>3. \A q, s : Shows(d, q, s) /\ Agrees(none, q, s) => Shows(c, q, s)
    BY <2>0, NewestShows
  <2> QED BY <2>1, <2>2, <2>3
<1>5. Below(c, b)
  BY <1>2, <1>4 DEF Below, FilesOK
<1>6. e = NewFile(c, b, f)
  BY DEF Merging, Compacting
<1>7. /\ FilesOK(e) /\ DOMAIN e = DOMAIN c \cup {b} /\ \A i \in DOMAIN e : i <= b
      /\ e[b] = f /\ \A i \in DOMAIN c : e[i] = c[i]
      /\ \A k, r : Shows(c, k, r) /\ Agrees(f, k, r) => Shows(e, k, r)
  <2>0. Extends(c, b, f, e)
    BY <1>2, <1>4, <1>5, <1>6 DEF Extends, Merging
  <2>1. e[b] = f /\ \A i \in DOMAIN c : e[i] = c[i]
    BY <2>0, NewestFile
  <2>2. FilesOK(e) /\ DOMAIN e = DOMAIN c \cup {b} /\ \A i \in DOMAIN e : i <= b
    BY ONLY <2>0, NewestFilesOK
  <2>3. \A q, s : Shows(c, q, s) /\ Agrees(f, q, s) => Shows(e, q, s)
    BY <2>0, NewestShows
  <2> QED BY <2>1, <2>2, <2>3
<1>8. ASSUME NEW k \in Keys, NEW s, Shows(d, k, s) PROVE Shows(e, k, s)
  <2>1. Agrees(none, k, s)
    BY <1>3 DEF Agrees
  <2>2. PICK v : v = Visible(MergedRecord(k))
    OBVIOUS
  <2>3. Shows(d, k, v)
    BY <2>2, MergeReady
  <2>4. s = v
    BY <1>1, <1>8, <2>3, ShowsOne
  <2>5. Agrees(f, k, s)
    BY <2>2, <2>4 DEF Merging
  <2> QED BY <1>4, <1>7, <1>8, <2>1, <2>5
<1> QED BY <1>4, <1>7, <1>8

LEMMA StepCompact ==
  ASSUME EngineInv, compact
  PROVE  EngineInv' /\ \A k \in Keys : Kept(k)
<1>1. /\ Ready /\ inUse
      /\ segmentFiles' = Compacting(Merged) /\ active' = next_segment
      /\ segments' = <<SealedSegment(next_segment + 1, Merged)>>
      /\ next_segment' = next_segment + 2
      /\ todo' = [i \in 1..Len(ToMerge) |-> ToMerge[i].id]
      /\ memtable' = NoRecords /\ compacted' /\ inUse'
  BY DEF compact, Ready
<1>2. /\ FilesOK(segmentFiles) /\ SegmentsOf(ToMerge, segmentFiles)
      /\ next_segment \in Nat /\ Below(segmentFiles, next_segment) /\ Len(ToMerge) \in Nat
  BY <1>1, MergeReady
<1> PICK d : d = segmentFiles
  OBVIOUS
<1> PICK a, b : a = next_segment /\ b = next_segment + 1
  OBVIOUS
<1>3. a \in Nat /\ b \in Nat /\ a < b /\ a # b
  BY <1>2
<1> PICK m : m = Merged
  OBVIOUS
<1>4. m \in Seq(Frames) /\ \A k \in Keys : Agrees(m, k, Visible(MergedRecord(k)))
  BY <1>2, MergedFrames, MergedSays DEF Agrees
<1> PICK e : e = segmentFiles'
  OBVIOUS
<1>5. /\ FilesOK(e) /\ DOMAIN e = DOMAIN d \cup {a, b}
      /\ e[a] = << >> /\ e[b] = m
      /\ \A i \in DOMAIN d : e[i] = d[i]
      /\ \A i \in DOMAIN e : i <= b
      /\ \A k \in Keys : \A s : Shows(d, k, s) => Shows(e, k, s)
  <2>1. Merging(m, e)
    BY <1>1, <1>4 DEF Merging
  <2>2. /\ FilesOK(e) /\ DOMAIN e = DOMAIN segmentFiles \cup {next_segment, next_segment + 1}
        /\ e[next_segment] = << >> /\ e[next_segment + 1] = m
        /\ \A i \in DOMAIN segmentFiles : e[i] = segmentFiles[i]
        /\ \A i \in DOMAIN e : i <= next_segment + 1
        /\ \A k \in Keys : \A s : Shows(segmentFiles, k, s) => Shows(e, k, s)
    BY ONLY EngineInv, <1>1, <2>1, CompactingFiles
  <2> QED BY <2>2
<1>6. next_segment' - 1 = b /\ next_segment' \in Nat /\ Below(e, next_segment')
  BY <1>1, <1>2, <1>5 DEF Below, FilesOK
<1> PICK s : s = SealedSegment(b, m)
  OBVIOUS
<1>7. s \in [id : Nat, index : [Keys -> Nat]] /\ s.id = b /\ s.index = build_index(m)
  BY <1>3, <1>4, SealedShape
<1>8. segments' = <<s>>
  BY <1>1
<1>9. SegmentsOf(segments', e)
  <2>1. /\ Len(segments') = 1 /\ segments'[1] = s
        /\ segments' \in Seq([id : Nat, index : [Keys -> Nat]])
    BY <1>7, <1>8
  <2>2. \A i \in 1..1 : i = 1
    OBVIOUS
  <2>3. s.id \in DOMAIN e /\ s.index = build_index(e[s.id])
    BY <1>5, <1>7
  <2> QED BY <2>1, <2>2, <2>3 DEF SegmentsOf
<1>10. Serving'
  <2>1. a \in DOMAIN e /\ b \in DOMAIN e /\ AllWhole(e[a]) /\ NoRecords = replay(e[a])
    BY <1>5, EmptyFile, EmptyReplay
  <2> QED BY <1>1, <1>6, <1>9, <2>1 DEF Serving
<1>11. ASSUME NEW i \in 1..Len(ToMerge) PROVE todo'[i] \in Nat /\ todo'[i] < a
  <2>1. ToMerge[i].id \in DOMAIN d
    BY <1>2 DEF SegmentsOf
  <2> QED BY <1>1, <1>2, <2>1 DEF Below, FilesOK
<1>12. todo' \in Seq(Nat) /\ Len(todo') = Len(ToMerge)
  <2> PICK l \in Nat : l = Len(ToMerge)
    BY <1>2
  <2> PICK q : q = todo'
    OBVIOUS
  <2>1. q = [i \in 1..l |-> q[i]] /\ \A i \in 1..l : q[i] \in Nat
    BY <1>1, <1>11
  <2> QED BY <2>1
<1>13. \A i, j \in 1..Len(todo') : i < j => todo'[i] <= todo'[j]
  BY <1>1, <1>2, <1>12 DEF SegmentsOf
<1>14. ASSUME NEW i \in DOMAIN e, NEW k \in Keys, Has(e, i, k), i # b
       PROVE  \E n \in 1..Len(todo') : todo'[n] = i
  <2>1. i # a
    <3> SUFFICES ASSUME i = a PROVE FALSE
      OBVIOUS
    <3> QED BY <1>5, <1>14, EmptyFile DEF Has
  <2>2. i \in DOMAIN d /\ Has(d, i, k)
    BY <1>5, <1>14, <2>1 DEF Has
  <2>3. PICK n \in 1..Len(ToMerge) : ToMerge[n].id = i
    BY <1>1, <2>2, MergeReady
  <2> QED BY <1>1, <1>12, <2>3
<1>15. ASSUME NEW k \in Keys, replay(e[b])[k] = None PROVE Shows(e, k, Nil)
  <2>1. Visible(MergedRecord(k)) = Nil
    BY <1>2, <1>5, <1>15, MergedSays
  <2>2. Shows(d, k, Visible(MergedRecord(k)))
    BY <1>1, MergeReady
  <2> QED BY <1>5, <2>1, <2>2
<1>16. Compacted'
  <2>1. Len(segments') = 1 /\ segments'[1].id = b
    BY <1>7, <1>8
  <2>2. \A i \in 1..Len(todo') : todo'[i] < a
    BY <1>11, <1>12
  <2> QED BY <1>1, <1>3, <1>5, <1>6, <1>12, <1>13, <1>14, <1>15, <2>1, <2>2 DEF Compacted
<1> QED BY <1>1, <1>5, <1>10, <1>16 DEF EngineInv, Kept

LEMMA StepRemoveOld ==
  ASSUME EngineInv, RemoveOld, ~RemoveMayFail
  PROVE  EngineInv' /\ \A k \in Keys : Kept(k)
<1>1. /\ inUse /\ todo # << >> /\ todo' = Tail(todo)
      /\ segmentFiles' = [i \in DOMAIN segmentFiles \ {Head(todo)} |-> segmentFiles[i]]
      /\ UNCHANGED <<inUse, segments, active, memtable, next_segment, compacted>>
  BY DEF RemoveOld
<1>2. FilesOK(segmentFiles) /\ Serving /\ compacted /\ Compacted
  BY <1>1 DEF EngineInv, Uncompacted
<1> PICK d, e, h, m : /\ d = segmentFiles /\ e = segmentFiles' /\ h = Head(todo)
                      /\ m = next_segment - 1
  OBVIOUS
<1>3. DOMAIN e = DOMAIN d \ {h} /\ \A i \in DOMAIN e : e[i] = d[i]
  BY <1>1
<1>4. FilesOK(e)
  <2>1. DOMAIN e \in SUBSET DOMAIN d /\ IsFiniteSet(DOMAIN d) /\ DOMAIN d \subseteq Nat
    BY <1>2, <1>3 DEF FilesOK
  <2>2. IsFiniteSet(DOMAIN e)
    BY <2>1, FS_Subset
  <2>3. e = [i \in DOMAIN e |-> e[i]] /\ \A i \in DOMAIN e : e[i] \in Seq(Frames)
    BY <1>1, <1>2, <1>3 DEF FilesOK
  <2> QED BY <2>1, <2>2, <2>3 DEF FilesOK
<1>5. /\ todo \in Seq(Nat) /\ \A i \in 1..Len(todo) : todo[i] < active
      /\ \A i, j \in 1..Len(todo) : i < j => todo[i] <= todo[j]
  BY <1>2 DEF Compacted
<1> PICK l \in Nat : l = Len(todo)
  BY <1>5
<1>6. l > 0 /\ 1 \in 1..l /\ h = todo[1] /\ h \in Nat
  BY <1>1, <1>5
<1>7. todo' \in Seq(Nat) /\ Len(todo') = l - 1 /\ \A i \in 1..(l - 1) : todo'[i] = todo[i + 1]
  BY <1>1, <1>5
<1>8. active \in Nat /\ h < active /\ active < m /\ m \in DOMAIN d /\ m \in Nat
  BY <1>2, <1>5, <1>6 DEF Serving, Compacted, FilesOK
<1>9. active \in DOMAIN e /\ m \in DOMAIN e /\ h # m
  BY <1>2, <1>3, <1>6, <1>8 DEF Serving
\* A file that is yet to be removed is not older than the first one.
<1>10. ASSUME NEW i \in DOMAIN d, NEW k \in Keys, Has(d, i, k), i # m
       PROVE  h <= i /\ \E n \in 1..l : todo[n] = i
  <2>1. PICK n \in 1..l : todo[n] = i
    BY <1>2, <1>10 DEF Compacted
  <2>2. n = 1 \/ (1 < n /\ n \in 1..Len(todo))
    OBVIOUS
  <2>3. todo[1] <= todo[n]
    BY <1>5, <1>6, <2>2
  <2> QED BY <1>6, <2>1, <2>3
<1>11. ASSUME NEW k \in Keys, replay(d[m])[k] = None PROVE Shows(d, k, Nil) /\ Shows(e, k, Nil)
  <2>1. Shows(d, k, Nil)
    BY <1>2, <1>11 DEF Compacted
  <2>2. \A j \in DOMAIN e : j \in DOMAIN d /\ j # h /\ (Has(e, j, k) => Has(d, j, k))
    BY <1>3 DEF Has
  <2>3. CASE \A i \in DOMAIN d : ~Has(d, i, k)
    <3>1. \A j \in DOMAIN e : ~Has(e, j, k)
      BY <2>2, <2>3
    <3> QED BY <2>1, <3>1 DEF Shows
  <2>4. CASE \E i \in DOMAIN d : /\ Has(d, i, k) /\ replay(d[i])[k] = Nil
                                 /\ \A j \in DOMAIN d : Has(d, j, k) => j <= i
    <3>1. PICK i \in DOMAIN d : /\ Has(d, i, k) /\ replay(d[i])[k] = Nil
                                /\ \A j \in DOMAIN d : Has(d, j, k) => j <= i
      BY <2>4
    <3>2. CASE i # h
      <4>1. i \in DOMAIN e /\ Has(e, i, k) /\ replay(e[i])[k] = Nil
        BY <1>3, <3>1, <3>2 DEF Has
      <4>2. \A j \in DOMAIN e : Has(e, j, k) => j <= i
        BY <2>2, <3>1
      <4> QED BY <2>1, <4>1, <4>2 DEF Shows
    <3>3. CASE i = h
      <4>1. ASSUME NEW j \in DOMAIN e, Has(e, j, k) PROVE FALSE
        <5>1. j \in DOMAIN d /\ j # h /\ Has(d, j, k)
          BY <2>2, <4>1
        <5>2. j <= h
          BY <3>1, <3>3, <5>1
        <5>3. j # m
          BY <1>11, <5>1 DEF Has
        <5>4. h <= j
          BY <1>10, <5>1, <5>3
        <5>5. j \in Nat
          BY <1>2, <5>1 DEF FilesOK
        <5> QED BY <1>6, <5>1, <5>2, <5>4, <5>5
      <4> QED BY <2>1, <4>1 DEF Shows
    <3> QED BY <3>2, <3>3
  <2> QED BY <2>1, <2>3, <2>4 DEF Shows
<1>12. ASSUME NEW k \in Keys, NEW s, Shows(d, k, s) PROVE Shows(e, k, s)
  <2>1. CASE replay(d[m])[k] = None
    <3>1. s = Nil
      BY <1>2, <1>11, <1>12, <2>1, ShowsOne
    <3> QED BY <1>11, <2>1, <3>1
  <2>2. CASE replay(d[m])[k] # None
    <3>1. PICK t : t = replay(d[m])[k]
      OBVIOUS
    <3>2. \A j \in DOMAIN d : j <= m
      BY <1>2, <1>8 DEF Serving, Below, FilesOK
    <3>3. Shows(d, k, t)
      BY <1>8, <2>2, <3>1, <3>2 DEF Shows, Has
    <3>4. s = t
      BY <1>2, <1>12, <3>3, ShowsOne
    <3>5. Shows(e, k, t)
      BY <1>3, <1>9, <2>2, <3>1, <3>2 DEF Shows, Has
    <3> QED BY <3>4, <3>5
  <2> QED BY <2>1, <2>2
<1>13. Serving'
  <2>1. /\ Len(segments) = 1 /\ segments[1].id = m /\ SegmentsOf(segments, d)
        /\ AllWhole(d[active]) /\ memtable = replay(d[active])
        /\ next_segment \in Nat /\ Below(d, next_segment)
    BY <1>2 DEF Serving, Compacted
  <2>2. \A n \in 1..Len(segments) : n = 1
    BY <2>1
  <2>3. SegmentsOf(segments, e)
    <3>1. \A n \in 1..Len(segments) :
            segments[n].id \in DOMAIN e /\ e[segments[n].id] = d[segments[n].id]
      BY <1>3, <1>9, <2>1, <2>2
    <3> QED BY <2>1, <3>1, SegmentsStay
  <2>4. Below(e, next_segment)
    BY <1>3, <2>1 DEF Below
  <2>5. e[active] = d[active] /\ next_segment' - 1 \in DOMAIN e
    BY <1>1, <1>3, <1>9
  <2> QED BY <1>1, <1>9, <2>1, <2>3, <2>4, <2>5 DEF Serving
<1>14. Compacted'
  <2>1. \A i \in 1..Len(todo') : i + 1 \in 1..l /\ todo'[i] = todo[i + 1]
    BY ONLY <1>7, l \in Nat
  <2>2. \A i \in 1..Len(todo') : todo'[i] < active
    BY <1>5, <2>1
  <2>3. ASSUME NEW i \in 1..Len(todo'), NEW j \in 1..Len(todo'), i < j
        PROVE  todo'[i] <= todo'[j]
    <3>1. i \in 1..(l - 1) /\ j \in 1..(l - 1)
      BY <1>7
    <3>2. PICK x \in 1..l, y \in 1..l : x = i + 1 /\ y = j + 1 /\ x < y
      BY <2>3, <3>1
    <3>3. todo'[i] = todo[x] /\ todo'[j] = todo[y]
      BY <1>7, <3>1, <3>2
    <3>4. todo[x] <= todo[y]
      BY <1>5, <3>2
    <3> QED BY <3>3, <3>4
  <2>4. ASSUME NEW i \in DOMAIN e, NEW k \in Keys, Has(e, i, k), i # m
        PROVE  \E n \in 1..Len(todo') : todo'[n] = i
    <3>1. i \in DOMAIN d /\ i # h /\ Has(d, i, k)
      BY <1>3, <2>4 DEF Has
    <3>2. PICK n \in 1..l : todo[n] = i
      BY <1>10, <2>4, <3>1
    <3>3. n # 1
      BY <1>6, <3>1, <3>2
    <3>4. PICK x \in 1..(l - 1) : x = n - 1
      BY <3>2, <3>3
    <3>5. todo'[x] = i
      BY <1>7, <3>2, <3>4
    <3> QED BY <1>7, <3>4, <3>5
  <2>5. ASSUME NEW k \in Keys, replay(e[m])[k] = None PROVE Shows(e, k, Nil)
    BY <1>3, <1>9, <1>11, <2>5
  <2>6. segmentFiles'[active] = << >>
    BY <1>2, <1>3, <1>9 DEF Compacted
  <2>7. Len(segments) = 1 /\ segments[1].id = next_segment - 1 /\ active < next_segment - 1
    BY <1>2 DEF Compacted
  <2> QED BY <1>1, <1>7, <2>2, <2>3, <2>4, <2>5, <2>6, <2>7 DEF Compacted
<1> QED BY <1>1, <1>2, <1>4, <1>12, <1>13, <1>14 DEF EngineInv, Kept

\* A process that is gone leaves the files.
LEMMA StepDies ==
  ASSUME Dies, FilesOK(segmentFiles')
  PROVE  EngineInv'
BY DEF Dies, EngineInv

LEMMA StepCrashInAppend ==
  ASSUME EngineInv, ~WriteAfterCompact, NEW k \in Keys, NEW r \in Stored, CrashInAppend(k, r)
  PROVE  EngineInv' /\ \A q \in Keys : Kept(q)
<1>1. Dies /\ inUse /\ segmentFiles' = Appended(Torn(encode_frame(k, r)))
  BY DEF CrashInAppend, MayWrite, Ready
<1>2. FilesOK(segmentFiles) /\ Serving
  BY <1>1 DEF EngineInv
<1> PICK d, e, a : d = segmentFiles /\ e = segmentFiles' /\ a = active
  OBVIOUS
<1>3. a \in DOMAIN d /\ AllWhole(d[a]) /\ FilesOK(d)
  BY <1>2 DEF Serving
<1>4. e = FileWithTorn(d, a, k, r)
  BY <1>1 DEF Appended, FileWithTorn
<1>5. FilesOK(e) /\ \A q \in Keys : \A s : Shows(d, q, s) => Shows(e, q, s)
  BY <1>3, <1>4, FileTorn
<1> QED BY <1>1, <1>5, StepDies DEF Kept

LEMMA StepCrashInCompact ==
  ASSUME EngineInv, CrashInCompact
  PROVE  EngineInv' /\ \A k \in Keys : Kept(k)
<1>1. Ready /\ Dies
  BY DEF CrashInCompact
<1> PICK e : e = segmentFiles'
  OBVIOUS
<1>2. PICK n, f :
        /\ n \in 0..Len(Merged) /\ e = Compacting(f)
        /\ \/ f = SubSeq(Merged, 1, n)
           \/ n > 0 /\ f = [SubSeq(Merged, 1, n) EXCEPT ![n] = Torn(@)]
  BY DEF CrashInCompact
<1>3. FilesOK(segmentFiles) /\ SegmentsOf(ToMerge, segmentFiles)
  BY <1>1, MergeReady
<1>4. Merging(f, e)
  <2>1. f \in Seq(Frames) /\ \A k \in Keys : Agrees(f, k, Visible(MergedRecord(k)))
    BY <1>2, <1>3, MergedPart
  <2> QED BY <1>2, <2>1 DEF Merging
<1>5. FilesOK(e) /\ \A k \in Keys : \A s : Shows(segmentFiles, k, s) => Shows(e, k, s)
  BY ONLY EngineInv, <1>1, <1>4, CompactingFiles
<1> QED BY <1>1, <1>5, StepDies DEF Kept

LEMMA StepRecover ==
  ASSUME EngineInv, recover
  PROVE  EngineInv' /\ \A k \in Keys : Kept(k)
<1>1. /\ ~inUse /\ inUse' /\ segments' = Sealed /\ OpenActive(FreshId(segmentFiles))
      /\ UNCHANGED <<todo, compacted>>
  BY DEF recover
<1>2. FilesOK(segmentFiles) /\ todo = << >> /\ ~compacted
  BY <1>1 DEF EngineInv
<1> PICK d, id, t : d = segmentFiles /\ id = FreshId(segmentFiles) /\ t = Sealed
  OBVIOUS
<1>3. /\ SegmentsOf(t, d) /\ id \in Nat /\ Below(d, id)
      /\ \A i \in DOMAIN d : \E n \in 1..Len(t) : t[n].id = i
  BY <1>2, RecoverySegments
<1>4. id \notin DOMAIN d
  BY <1>3 DEF Below
<1> PICK e, none : e = segmentFiles' /\ none = << >>
  OBVIOUS
<1>5. /\ active' = id /\ e = NewFile(d, id, none) /\ next_segment' = id + 1
      /\ memtable' = replay(none)
  BY <1>1, <1>4 DEF OpenActive
<1>6. none \in Seq(Frames) /\ AllWhole(none) /\ \A k \in Keys : replay(none)[k] = None
  BY EmptyFile
<1>7. Extends(d, id, none, e)
  BY <1>2, <1>3, <1>5, <1>6 DEF Extends
<1>8. e[id] = none /\ \A i \in DOMAIN d : e[i] = d[i]
  BY ONLY <1>7, NewestFile
<1>9. FilesOK(e) /\ DOMAIN e = DOMAIN d \cup {id} /\ \A i \in DOMAIN e : i <= id
  BY ONLY <1>7, NewestFilesOK
<1>10. ASSUME NEW k \in Keys, NEW s, Shows(d, k, s) PROVE Shows(e, k, s)
  <2>1. Agrees(none, k, s)
    BY <1>6 DEF Agrees
  <2> QED BY <1>7, <1>10, <2>1, NewestShows
<1>11. Serving'
  <2>1. SegmentsOf(t, e)
    <3>1. \A n \in 1..Len(t) : t[n].id \in DOMAIN d
      BY <1>3 DEF SegmentsOf
    <3>2. \A n \in 1..Len(t) : t[n].id \in DOMAIN e /\ e[t[n].id] = d[t[n].id]
      BY <1>8, <1>9, <3>1
    <3> QED BY <1>3, <3>2, SegmentsStay
  <2>2. Below(e, id + 1)
    BY <1>3, <1>9 DEF Below, FilesOK
  <2>3. id + 1 \in Nat /\ id + 1 - 1 = id
    BY <1>3
  <2> QED BY <1>1, <1>5, <1>6, <1>8, <1>9, <2>1, <2>2, <2>3 DEF Serving
<1>12. Uncompacted'
  <2>1. \A n \in 1..Len(t) : t[n].id < id
    BY <1>3 DEF SegmentsOf, Below
  <2> QED BY <1>1, <1>2, <1>3, <1>5, <1>9, <2>1 DEF Uncompacted
<1> QED BY <1>1, <1>2, <1>9, <1>10, <1>11, <1>12 DEF EngineInv, Kept

(***************************************************************************)
(* The engine is the map.                                                  *)
(***************************************************************************)
LEMMA EngineStarts == EngineInit => EngineInv /\ \A k \in Keys : Shows(segmentFiles, k, Nil)
<1> SUFFICES ASSUME EngineInit PROVE EngineInv /\ \A k \in Keys : Shows(segmentFiles, k, Nil)
  OBVIOUS
<1>1. /\ DOMAIN segmentFiles = {0} /\ segmentFiles[0] = << >>
      /\ segmentFiles = [i \in DOMAIN segmentFiles |-> segmentFiles[i]]
      /\ inUse = TRUE /\ segments = << >> /\ active = 0 /\ memtable = NoRecords
      /\ next_segment = 1 /\ todo = << >> /\ compacted = FALSE
  BY DEF EngineInit
<1>2. FilesOK(segmentFiles)
  <2>1. IsFiniteSet({0})
    BY FS_Singleton
  <2> QED BY <1>1, <2>1, EmptyFile DEF FilesOK
<1>3. SegmentsOf(segments, segmentFiles)
  <2>1. segments \in Seq([id : Nat, index : [Keys -> Nat]]) /\ Len(segments) = 0
    BY <1>1
  <2>2. 1..0 = {}
    OBVIOUS
  <2> QED BY <2>1, <2>2 DEF SegmentsOf
<1>4. Serving
  <2>1. AllWhole(segmentFiles[0]) /\ NoRecords = replay(segmentFiles[0])
    BY <1>1, EmptyFile, EmptyReplay
  <2> QED BY <1>1, <1>3, <2>1 DEF Serving, Below
<1>5. Uncompacted
  BY <1>1 DEF Uncompacted
<1>6. ASSUME NEW k \in Keys PROVE Shows(segmentFiles, k, Nil)
  BY <1>1, EmptyFile DEF Shows, Has
<1> QED BY <1>1, <1>2, <1>4, <1>5, <1>6 DEF EngineInv

LEMMA ReadsKept ==
  ASSUME EngineInv, EngineInv', \A k \in Keys : Kept(k)
  PROVE  Read' = Read /\ Scanned' = Scanned
<1>1. ReadsFiles /\ FilesOK(segmentFiles')
  BY EngineReads DEF EngineInv
<1>2. ReadsFiles'
  BY EngineReads, PTL
<1>3. ASSUME NEW k \in Keys PROVE Read'[k] = Read[k] /\ Scanned'[k] = Scanned[k]
  <2>1. Shows(segmentFiles', k, Read[k]) /\ Shows(segmentFiles', k, Scanned[k])
    BY <1>1 DEF ReadsFiles, Kept
  <2>2. Shows(segmentFiles', k, Read'[k]) /\ Shows(segmentFiles', k, Scanned'[k])
    BY <1>2 DEF ReadsFiles
  <2> QED BY <1>1, <2>1, <2>2, ShowsOne
<1>4. Read = [k \in Keys |-> Read[k]] /\ Scanned = [k \in Keys |-> Scanned[k]]
  BY DEF Read, Scanned
<1>5. Read' = [k \in Keys |-> Read'[k]] /\ Scanned' = [k \in Keys |-> Scanned'[k]]
  BY DEF Read, Scanned
<1> QED BY <1>3, <1>4, <1>5

LEMMA ReadsWritten ==
  ASSUME EngineInv, EngineInv', NEW k \in Keys, NEW r, Written(k, r)
  PROVE  Read' = [Read EXCEPT ![k] = r] /\ Scanned' = [Scanned EXCEPT ![k] = r]
<1>1. ReadsFiles /\ FilesOK(segmentFiles')
  BY EngineReads DEF EngineInv
<1>2. ReadsFiles'
  BY EngineReads, PTL
<1>3. ASSUME NEW q \in Keys
      PROVE  IF q = k THEN Read'[q] = r /\ Scanned'[q] = r
             ELSE Read'[q] = Read[q] /\ Scanned'[q] = Scanned[q]
  <2>1. Shows(segmentFiles', q, Read'[q]) /\ Shows(segmentFiles', q, Scanned'[q])
    BY <1>2 DEF ReadsFiles
  <2>2. CASE q = k
    <3>1. Shows(segmentFiles', q, r)
      BY <2>2 DEF Written
    <3> QED BY <1>1, <2>1, <2>2, <3>1, ShowsOne
  <2>3. CASE q # k
    <3>1. Shows(segmentFiles', q, Read[q]) /\ Shows(segmentFiles', q, Scanned[q])
      BY <1>1, <2>3 DEF ReadsFiles, Written, Kept
    <3> QED BY <1>1, <2>1, <2>3, <3>1, ShowsOne
  <2> QED BY <2>2, <2>3
<1>4. Read = [q \in Keys |-> Read[q]] /\ Scanned = [q \in Keys |-> Scanned[q]]
  BY DEF Read, Scanned
<1>5. Read' = [q \in Keys |-> Read'[q]] /\ Scanned' = [q \in Keys |-> Scanned'[q]]
  BY DEF Read, Scanned
<1> QED BY <1>3, <1>4, <1>5

\* Every step of the engine writes one key, the one of its call, or none.
LEMMA EngineStep ==
  ASSUME EngineInv, EngineNext, ~WriteAfterCompact, ~RemoveMayFail
  PROVE  /\ EngineInv'
         /\ \/ (\A k \in Keys : Kept(k)) /\ UNCHANGED call
            \/ \E k \in Keys, r \in Stored : Written(k, r) /\ Called(k, r)
<1>1. ASSUME NEW k \in Keys, Delete(k) PROVE EngineInv' /\ Written(k, Nil) /\ Called(k, Nil)
  <2>1. inUse /\ ~compacted
    BY <1>1, EngineAssumption DEF Delete, MayWrite, Ready, EngineInv
  <2>2. /\ segmentFiles' = Appended(encode_frame(k, Nil))
        /\ memtable' = [memtable EXCEPT ![k] = Nil]
        /\ UNCHANGED <<segments, active, next_segment, inUse, todo, compacted>> /\ Called(k, Nil)
    BY <1>1 DEF Delete
  <2> QED BY <2>1, <2>2, NoneStored, StepAppend
<1>2. ASSUME NEW k \in Keys, NEW v \in Values, Put(k, v)
      PROVE  EngineInv' /\ Written(k, v) /\ Called(k, v) /\ v \in Stored
  <2>1. inUse /\ ~compacted /\ v \in Stored /\ Called(k, v) /\ UNCHANGED <<inUse, todo, compacted>>
    BY <1>2 DEF Put, MayWrite, Ready, Stored
  <2>2. CASE /\ segmentFiles' = Appended(encode_frame(k, v))
             /\ memtable' = [memtable EXCEPT ![k] = v]
             /\ UNCHANGED <<segments, active, next_segment>>
    BY <2>1, <2>2, StepAppend
  <2>3. CASE seal(Appended(encode_frame(k, v)))
    BY <2>1, <2>3, StepSeal
  <2> QED BY <1>2, <2>2, <2>3 DEF Put
<1>3. ASSUME NEW k \in Keys, NEW r \in Values \cup {Nil}, CrashInAppend(k, r)
      PROVE  EngineInv' /\ (\A q \in Keys : Kept(q)) /\ UNCHANGED call
  <2>1. r \in Stored
    BY DEF Stored
  <2>2. UNCHANGED call
    BY <1>3 DEF CrashInAppend, Dies
  <2> QED BY <1>3, <2>1, <2>2, StepCrashInAppend
<1>4. CASE compact
  BY <1>4, StepCompact DEF compact
<1>5. CASE RemoveOld
  BY <1>5, StepRemoveOld DEF RemoveOld
<1>6. CASE EngineCrash
  <2>1. Dies /\ UNCHANGED segmentFiles /\ UNCHANGED call
    BY <1>6 DEF EngineCrash, Dies
  <2>2. FilesOK(segmentFiles')
    BY <2>1 DEF EngineInv
  <2> QED BY <2>1, <2>2, StepDies DEF Kept
<1>7. CASE CrashInCompact
  BY <1>7, StepCrashInCompact DEF CrashInCompact, Dies
<1>8. CASE recover
  BY <1>8, StepRecover DEF recover
<1> QED BY <1>1, <1>2, <1>3, <1>4, <1>5, <1>6, <1>7, <1>8, NoneStored DEF EngineNext

LEMMA EngineStutter ==
  ASSUME EngineInv, UNCHANGED engineVars
  PROVE  EngineInv' /\ Read' = Read /\ Scanned' = Scanned /\ call' = call
<1>1. UNCHANGED <<segmentFiles, inUse, segments, active, count, memtable, next_segment,
                  todo, compacted, call>>
  BY DEF engineVars
<1>2. EngineInv'
  BY <1>1 DEF EngineInv, Serving, Uncompacted, Compacted
<1>3. \A k \in Keys : Kept(k)
  BY <1>1 DEF Kept
<1> QED BY <1>1, <1>2, <1>3, ReadsKept

LEMMA EngineMaps ==
  ASSUME EngineInv, [EngineNext]_engineVars, ~WriteAfterCompact, ~RemoveMayFail
  PROVE  EngineInv' /\ [KV!Next]_<<Read, call>> /\ [KVScan!Next]_<<Scanned, call>>
<1>1. CASE UNCHANGED engineVars
  BY <1>1, EngineStutter
<1>2. CASE EngineNext
  <2>1. EngineInv'
    BY <1>2, EngineStep
  <2>2. CASE (\A k \in Keys : Kept(k)) /\ UNCHANGED call
    BY <2>1, <2>2, ReadsKept
  <2>3. CASE \E k \in Keys, r \in Stored : Written(k, r) /\ Called(k, r)
    <3>1. PICK k \in Keys, r \in Stored : Written(k, r) /\ Called(k, r)
      BY <2>3
    <3>2. Read' = [Read EXCEPT ![k] = r] /\ Scanned' = [Scanned EXCEPT ![k] = r]
      BY <2>1, <3>1, ReadsWritten
    <3>3. KV!Write(k, r) /\ KVScan!Write(k, r)
      BY <3>1, <3>2 DEF Called, KV!Write, KVScan!Write
    <3>4. r \in Values \cup {Nil}
      BY DEF Stored
    <3> QED BY <2>1, <3>3, <3>4 DEF KV!Next, KVScan!Next
  <2> QED BY <1>2, <2>1, <2>2, <2>3, EngineStep
<1> QED BY <1>1, <1>2

\* What get and what scan_prefix read of the engine (engine.rs) is a map that
\* only its puts and deletes change: through seals, compactions, the removal
\* of the old segments, a crash at any point of these and of an append, and
\* recovery, for any keys, values, thresholds and numbers of steps. The
\* hypotheses are what the code does not see to itself: that nobody writes a
\* compacted store before it is opened again, and that old files do go.
THEOREM EngineIsMap ==
  ASSUME ~WriteAfterCompact, ~RemoveMayFail
  PROVE  EngineSpec => ImplementsKV
<1>1. EngineInit => EngineInv /\ KV!Init /\ KVScan!Init
  <2> SUFFICES ASSUME EngineInit PROVE EngineInv /\ KV!Init /\ KVScan!Init
    OBVIOUS
  <2>1. EngineInv /\ \A k \in Keys : Shows(segmentFiles, k, Nil)
    BY EngineStarts
  <2>2. ReadsFiles /\ FilesOK(segmentFiles)
    BY <2>1, EngineReads DEF EngineInv
  <2>3. ASSUME NEW k \in Keys PROVE Read[k] = Nil /\ Scanned[k] = Nil
    BY <2>1, <2>2, ShowsOne DEF ReadsFiles
  <2>4. Read = [k \in Keys |-> Nil] /\ Scanned = [k \in Keys |-> Nil]
    BY <2>3 DEF Read, Scanned
  <2> QED BY <2>1, <2>4 DEF KV!Init, KVScan!Init, EngineInit
<1>2. EngineInv /\ [EngineNext]_engineVars
        => EngineInv' /\ [KV!Next]_<<Read, call>> /\ [KVScan!Next]_<<Scanned, call>>
  BY EngineMaps
<1> QED BY <1>1, <1>2, PTL DEF EngineSpec, ImplementsKV, KV!Spec, KVScan!Spec

(***************************************************************************)
(* The mount.  First the tree of inodes: what a path leads to.             *)
(***************************************************************************)
LEMMA FirstNumber ==
  ASSUME NEW top \in Nat, NEW S, S \subseteq 0..top, S # {}
  PROVE  \E x \in S : \A y \in S : x <= y
<1> DEFINE Left == {top - y : y \in S}
<1>1. Left \subseteq Nat /\ Left # {}
  <2>1. \A y \in S : top - y \in Nat
    OBVIOUS
  <2>2. PICK y \in S : TRUE
    OBVIOUS
  <2>3. top - y \in Left
    OBVIOUS
  <2> QED BY <2>1, <2>3
<1>2. IsFiniteSet(Left)
  <2>1. Left \subseteq 0..top
    OBVIOUS
  <2>2. IsFiniteSet(0..top)
    BY FS_Interval
  <2> QED BY <2>1, <2>2, FS_Subset
<1>3. PICK z \in Left : \A w \in Left : w <= z
  BY <1>1, <1>2, GreatestNatural
<1>4. PICK x \in S : z = top - x
  BY <1>3
<1>5. ASSUME NEW y \in S PROVE x <= y
  <2>1. top - y \in Left
    OBVIOUS
  <2>2. top - y <= top - x
    BY <1>3, <1>4, <2>1
  <2> QED BY <2>2
<1> QED BY <1>5

\* The inodes a path passes.
Passes(fs, comps, c) ==
  c = [n \in 0..Len(comps) |-> IF n = 0 THEN Root ELSE Entry(fs, c[n - 1], comps[n])]

LEMMA PassesOne ==
  ASSUME NEW fs, NEW U, NEW comps \in Seq(U), NEW c, NEW d,
         Passes(fs, comps, c), NEW k \in 0..Len(comps),
         d[0] = Root, \A n \in 1..k : d[n] = Entry(fs, d[n - 1], comps[n])
  PROVE  c[k] = d[k]
<1>1. c[0] = Root /\ \A n \in 1..k : c[n] = Entry(fs, c[n - 1], comps[n])
  <2>1. \A n \in 0..Len(comps) : c[n] = IF n = 0 THEN Root ELSE Entry(fs, c[n - 1], comps[n])
    BY DEF Passes
  <2>2. 0 \in 0..Len(comps) /\ \A n \in 1..k : n \in 0..Len(comps) /\ n # 0
    OBVIOUS
  <2> QED BY <2>1, <2>2
<1> DEFINE Bad == {n \in 0..k : c[n] # d[n]}
<1>2. Bad = {}
  <2> SUFFICES ASSUME Bad # {} PROVE FALSE
    OBVIOUS
  <2>1. PICK n \in Bad : \A m \in Bad : n <= m
    <3>1. Bad \subseteq 0..k /\ k \in Nat
      OBVIOUS
    <3> HIDE DEF Bad
    <3> QED BY <3>1, FirstNumber
  <2>2. n # 0
    BY <1>1
  <2>3. n \in 1..k /\ n - 1 \in 0..k /\ ~(n <= n - 1)
    BY <2>2
  <2>4. c[n - 1] = d[n - 1]
    BY <2>1, <2>3
  <2> QED BY <1>1, <2>3, <2>4
<1>3. k \in 0..k
  OBVIOUS
<1> QED BY <1>2, <1>3

LEMMA PassesSome ==
  ASSUME NEW fs, NEW U, NEW comps \in Seq(U)
  PROVE  \E c : Passes(fs, comps, c)
<1> DEFINE n == Len(comps)
           Until(k, c) == /\ c[0] = Root
                          /\ \A i \in 1..k : c[i] = Entry(fs, c[i - 1], comps[i])
           Short == {k \in 0..n : \E c : Until(n - k, c)}
<1>1. n \in Nat
  OBVIOUS
<1>2. Short # {}
  <2> DEFINE r == [i \in {0} |-> Root]
  <2>1. r[0] = Root /\ n - n = 0 /\ n \in 0..n
    OBVIOUS
  <2>2. Until(n - n, r)
    BY <2>1
  <2> HIDE DEF Until
  <2>3. n \in Short
    BY <2>1, <2>2
  <2> QED BY <2>3
<1>3. PICK k \in Short : \A h \in Short : k <= h
  <2>1. Short \subseteq 0..n
    OBVIOUS
  <2> HIDE DEF Short, n
  <2> QED BY <1>1, <1>2, <2>1, FirstNumber
<1>4. PICK c : Until(n - k, c)
  OBVIOUS
<1>5. k = 0
  <2> SUFFICES ASSUME k # 0 PROVE FALSE
    OBVIOUS
  <2> DEFINE m == n - k
             d == [i \in 0..(m + 1) |-> IF i <= m THEN c[i] ELSE Entry(fs, c[m], comps[m + 1])]
  <2>1. m \in Nat /\ n - (k - 1) = m + 1 /\ k - 1 \in 0..n /\ ~(k <= k - 1)
    BY <1>1
  <2>2. d[0] = Root
    BY <1>4, <2>1
  <2>3. ASSUME NEW i \in 1..(m + 1) PROVE d[i] = Entry(fs, d[i - 1], comps[i])
    <3>1. i - 1 \in 0..(m + 1) /\ i - 1 <= m /\ i \in 0..(m + 1)
      BY <2>1
    <3>2. d[i - 1] = c[i - 1]
      BY <3>1
    <3>3. CASE i = m + 1
      <4>1. ~(i <= m) /\ i - 1 = m
        BY <2>1, <3>3
      <4>2. d[i] = Entry(fs, c[m], comps[m + 1])
        BY <3>1, <4>1
      <4> QED BY <3>2, <3>3, <4>1, <4>2
    <3>4. CASE i # m + 1
      <4>1. i \in 1..m /\ i <= m
        BY <2>1, <3>4
      <4>2. d[i] = c[i]
        BY <3>1, <4>1
      <4> QED BY <1>4, <3>2, <4>1, <4>2
    <3> QED BY <3>3, <3>4
  <2>4. Until(n - (k - 1), d)
    BY <2>1, <2>2, <2>3
  <2>5. k - 1 \in Short
    BY <2>1, <2>4
  <2> QED BY <1>3, <2>1, <2>5
<1>6. c[0] = Root /\ \A i \in 1..n : c[i] = Entry(fs, c[i - 1], comps[i])
  <2>1. n - k = n
    BY <1>1, <1>5
  <2> QED BY <1>4, <2>1
<1> DEFINE r == [i \in 0..n |-> c[i]]
<1>7. ASSUME NEW i \in 0..n
      PROVE  r[i] = IF i = 0 THEN Root ELSE Entry(fs, r[i - 1], comps[i])
  <2>1. CASE i = 0
    BY <1>6, <2>1
  <2>2. CASE i # 0
    <3>1. i \in 1..n /\ i - 1 \in 0..n
      BY <1>1, <2>2
    <3>2. r[i - 1] = c[i - 1] /\ r[i] = c[i]
      BY <3>1
    <3> QED BY <1>6, <2>2, <3>1, <3>2
  <2> QED BY <2>1, <2>2
<1>8. r = [i \in 0..n |-> IF i = 0 THEN Root ELSE Entry(fs, r[i - 1], comps[i])]
  <2> HIDE DEF r
  <2>1. r = [i \in 0..n |-> r[i]]
    BY DEF r
  <2> QED BY <1>7, <2>1
<1>9. Passes(fs, comps, r)
  BY <1>8 DEF Passes
<1> QED BY <1>9

LEMMA ResolvePasses ==
  ASSUME NEW fs, NEW U, NEW comps \in Seq(U)
  PROVE  \E c : Passes(fs, comps, c) /\ resolve(fs, comps) = c[Len(comps)]
<1> DEFINE cur == CHOOSE c : c = [n \in 0..Len(comps) |->
                       IF n = 0 THEN Root ELSE Entry(fs, c[n - 1], comps[n])]
<1>1. Passes(fs, comps, cur)
  BY PassesSome DEF Passes
<1>2. resolve(fs, comps) = cur[Len(comps)]
  BY DEF resolve
<1> QED BY <1>1, <1>2

\* From the root, one component at a time.
LEMMA ResolveSteps ==
  ASSUME NEW fs, NEW U, NEW comps \in Seq(U)
  PROVE  /\ comps = << >> => resolve(fs, comps) = Root
         /\ comps # << >> =>
              /\ Front(comps) \in Seq(U) /\ Len(Front(comps)) = Len(comps) - 1
              /\ resolve(fs, comps) = Entry(fs, resolve(fs, Front(comps)), Last(comps))
<1>1. PICK c : Passes(fs, comps, c) /\ resolve(fs, comps) = c[Len(comps)]
  BY ResolvePasses
<1>2. \A n \in 0..Len(comps) : c[n] = IF n = 0 THEN Root ELSE Entry(fs, c[n - 1], comps[n])
  BY <1>1 DEF Passes
<1>3. ASSUME comps = << >> PROVE resolve(fs, comps) = Root
  <2>1. Len(comps) = 0
    BY <1>3
  <2> QED BY <1>1, <1>2, <2>1
<1>4. ASSUME comps # << >>
      PROVE  /\ Front(comps) \in Seq(U) /\ Len(Front(comps)) = Len(comps) - 1
             /\ resolve(fs, comps) = Entry(fs, resolve(fs, Front(comps)), Last(comps))
  <2>1. PICK n \in Nat : n = Len(comps)
    OBVIOUS
  <2>2. n # 0
    BY <1>4, <2>1
  <2>3. Front(comps) \in Seq(U) /\ Len(Front(comps)) = n - 1
        /\ \A i \in 1..(n - 1) : Front(comps)[i] = comps[i]
    BY <2>1, <2>2 DEF Front
  <2>4. PICK d : Passes(fs, Front(comps), d) /\ resolve(fs, Front(comps)) = d[n - 1]
    BY <2>3, ResolvePasses
  <2>5. n - 1 \in 0..(n - 1) /\ n \in 0..n
    BY <2>1, <2>2
  <2>6. c[0] = Root /\ \A i \in 1..(n - 1) : c[i] = Entry(fs, c[i - 1], Front(comps)[i])
    <3>1. 0 \in 0..n /\ \A i \in 1..(n - 1) : i \in 0..n /\ i # 0
      BY <2>1
    <3> QED BY <1>2, <2>1, <2>3, <3>1
  <2>7. d[n - 1] = c[n - 1]
    <3>1. PICK f \in Seq(U) : f = Front(comps)
      BY <2>3
    <3>2. PICK k : k = n - 1
      OBVIOUS
    <3>3. Passes(fs, f, d) /\ k \in 0..Len(f)
      BY <2>3, <2>4, <2>5, <3>1, <3>2
    <3>4. c[0] = Root /\ \A i \in 1..k : c[i] = Entry(fs, c[i - 1], f[i])
      BY <2>6, <3>1, <3>2
    <3>5. d[k] = c[k]
      BY <3>3, <3>4, PassesOne
    <3> QED BY <3>2, <3>5
  <2>8. c[n] = Entry(fs, c[n - 1], comps[n])
    BY <1>2, <2>1, <2>2, <2>5
  <2> QED BY <1>1, <2>1, <2>3, <2>4, <2>7, <2>8 DEF Last
<1> QED BY <1>3, <1>4

\* The tree: every entry leads to a node other than the root, and no two lead to
\* the same.
NodeOK(x) ==
  /\ x = [kind |-> x.kind, children |-> x.children, data |-> x.data]
  /\ x.children = [n \in DOMAIN x.children |-> x.children[n]]
Leads(fs, d, n) == d \in DOMAIN fs.nodes /\ n \in DOMAIN fs.nodes[d].children
NodesOK(fs) ==
  /\ fs = [nodes |-> fs.nodes, next |-> fs.next]
  /\ fs.nodes = [i \in DOMAIN fs.nodes |-> fs.nodes[i]]
  /\ fs.next \in Nat /\ DOMAIN fs.nodes \subseteq 1..(fs.next - 1)
  /\ \A i \in DOMAIN fs.nodes : NodeOK(fs.nodes[i])
  /\ IsDir(fs, Root) /\ Root \in DOMAIN fs.nodes
EntriesOK(fs) ==
  /\ \A d, n : Leads(fs, d, n) => fs.nodes[d].children[n] \in DOMAIN fs.nodes \ {Root}
  /\ \A d, n, e, m : Leads(fs, d, n) /\ Leads(fs, e, m)
                     /\ fs.nodes[d].children[n] = fs.nodes[e].children[m] => d = e /\ n = m
TreeOK(fs) == NodesOK(fs) /\ EntriesOK(fs)

LEMMA ResolveIn ==
  ASSUME NEW fs, TreeOK(fs), NEW U, NEW comps \in Seq(U)
  PROVE  /\ resolve(fs, comps) \in DOMAIN fs.nodes \cup {0}
         /\ resolve(fs, comps) # 0 /\ comps # << >> =>
              LET d == resolve(fs, Front(comps))
              IN  /\ d # 0 /\ IsDir(fs, d) /\ Leads(fs, d, Last(comps))
                  /\ resolve(fs, comps) = fs.nodes[d].children[Last(comps)]
<1> DEFINE Bad == {k \in 0..Len(comps) :
                     \E c \in Seq(U) : Len(c) = k /\ resolve(fs, c) \notin DOMAIN fs.nodes \cup {0}}
<1>1. ASSUME NEW c \in Seq(U), c # << >>, resolve(fs, c) # 0,
             resolve(fs, Front(c)) \in DOMAIN fs.nodes \cup {0}
      PROVE  LET d == resolve(fs, Front(c))
             IN  /\ d # 0 /\ IsDir(fs, d) /\ Leads(fs, d, Last(c))
                 /\ resolve(fs, c) = fs.nodes[d].children[Last(c)]
  <2>1. resolve(fs, c) = Entry(fs, resolve(fs, Front(c)), Last(c))
    BY <1>1, ResolveSteps
  <2>2. PICK d : d = resolve(fs, Front(c))
    OBVIOUS
  <2>3. IsDir(fs, d) /\ Last(c) \in DOMAIN fs.nodes[d].children
        /\ resolve(fs, c) = fs.nodes[d].children[Last(c)]
    BY <1>1, <2>1, <2>2 DEF Entry
  <2>4. d # 0 /\ d \in DOMAIN fs.nodes
    BY <1>1, <2>2, <2>3 DEF IsDir
  <2> QED BY <2>2, <2>3, <2>4 DEF Leads
<1>2. Bad = {}
  <2> SUFFICES ASSUME Bad # {} PROVE FALSE
    OBVIOUS
  <2>1. PICK k \in Bad : \A h \in Bad : k <= h
    <3>1. Bad \subseteq 0..Len(comps) /\ Len(comps) \in Nat
      OBVIOUS
    <3> HIDE DEF Bad
    <3> QED BY <3>1, FirstNumber
  <2>2. PICK c \in Seq(U) : Len(c) = k /\ resolve(fs, c) \notin DOMAIN fs.nodes \cup {0}
    OBVIOUS
  <2>3. c # << >>
    BY <2>2, ResolveSteps DEF TreeOK, NodesOK
  <2>4. Front(c) \in Seq(U) /\ Len(Front(c)) = k - 1
    BY <2>2, <2>3, ResolveSteps
  <2>5. k - 1 \in 0..Len(comps) /\ ~(k <= k - 1)
    BY <2>2, <2>3
  <2>6. resolve(fs, Front(c)) \in DOMAIN fs.nodes \cup {0}
    BY <2>1, <2>4, <2>5
  <2>7. resolve(fs, c) # 0
    BY <2>2
  <2>8. PICK d : Leads(fs, d, Last(c)) /\ resolve(fs, c) = fs.nodes[d].children[Last(c)]
    BY <1>1, <2>3, <2>6, <2>7
  <2> QED BY <2>2, <2>8 DEF TreeOK, EntriesOK
<1>3. ASSUME NEW c \in Seq(U), Len(c) \in 0..Len(comps)
      PROVE  resolve(fs, c) \in DOMAIN fs.nodes \cup {0}
  BY <1>2, <1>3
<1>4. resolve(fs, comps) \in DOMAIN fs.nodes \cup {0}
  <2>1. Len(comps) \in 0..Len(comps)
    OBVIOUS
  <2> QED BY <1>3, <2>1
<1>5. ASSUME resolve(fs, comps) # 0, comps # << >>
      PROVE  LET d == resolve(fs, Front(comps))
              IN  /\ d # 0 /\ IsDir(fs, d) /\ Leads(fs, d, Last(comps))
                  /\ resolve(fs, comps) = fs.nodes[d].children[Last(comps)]
  <2>1. Front(comps) \in Seq(U) /\ Len(Front(comps)) = Len(comps) - 1
    BY <1>5, ResolveSteps
  <2>2. Len(comps) - 1 \in 0..Len(comps)
    BY <1>5
  <2>3. resolve(fs, Front(comps)) \in DOMAIN fs.nodes \cup {0}
    BY <1>3, <2>1, <2>2
  <2> QED BY <1>1, <1>5, <2>3
<1> QED BY <1>4, <1>5

LEMMA FrontLast ==
  ASSUME NEW U, NEW c \in Seq(U), NEW d \in Seq(U), c # << >>, d # << >>,
         Front(c) = Front(d), Last(c) = Last(d)
  PROVE  c = d
<1>1. PICK n \in Nat : n = Len(c)
  OBVIOUS
<1>2. PICK m \in Nat : m = Len(d)
  OBVIOUS
<1>3. n # 0 /\ m # 0
  BY <1>1, <1>2
<1>4. Len(Front(c)) = n - 1 /\ \A i \in 1..(n - 1) : Front(c)[i] = c[i]
  BY <1>1, <1>3 DEF Front
<1>5. Len(Front(d)) = m - 1 /\ \A i \in 1..(m - 1) : Front(d)[i] = d[i]
  BY <1>2, <1>3 DEF Front
<1>6. n = m
  BY <1>3, <1>4, <1>5
<1>7. ASSUME NEW i \in 1..n PROVE c[i] = d[i]
  <2>1. CASE i = n
    BY <1>1, <1>2, <1>6, <2>1 DEF Last
  <2>2. CASE i # n
    <3>1. i \in 1..(n - 1)
      BY <2>2
    <3> QED BY <1>4, <1>5, <1>6, <3>1
  <2> QED BY <2>1, <2>2
<1>8. c = [i \in 1..n |-> c[i]]
  BY <1>1
<1>9. d = [i \in 1..n |-> d[i]]
  BY <1>2, <1>6
<1> QED BY <1>7, <1>8, <1>9

\* No two paths lead to the same inode.
LEMMA ResolveOne ==
  ASSUME NEW fs, TreeOK(fs), NEW U, NEW a \in Seq(U), NEW b \in Seq(U),
         resolve(fs, a) # 0, resolve(fs, a) = resolve(fs, b)
  PROVE  a = b
<1> DEFINE Twice(x, y) == resolve(fs, x) # 0 /\ resolve(fs, x) = resolve(fs, y) /\ x # y
           Bad == {k \in 0..Len(a) : \E x, y \in Seq(U) : Len(x) = k /\ Twice(x, y)}
<1>1. Bad = {}
  <2> SUFFICES ASSUME Bad # {} PROVE FALSE
    OBVIOUS
  <2>1. PICK k \in Bad : \A h \in Bad : k <= h
    <3>1. Bad \subseteq 0..Len(a) /\ Len(a) \in Nat
      OBVIOUS
    <3> HIDE DEF Bad
    <3> QED BY <3>1, FirstNumber
  <2>2. PICK x \in Seq(U), y \in Seq(U) : Len(x) = k /\ Twice(x, y) /\ k \in 0..Len(a)
    OBVIOUS
  <2> HIDE DEF Bad
  <2>3. ASSUME NEW z \in Seq(U), z # << >>, resolve(fs, z) # 0 PROVE resolve(fs, z) # Root
    <3>1. PICK d : Leads(fs, d, Last(z)) /\ resolve(fs, z) = fs.nodes[d].children[Last(z)]
      BY <2>3, ResolveIn
    <3> QED BY <3>1 DEF TreeOK, EntriesOK
  <2>4. x # << >> /\ y # << >>
    <3>1. \A z \in Seq(U) : z = << >> => resolve(fs, z) = Root
      BY ResolveSteps
    <3> QED BY <2>2, <2>3, <3>1
  <2>5. PICK d : /\ d = resolve(fs, Front(x)) /\ d # 0 /\ Leads(fs, d, Last(x))
                 /\ resolve(fs, x) = fs.nodes[d].children[Last(x)]
    BY <2>2, <2>4, ResolveIn
  <2>6. PICK e : /\ e = resolve(fs, Front(y)) /\ Leads(fs, e, Last(y))
                 /\ resolve(fs, y) = fs.nodes[e].children[Last(y)]
    BY <2>2, <2>4, ResolveIn
  <2>7. d = e /\ Last(x) = Last(y)
    BY <2>2, <2>5, <2>6 DEF TreeOK, EntriesOK
  <2>8. Front(x) \in Seq(U) /\ Front(y) \in Seq(U) /\ Len(Front(x)) = k - 1
    BY <2>2, <2>4, ResolveSteps
  <2>9. k - 1 \in 0..Len(a) /\ ~(k <= k - 1)
    BY <2>2, <2>4
  <2>10. ~Twice(Front(x), Front(y))
    <3> HIDE DEF Twice
    <3>1. k - 1 \notin Bad
      BY <2>1, <2>9
    <3> QED BY <2>8, <2>9, <3>1 DEF Bad
  <2>11. Front(x) = Front(y)
    BY <2>5, <2>6, <2>7, <2>10
  <2> QED BY <2>2, <2>4, <2>7, <2>11, FrontLast
<1>2. Len(a) \in 0..Len(a)
  OBVIOUS
<1> QED BY <1>1, <1>2

\* A change of the entries of p, or of nothing but data: what a path to a
\* directory leads to, and what other directories list, stays.
Stays(fs, gs, p) ==
  /\ \A d \in DOMAIN fs.nodes : IsDir(fs, d) =>
        /\ d \in DOMAIN gs.nodes /\ IsDir(gs, d)
        /\ d # p => /\ gs.nodes[d].children = fs.nodes[d].children
                    /\ \A n \in DOMAIN fs.nodes[d].children :
                          gs.nodes[fs.nodes[d].children[n]].kind
                          = fs.nodes[fs.nodes[d].children[n]].kind
  /\ \A n \in DOMAIN fs.nodes[p].children :
        IsDir(fs, fs.nodes[p].children[n]) =>
           /\ n \in DOMAIN gs.nodes[p].children
           /\ gs.nodes[p].children[n] = fs.nodes[p].children[n]

LEMMA StaysResolves ==
  ASSUME NEW fs, NEW gs, TreeOK(fs), NEW p, Stays(fs, gs, p),
         NEW U, NEW comps \in Seq(U), IsDir(fs, resolve(fs, comps))
  PROVE  resolve(gs, comps) = resolve(fs, comps) /\ IsDir(gs, resolve(gs, comps))
<1> DEFINE Moved(c) == IsDir(fs, resolve(fs, c)) /\ resolve(gs, c) # resolve(fs, c)
           Bad == {k \in 0..Len(comps) : \E c \in Seq(U) : Len(c) = k /\ Moved(c)}
<1>1. \A c \in Seq(U) : IsDir(fs, resolve(fs, c)) =>
         resolve(fs, c) \in DOMAIN fs.nodes /\ IsDir(gs, resolve(fs, c))
  BY ResolveIn DEF IsDir, Stays
<1>2. Bad = {}
  <2> SUFFICES ASSUME Bad # {} PROVE FALSE
    OBVIOUS
  <2>1. PICK k \in Bad : \A h \in Bad : k <= h
    <3>1. Bad \subseteq 0..Len(comps) /\ Len(comps) \in Nat
      OBVIOUS
    <3> HIDE DEF Bad
    <3> QED BY <3>1, FirstNumber
  <2>2. PICK c \in Seq(U) : Len(c) = k /\ Moved(c) /\ k \in 0..Len(comps)
    OBVIOUS
  <2>3. c # << >>
    BY <2>2, ResolveSteps
  <2>4. resolve(fs, c) # 0
    BY <2>2 DEF IsDir
  <2>5. PICK d : /\ d = resolve(fs, Front(c)) /\ d # 0 /\ IsDir(fs, d) /\ Leads(fs, d, Last(c))
                 /\ resolve(fs, c) = fs.nodes[d].children[Last(c)]
    BY <2>3, <2>4, ResolveIn
  <2>6. Front(c) \in Seq(U) /\ Len(Front(c)) = k - 1
        /\ resolve(gs, c) = Entry(gs, resolve(gs, Front(c)), Last(c))
    BY <2>2, <2>3, ResolveSteps
  <2>7. k - 1 \in 0..Len(comps) /\ ~(k <= k - 1)
    BY <2>2, <2>3
  <2>8. ~Moved(Front(c))
    <3> HIDE DEF Moved
    <3>1. k - 1 \notin Bad
      BY <2>1, <2>7
    <3> QED BY <2>6, <2>7, <3>1 DEF Bad
  <2>9. resolve(gs, c) = Entry(gs, d, Last(c))
    BY <2>5, <2>6, <2>8
  <2>10. d \in DOMAIN fs.nodes /\ IsDir(gs, d) /\ Last(c) \in DOMAIN fs.nodes[d].children
    BY <2>5 DEF Leads, Stays
  <2>11. Last(c) \in DOMAIN gs.nodes[d].children
         /\ gs.nodes[d].children[Last(c)] = fs.nodes[d].children[Last(c)]
    <3>1. IsDir(fs, fs.nodes[d].children[Last(c)])
      BY <2>2, <2>5
    <3>2. CASE d = p
      BY <2>10, <3>1, <3>2 DEF Stays
    <3>3. CASE d # p
      BY <2>5, <2>10, <3>3 DEF Stays
    <3> QED BY <3>2, <3>3
  <2> QED BY <2>2, <2>5, <2>9, <2>10, <2>11 DEF Entry
<1>3. Len(comps) \in 0..Len(comps)
  OBVIOUS
<1>4. ~Moved(comps)
  <2> HIDE DEF Moved
  <2> QED BY <1>2, <1>3
<1> QED BY <1>1, <1>4

LEMMA StaysListed ==
  ASSUME NEW fs, NEW gs, TreeOK(fs), NEW p, Stays(fs, gs, p),
         NEW U, NEW comps \in Seq(U), IsDir(fs, resolve(fs, comps)), resolve(fs, comps) # p
  PROVE  Listing(gs, comps) = Listing(fs, comps)
<1>1. PICK d : d = resolve(fs, comps)
  OBVIOUS
<1>2. resolve(gs, comps) = d
  BY <1>1, StaysResolves
<1>3. d \in DOMAIN fs.nodes
  BY <1>1, ResolveIn DEF IsDir
<1>4. gs.nodes[d].children = fs.nodes[d].children
      /\ \A n \in DOMAIN fs.nodes[d].children :
            gs.nodes[fs.nodes[d].children[n]].kind = fs.nodes[fs.nodes[d].children[n]].kind
  BY <1>1, <1>3 DEF Stays
<1>5. PICK kids : kids = fs.nodes[d].children
  OBVIOUS
<1>6. Listing(gs, comps)
      = {[name |-> n, ino |-> kids[n], kind |-> gs.nodes[kids[n]].kind] : n \in DOMAIN kids}
  BY <1>2, <1>4, <1>5 DEF Listing
<1>7. Listing(fs, comps)
      = {[name |-> n, ino |-> kids[n], kind |-> fs.nodes[kids[n]].kind] : n \in DOMAIN kids}
  BY <1>1, <1>5 DEF Listing
<1>8. \A n \in DOMAIN kids : gs.nodes[kids[n]].kind = fs.nodes[kids[n]].kind
  BY <1>4, <1>5
<1> QED BY <1>6, <1>7, <1>8

\* A new node under p.
LinkedAs(fs, gs, p, name, node) ==
  /\ gs = [nodes |-> gs.nodes, next |-> fs.next + 1]
  /\ gs.nodes = [i \in DOMAIN fs.nodes \cup {fs.next} |-> gs.nodes[i]]
  /\ gs.nodes[fs.next] = node
  /\ \A i \in DOMAIN fs.nodes \ {p} : gs.nodes[i] = fs.nodes[i]
  /\ gs.nodes[p].kind = fs.nodes[p].kind /\ NodeOK(gs.nodes[p])
  /\ DOMAIN gs.nodes[p].children = DOMAIN fs.nodes[p].children \cup {name}
  /\ gs.nodes[p].children[name] = fs.next
  /\ \A n \in DOMAIN fs.nodes[p].children \ {name} :
        gs.nodes[p].children[n] = fs.nodes[p].children[n]

LEMMA LinkedIs ==
  ASSUME NEW fs, NodesOK(fs), NEW comps, NEW node,
         NEW p \in DOMAIN fs.nodes, p = Parent(fs, comps)
  PROVE  LinkedAs(fs, Linked(fs, comps, node), p, Last(comps), node)
<1>1. PICK name : name = Last(comps)
  OBVIOUS
<1>2. PICK new \in Nat : new = fs.next
  BY DEF NodesOK
<1>3. new \notin DOMAIN fs.nodes
  BY <1>2 DEF NodesOK
<1>4. PICK kids : kids = [x \in DOMAIN fs.nodes[p].children \cup {name} |->
                            IF x = name THEN new ELSE fs.nodes[p].children[x]]
  OBVIOUS
<1>5. PICK with : with = [fs.nodes EXCEPT ![p].children = kids]
  OBVIOUS
<1>6. PICK gs : gs = [nodes |-> [i \in DOMAIN with \cup {new} |-> IF i = new THEN node ELSE with[i]],
                      next |-> new + 1]
  OBVIOUS
<1>7. Linked(fs, comps, node) = gs
  BY <1>1, <1>2, <1>4, <1>5, <1>6 DEF Linked
<1>8. fs.nodes = [i \in DOMAIN fs.nodes |-> fs.nodes[i]] /\ NodeOK(fs.nodes[p])
  BY DEF NodesOK
<1>9. /\ DOMAIN with = DOMAIN fs.nodes
      /\ with[p] = [fs.nodes[p] EXCEPT !.children = kids]
      /\ \A i \in DOMAIN fs.nodes \ {p} : with[i] = fs.nodes[i]
  BY <1>5, <1>8
<1>10. with[p] = [kind |-> fs.nodes[p].kind, children |-> kids, data |-> fs.nodes[p].data]
  BY <1>8, <1>9 DEF NodeOK
<1>11. /\ gs.nodes = [i \in DOMAIN fs.nodes \cup {new} |-> gs.nodes[i]]
       /\ gs = [nodes |-> gs.nodes, next |-> new + 1]
       /\ gs.nodes[new] = node
       /\ \A i \in DOMAIN fs.nodes : gs.nodes[i] = with[i]
  BY <1>3, <1>6, <1>9
<1>12. /\ kids = [n \in DOMAIN kids |-> kids[n]]
       /\ DOMAIN kids = DOMAIN fs.nodes[p].children \cup {name} /\ kids[name] = new
       /\ \A n \in DOMAIN fs.nodes[p].children \ {name} : kids[n] = fs.nodes[p].children[n]
  BY <1>4
<1>13. gs.nodes[p] = [kind |-> fs.nodes[p].kind, children |-> kids, data |-> fs.nodes[p].data]
  BY <1>10, <1>11
<1>14. gs.nodes[p].kind = fs.nodes[p].kind /\ gs.nodes[p].children = kids /\ NodeOK(gs.nodes[p])
  BY <1>12, <1>13 DEF NodeOK
<1>15. \A i \in DOMAIN fs.nodes \ {p} : gs.nodes[i] = fs.nodes[i]
  BY <1>9, <1>11
<1> QED BY <1>1, <1>2, <1>7, <1>11, <1>12, <1>14, <1>15 DEF LinkedAs

LEMMA NewNodeOK ==
  ASSUME NEW kind, NEW data
  PROVE  /\ NodeOK(Node(kind, data)) /\ DOMAIN Node(kind, data).children = {}
         /\ Node(kind, data).kind = kind
<1>1. Node(kind, data).children = << >> /\ Node(kind, data).kind = kind
      /\ Node(kind, data).data = data
  BY DEF Node
<1>2. << >> = [n \in {} |-> 0] /\ DOMAIN << >> = {}
  OBVIOUS
<1>3. << >> = [n \in DOMAIN << >> |-> << >>[n]]
  BY <1>2
<1> QED BY <1>1, <1>2, <1>3 DEF NodeOK, Node

LEMMA LinkedTree ==
  ASSUME NEW fs, NEW gs, TreeOK(fs), NEW node, NodeOK(node), DOMAIN node.children = {},
         NEW p \in DOMAIN fs.nodes, NEW name, LinkedAs(fs, gs, p, name, node)
  PROVE  TreeOK(gs)
<1>1. PICK new \in Nat : new = fs.next
  BY DEF TreeOK, NodesOK
<1>2. DOMAIN fs.nodes \subseteq 1..(new - 1) /\ Root \in DOMAIN fs.nodes /\ IsDir(fs, Root)
      /\ \A i \in DOMAIN fs.nodes : NodeOK(fs.nodes[i])
  BY <1>1 DEF TreeOK, NodesOK
<1>3. new # 0 /\ new # Root /\ new \notin DOMAIN fs.nodes
  BY <1>2 DEF Root
<1>4. /\ gs = [nodes |-> gs.nodes, next |-> new + 1]
      /\ gs.nodes = [i \in DOMAIN fs.nodes \cup {new} |-> gs.nodes[i]]
      /\ gs.nodes[new] = node
      /\ \A i \in DOMAIN fs.nodes \ {p} : gs.nodes[i] = fs.nodes[i]
      /\ gs.nodes[p].kind = fs.nodes[p].kind /\ NodeOK(gs.nodes[p])
  BY <1>1 DEF LinkedAs
<1>5. DOMAIN gs.nodes = DOMAIN fs.nodes \cup {new} /\ gs.next = new + 1
  BY <1>4
<1>6. NodesOK(gs)
  <2>1. DOMAIN gs.nodes \subseteq 1..(gs.next - 1)
    BY <1>2, <1>3, <1>5
  <2>2. \A i \in DOMAIN gs.nodes : NodeOK(gs.nodes[i])
    BY <1>2, <1>4, <1>5
  <2>3. IsDir(gs, Root) /\ Root \in DOMAIN gs.nodes
    BY <1>2, <1>4, <1>5 DEF IsDir
  <2>4. gs.next \in Nat
    BY <1>5
  <2>5. gs = [nodes |-> gs.nodes, next |-> gs.next]
        /\ gs.nodes = [i \in DOMAIN gs.nodes |-> gs.nodes[i]]
    BY <1>4, <1>5
  <2> QED BY <2>1, <2>2, <2>3, <2>4, <2>5 DEF NodesOK
<1>7. ASSUME NEW d, NEW n, Leads(gs, d, n)
      PROVE  \/ d = p /\ n = name /\ gs.nodes[d].children[n] = new
             \/ Leads(fs, d, n) /\ gs.nodes[d].children[n] = fs.nodes[d].children[n]
  <2>1. d \in DOMAIN fs.nodes \cup {new} /\ n \in DOMAIN gs.nodes[d].children
    BY <1>5, <1>7 DEF Leads
  <2>2. d # new
    BY <1>4, <2>1
  <2>3. CASE d = p
    BY <1>1, <2>1, <2>3 DEF LinkedAs, Leads
  <2>4. CASE d # p
    BY <1>4, <2>1, <2>2, <2>4 DEF Leads
  <2> QED BY <2>3, <2>4
<1>8. /\ \A d, n : Leads(fs, d, n) => fs.nodes[d].children[n] \in DOMAIN fs.nodes \ {Root}
      /\ \A d, n, e, m : Leads(fs, d, n) /\ Leads(fs, e, m)
                     /\ fs.nodes[d].children[n] = fs.nodes[e].children[m] => d = e /\ n = m
  BY DEF TreeOK, EntriesOK
<1>9. \A d, n : Leads(gs, d, n) => gs.nodes[d].children[n] \in DOMAIN gs.nodes \ {Root}
  BY <1>3, <1>5, <1>7, <1>8
<1>10. ASSUME NEW d, NEW n, NEW e, NEW m, Leads(gs, d, n), Leads(gs, e, m),
              gs.nodes[d].children[n] = gs.nodes[e].children[m]
       PROVE  d = e /\ n = m
  <2>1. \/ d = p /\ n = name /\ gs.nodes[d].children[n] = new
        \/ Leads(fs, d, n) /\ gs.nodes[d].children[n] = fs.nodes[d].children[n]
    BY <1>7, <1>10
  <2>2. \/ e = p /\ m = name /\ gs.nodes[e].children[m] = new
        \/ Leads(fs, e, m) /\ gs.nodes[e].children[m] = fs.nodes[e].children[m]
    BY <1>7, <1>10
  <2> QED BY <1>3, <1>8, <1>10, <2>1, <2>2
<1> QED BY <1>6, <1>9, <1>10 DEF TreeOK, EntriesOK

LEMMA LinkedStays ==
  ASSUME NEW fs, NEW gs, TreeOK(fs), NEW node,
         NEW p \in DOMAIN fs.nodes, NEW name, LinkedAs(fs, gs, p, name, node),
         name \notin DOMAIN fs.nodes[p].children
  PROVE  Stays(fs, gs, p)
<1>1. fs.next \notin DOMAIN fs.nodes
  BY DEF TreeOK, NodesOK
<1>2. DOMAIN gs.nodes = DOMAIN fs.nodes \cup {fs.next}
      /\ \A i \in DOMAIN fs.nodes : gs.nodes[i].kind = fs.nodes[i].kind
  BY DEF LinkedAs
<1>3. \A d \in DOMAIN fs.nodes : \A n : n \in DOMAIN fs.nodes[d].children =>
         fs.nodes[d].children[n] \in DOMAIN fs.nodes
  BY DEF TreeOK, EntriesOK, Leads
<1>4. ASSUME NEW d \in DOMAIN fs.nodes, IsDir(fs, d)
      PROVE  /\ d \in DOMAIN gs.nodes /\ IsDir(gs, d)
             /\ d # p => /\ gs.nodes[d].children = fs.nodes[d].children
                         /\ \A n \in DOMAIN fs.nodes[d].children :
                              gs.nodes[fs.nodes[d].children[n]].kind
                              = fs.nodes[fs.nodes[d].children[n]].kind
  <2>1. d \in DOMAIN gs.nodes /\ IsDir(gs, d)
    BY <1>2, <1>4 DEF IsDir
  <2>2. d # p => gs.nodes[d].children = fs.nodes[d].children
    BY DEF LinkedAs
  <2> QED BY <1>2, <1>3, <2>1, <2>2
<1>5. \A n \in DOMAIN fs.nodes[p].children :
           /\ n \in DOMAIN gs.nodes[p].children
           /\ gs.nodes[p].children[n] = fs.nodes[p].children[n]
  BY DEF LinkedAs
<1> QED BY <1>4, <1>5 DEF Stays

\* New data in a node.
LEMMA DataTree ==
  ASSUME NEW fs, TreeOK(fs), NEW c \in DOMAIN fs.nodes, NEW data, NEW gs,
         gs = [fs EXCEPT !.nodes = [@ EXCEPT ![c].data = data]]
  PROVE  TreeOK(gs) /\ \A p \in DOMAIN fs.nodes : Stays(fs, gs, p)
<1>1. /\ fs = [nodes |-> fs.nodes, next |-> fs.next]
      /\ fs.nodes = [i \in DOMAIN fs.nodes |-> fs.nodes[i]]
      /\ \A i \in DOMAIN fs.nodes : NodeOK(fs.nodes[i])
  BY DEF TreeOK, NodesOK
<1>2. PICK nodes : nodes = [fs.nodes EXCEPT ![c].data = data]
  OBVIOUS
<1>3. PICK hs : hs = [nodes |-> nodes, next |-> fs.next]
  OBVIOUS
<1>4. hs.nodes = nodes /\ hs.next = fs.next /\ hs = [nodes |-> hs.nodes, next |-> hs.next]
  BY <1>3
<1>5. /\ nodes = [i \in DOMAIN fs.nodes |-> nodes[i]]
      /\ nodes[c] = [fs.nodes[c] EXCEPT !.data = data]
      /\ \A i \in DOMAIN fs.nodes \ {c} : nodes[i] = fs.nodes[i]
  BY <1>1, <1>2
<1>6. nodes[c] = [kind |-> fs.nodes[c].kind, children |-> fs.nodes[c].children, data |-> data]
  BY <1>1, <1>5 DEF NodeOK
<1>7. nodes[c].kind = fs.nodes[c].kind /\ nodes[c].children = fs.nodes[c].children
      /\ NodeOK(nodes[c])
  BY <1>1, <1>6 DEF NodeOK
<1>8. /\ DOMAIN hs.nodes = DOMAIN fs.nodes /\ hs.nodes = [i \in DOMAIN hs.nodes |-> hs.nodes[i]]
      /\ \A i \in DOMAIN fs.nodes : /\ hs.nodes[i].kind = fs.nodes[i].kind
                                    /\ hs.nodes[i].children = fs.nodes[i].children
                                    /\ NodeOK(hs.nodes[i])
  BY <1>1, <1>4, <1>5, <1>7
<1>9. NodesOK(hs)
  <2>1. IsDir(fs, Root) /\ Root \in DOMAIN fs.nodes /\ fs.next \in Nat
        /\ DOMAIN fs.nodes \subseteq 1..(fs.next - 1)
    BY DEF TreeOK, NodesOK
  <2>2. IsDir(hs, Root)
    BY <1>8, <2>1 DEF IsDir
  <2> QED BY <1>4, <1>8, <2>1, <2>2 DEF NodesOK
<1>10. \A d, n : Leads(hs, d, n) <=> Leads(fs, d, n)
  BY <1>8 DEF Leads
<1>11. \A d, n : Leads(fs, d, n) => hs.nodes[d].children[n] = fs.nodes[d].children[n]
  BY <1>8 DEF Leads
<1>12. EntriesOK(hs)
  BY <1>8, <1>10, <1>11 DEF TreeOK, EntriesOK
<1>13. ASSUME NEW p \in DOMAIN fs.nodes PROVE Stays(fs, hs, p)
  <2>1. \A d \in DOMAIN fs.nodes : \A n : n \in DOMAIN fs.nodes[d].children =>
           fs.nodes[d].children[n] \in DOMAIN fs.nodes
    BY DEF TreeOK, EntriesOK, Leads
  <2>2. \A d \in DOMAIN fs.nodes : IsDir(fs, d) => IsDir(hs, d)
    BY <1>8 DEF IsDir
  <2> QED BY <1>8, <2>1, <2>2 DEF Stays
<1>14. gs = hs
  <2>1. gs = [fs EXCEPT !.nodes = nodes]
    BY <1>2
  <2>2. PICK old : old = fs.nodes
    OBVIOUS
  <2>3. fs = [nodes |-> old, next |-> fs.next]
    BY <1>1, <2>2
  <2> QED BY <1>3, <2>1, <2>3
<1> QED BY <1>9, <1>12, <1>13, <1>14 DEF TreeOK

\* A file goes with its entry.
LEMMA RemovedTree ==
  ASSUME NEW fs, TreeOK(fs), NEW comps, NEW p \in DOMAIN fs.nodes, p = Parent(fs, comps),
         IsDir(fs, p), Child(fs, comps) # 0, ~IsDir(fs, Child(fs, comps))
  PROVE  TreeOK(FsRemove(fs, comps)) /\ Stays(fs, FsRemove(fs, comps), p)
<1>1. PICK name : name = Last(comps)
  OBVIOUS
<1>2. PICK c : c = Child(fs, comps)
  OBVIOUS
<1>3. name \in DOMAIN fs.nodes[p].children /\ c = fs.nodes[p].children[name] /\ ~IsDir(fs, c)
  BY <1>1, <1>2 DEF Child
<1>4. Leads(fs, p, name) /\ c \in DOMAIN fs.nodes \ {Root} /\ c # p
  BY <1>3 DEF TreeOK, EntriesOK, Leads
<1>5. /\ fs = [nodes |-> fs.nodes, next |-> fs.next]
      /\ fs.nodes = [i \in DOMAIN fs.nodes |-> fs.nodes[i]]
      /\ \A i \in DOMAIN fs.nodes : NodeOK(fs.nodes[i])
  BY DEF TreeOK, NodesOK
<1>6. PICK kids : kids = [n \in DOMAIN fs.nodes[p].children \ {name} |-> fs.nodes[p].children[n]]
  OBVIOUS
<1>7. PICK without : without = [fs.nodes EXCEPT ![p].children = kids]
  OBVIOUS
<1>8. PICK gs : gs = [nodes |-> [i \in DOMAIN fs.nodes \ {c} |-> without[i]], next |-> fs.next]
  OBVIOUS
<1>9. /\ DOMAIN without = DOMAIN fs.nodes
      /\ without[p] = [fs.nodes[p] EXCEPT !.children = kids]
      /\ \A i \in DOMAIN fs.nodes \ {p} : without[i] = fs.nodes[i]
  BY <1>5, <1>7
<1>10. without[p] = [kind |-> fs.nodes[p].kind, children |-> kids, data |-> fs.nodes[p].data]
  BY <1>5, <1>9 DEF NodeOK
<1>11. FsRemove(fs, comps) = gs
  <2>1. Restrict(fs.nodes[p].children, DOMAIN fs.nodes[p].children \ {name}) = kids
    BY <1>6 DEF Restrict
  <2>2. Restrict(without, DOMAIN without \ {c}) = [i \in DOMAIN fs.nodes \ {c} |-> without[i]]
    BY <1>9 DEF Restrict
  <2>3. FsRemove(fs, comps) = [fs EXCEPT !.nodes = Restrict(without, DOMAIN without \ {c})]
    BY <1>1, <1>2, <1>7, <2>1 DEF FsRemove
  <2> QED BY <1>5, <1>8, <2>2, <2>3
<1>12. /\ gs.next = fs.next /\ gs = [nodes |-> gs.nodes, next |-> gs.next]
       /\ DOMAIN gs.nodes = DOMAIN fs.nodes \ {c}
       /\ gs.nodes = [i \in DOMAIN gs.nodes |-> gs.nodes[i]]
       /\ \A i \in DOMAIN fs.nodes \ {c} : gs.nodes[i] = without[i]
  BY <1>8
<1>13. kids = [n \in DOMAIN kids |-> kids[n]]
       /\ DOMAIN kids = DOMAIN fs.nodes[p].children \ {name}
       /\ \A n \in DOMAIN kids : kids[n] = fs.nodes[p].children[n]
  BY <1>6
<1>14. gs.nodes[p].kind = fs.nodes[p].kind /\ gs.nodes[p].children = kids /\ NodeOK(gs.nodes[p])
  <2>1. gs.nodes[p] = [kind |-> fs.nodes[p].kind, children |-> kids, data |-> fs.nodes[p].data]
    BY <1>4, <1>10, <1>12
  <2> QED BY <1>13, <2>1 DEF NodeOK
<1>15. \A i \in DOMAIN fs.nodes \ {c, p} : gs.nodes[i] = fs.nodes[i]
  BY <1>9, <1>12
<1>16. \A i \in DOMAIN gs.nodes : gs.nodes[i].kind = fs.nodes[i].kind /\ NodeOK(gs.nodes[i])
  BY <1>5, <1>12, <1>14, <1>15
<1>17. NodesOK(gs)
  <2>1. IsDir(fs, Root) /\ Root \in DOMAIN fs.nodes /\ fs.next \in Nat
        /\ DOMAIN fs.nodes \subseteq 1..(fs.next - 1)
    BY DEF TreeOK, NodesOK
  <2>2. IsDir(gs, Root) /\ Root \in DOMAIN gs.nodes
    BY <1>4, <1>12, <1>16, <2>1 DEF IsDir
  <2> QED BY <1>12, <1>16, <2>1, <2>2 DEF NodesOK
<1>18. ASSUME NEW d, NEW n, Leads(gs, d, n)
       PROVE  /\ Leads(fs, d, n) /\ gs.nodes[d].children[n] = fs.nodes[d].children[n]
              /\ ~(d = p /\ n = name)
  <2>1. d \in DOMAIN fs.nodes \ {c} /\ n \in DOMAIN gs.nodes[d].children
    BY <1>12, <1>18 DEF Leads
  <2>2. CASE d = p
    BY <1>13, <1>14, <2>1, <2>2 DEF Leads
  <2>3. CASE d # p
    BY <1>15, <2>1, <2>3 DEF Leads
  <2> QED BY <2>2, <2>3
<1>19. /\ \A d, n : Leads(fs, d, n) => fs.nodes[d].children[n] \in DOMAIN fs.nodes \ {Root}
       /\ \A d, n, e, m : Leads(fs, d, n) /\ Leads(fs, e, m)
                     /\ fs.nodes[d].children[n] = fs.nodes[e].children[m] => d = e /\ n = m
  BY DEF TreeOK, EntriesOK
<1>20. \A d, n : Leads(fs, d, n) /\ ~(d = p /\ n = name) => fs.nodes[d].children[n] # c
  BY <1>3, <1>4, <1>19
<1>21. EntriesOK(gs)
  <2>1. \A d, n : Leads(gs, d, n) => gs.nodes[d].children[n] \in DOMAIN gs.nodes \ {Root}
    BY <1>12, <1>18, <1>19, <1>20
  <2>2. \A d, n, e, m : Leads(gs, d, n) /\ Leads(gs, e, m)
                     /\ gs.nodes[d].children[n] = gs.nodes[e].children[m] => d = e /\ n = m
    BY <1>18, <1>19
  <2> QED BY <2>1, <2>2 DEF EntriesOK
<1>22. ASSUME NEW d \in DOMAIN fs.nodes, IsDir(fs, d)
       PROVE  /\ d \in DOMAIN gs.nodes /\ IsDir(gs, d)
              /\ d # p => /\ gs.nodes[d].children = fs.nodes[d].children
                          /\ \A n \in DOMAIN fs.nodes[d].children :
                               gs.nodes[fs.nodes[d].children[n]].kind
                               = fs.nodes[fs.nodes[d].children[n]].kind
  <2>1. d # c /\ d \in DOMAIN gs.nodes
    BY <1>3, <1>12, <1>22
  <2>2. IsDir(gs, d)
    BY <1>16, <1>22, <2>1 DEF IsDir
  <2>3. ASSUME d # p, NEW n \in DOMAIN fs.nodes[d].children
        PROVE  gs.nodes[fs.nodes[d].children[n]].kind = fs.nodes[fs.nodes[d].children[n]].kind
    <3>1. Leads(fs, d, n)
      BY <2>3 DEF Leads
    <3>2. fs.nodes[d].children[n] \in DOMAIN gs.nodes
      BY <1>12, <1>19, <1>20, <2>3, <3>1
    <3> QED BY <1>16, <3>2
  <2>4. d # p => gs.nodes[d].children = fs.nodes[d].children
    BY <1>15, <2>1
  <2> QED BY <2>1, <2>2, <2>3, <2>4
<1>23. ASSUME NEW n \in DOMAIN fs.nodes[p].children, IsDir(fs, fs.nodes[p].children[n])
       PROVE  /\ n \in DOMAIN gs.nodes[p].children
              /\ gs.nodes[p].children[n] = fs.nodes[p].children[n]
  <2>1. n # name
    BY <1>3, <1>23
  <2> QED BY <1>13, <1>14, <2>1
<1>24. Stays(fs, gs, p)
  BY <1>22, <1>23 DEF Stays
<1> QED BY <1>11, <1>17, <1>21, <1>24 DEF TreeOK

\* What the guards of the operations say.
LEMMA ParentIn ==
  ASSUME NEW fs, TreeOK(fs), NEW U, NEW comps \in Seq(U), Parent(fs, comps) # 0,
         comps # << >>
  PROVE  /\ Parent(fs, comps) \in DOMAIN fs.nodes
         /\ Front(comps) \in Seq(U) /\ Parent(fs, comps) = resolve(fs, Front(comps))
         /\ Child(fs, comps) = 0 <=>
               Last(comps) \notin DOMAIN fs.nodes[Parent(fs, comps)].children
         /\ Child(fs, comps) # 0 => Child(fs, comps) \in DOMAIN fs.nodes
<1>1. Front(comps) \in Seq(U)
  BY ResolveSteps
<1>2. PICK p : p = Parent(fs, comps) /\ p = resolve(fs, Front(comps)) /\ p # 0
  BY DEF Parent
<1>3. p \in DOMAIN fs.nodes
  BY <1>1, <1>2, ResolveIn
<1>4. \A n \in DOMAIN fs.nodes[p].children :
         fs.nodes[p].children[n] \in DOMAIN fs.nodes /\ fs.nodes[p].children[n] # 0
  <2>1. 0 \notin DOMAIN fs.nodes
    BY DEF TreeOK, NodesOK
  <2> QED BY <1>3, <2>1 DEF TreeOK, EntriesOK, Leads
<1> QED BY <1>1, <1>2, <1>3, <1>4 DEF Child

LEMMA MkdirTree ==
  ASSUME NEW fs, TreeOK(fs), NEW U, NEW comps \in Seq(U), comps # << >>, CanMkdir(fs, comps)
  PROVE  /\ TreeOK(FsMkdir(fs, comps)) /\ Stays(fs, FsMkdir(fs, comps), Parent(fs, comps))
         /\ IsDir(FsMkdir(fs, comps), resolve(FsMkdir(fs, comps), comps))
<1>1. PICK p \in DOMAIN fs.nodes : p = Parent(fs, comps)
  BY ParentIn DEF CanMkdir, IsDir
<1>2. /\ IsDir(fs, p) /\ Front(comps) \in Seq(U) /\ p = resolve(fs, Front(comps))
      /\ Last(comps) \notin DOMAIN fs.nodes[p].children
  BY <1>1, ParentIn DEF CanMkdir, IsDir
<1>3. PICK gs : gs = FsMkdir(fs, comps)
  OBVIOUS
<1>4. PICK node : node = Node("dir", << >>)
  OBVIOUS
<1>5. NodeOK(node) /\ DOMAIN node.children = {} /\ node.kind = "dir"
  BY <1>4, NewNodeOK
<1>6. LinkedAs(fs, gs, p, Last(comps), node)
  BY <1>1, <1>3, <1>4, LinkedIs DEF FsMkdir, TreeOK
<1>7. TreeOK(gs)
  BY <1>5, <1>6, LinkedTree
<1>8. Stays(fs, gs, p)
  BY <1>2, <1>6, LinkedStays
<1>9. resolve(gs, Front(comps)) = p /\ IsDir(gs, p)
  BY <1>2, <1>8, StaysResolves
<1>10. resolve(gs, comps) = Entry(gs, p, Last(comps))
  BY <1>9, ResolveSteps
<1>11. Last(comps) \in DOMAIN gs.nodes[p].children
       /\ gs.nodes[p].children[Last(comps)] = fs.next /\ gs.nodes[fs.next] = node
  BY <1>6 DEF LinkedAs
<1>12. resolve(gs, comps) = fs.next
  BY <1>9, <1>10, <1>11 DEF Entry
<1>13. fs.next # 0
  <2>1. Root \in 1..(fs.next - 1) /\ fs.next \in Nat
    BY DEF TreeOK, NodesOK
  <2> QED BY <2>1 DEF Root
<1> QED BY <1>1, <1>3, <1>5, <1>7, <1>8, <1>11, <1>12, <1>13 DEF IsDir

LEMMA WriteTree ==
  ASSUME NEW fs, TreeOK(fs), NEW U, NEW comps \in Seq(U), comps # << >>, NEW data,
         Parent(fs, comps) # 0
  PROVE  /\ TreeOK(FsWrite(fs, comps, data))
         /\ Stays(fs, FsWrite(fs, comps, data), Parent(fs, comps))
<1>1. PICK p \in DOMAIN fs.nodes : p = Parent(fs, comps)
  BY ParentIn
<1>2. PICK gs : gs = FsWrite(fs, comps, data)
  OBVIOUS
<1>3. CASE Child(fs, comps) = 0
  <2>1. PICK node : node = Node("file", data)
    OBVIOUS
  <2>2. NodeOK(node) /\ DOMAIN node.children = {}
    BY <2>1, NewNodeOK
  <2>3. gs = Linked(fs, comps, node)
    BY <1>2, <1>3, <2>1 DEF FsWrite
  <2>4. LinkedAs(fs, gs, p, Last(comps), node)
    BY <1>1, <2>3, LinkedIs DEF TreeOK
  <2>5. Last(comps) \notin DOMAIN fs.nodes[p].children
    BY <1>1, <1>3, ParentIn
  <2>6. TreeOK(gs)
    BY <2>2, <2>4, LinkedTree
  <2>7. Stays(fs, gs, p)
    BY <2>4, <2>5, LinkedStays
  <2> QED BY <1>1, <1>2, <2>6, <2>7
<1>4. CASE Child(fs, comps) # 0
  <2>1. PICK c \in DOMAIN fs.nodes : c = Child(fs, comps)
    BY <1>4, ParentIn
  <2>2. gs = [fs EXCEPT !.nodes = [@ EXCEPT ![c].data = data]]
    BY <1>2, <1>4, <2>1 DEF FsWrite
  <2>3. TreeOK(gs) /\ \A q \in DOMAIN fs.nodes : Stays(fs, gs, q)
    BY <2>2, DataTree
  <2> QED BY <1>1, <1>2, <2>3
<1> QED BY <1>3, <1>4

LEMMA RemoveTree ==
  ASSUME NEW fs, TreeOK(fs), NEW U, NEW comps \in Seq(U), comps # << >>, CanRemove(fs, comps)
  PROVE  /\ TreeOK(FsRemove(fs, comps)) /\ Stays(fs, FsRemove(fs, comps), Parent(fs, comps))
<1>1. PICK p \in DOMAIN fs.nodes : p = Parent(fs, comps)
  BY ParentIn DEF CanRemove, IsDir
<1> QED BY <1>1, RemovedTree DEF CanRemove

\* The view the mount begins with.
Viewed(fs) ==
  TreeOK(fs) /\ IsDir(fs, resolve(fs, << "contacts" >>)) /\ IsDir(fs, resolve(fs, << "history" >>))

LEMMA OnePath ==
  ASSUME NEW x
  PROVE  /\ << x >> \in Seq({x}) /\ << x >> # << >>
         /\ Front(<< x >>) = << >> /\ << >> \in Seq({x}) /\ Last(<< x >>) = x
<1>1. << x >> \in Seq({x}) /\ << x >> # << >> /\ << >> \in Seq({x}) /\ Len(<< x >>) = 1
      /\ << x >>[1] = x
  OBVIOUS
<1>2. Front(<< x >>) = << >>
  BY <1>1 DEF Front
<1> QED BY <1>1, <1>2 DEF Last

LEMMA EmptyTree == TreeOK(EmptyFs) /\ DOMAIN EmptyFs.nodes[Root].children = {}
<1>1. PICK node : node = Node("dir", << >>)
  OBVIOUS
<1>2. NodeOK(node) /\ DOMAIN node.children = {} /\ node.kind = "dir"
  BY <1>1, NewNodeOK
<1>3. PICK fs : fs = [nodes |-> << node >>, next |-> 2]
  OBVIOUS
<1>4. << node >> = [i \in {1} |-> node]
  OBVIOUS
<1>5. fs.nodes = [i \in {1} |-> node] /\ fs.next = 2 /\ fs = [nodes |-> fs.nodes, next |-> fs.next]
  BY <1>3, <1>4
<1>6. DOMAIN fs.nodes = {1} /\ fs.nodes[1] = node /\ fs.nodes = [i \in DOMAIN fs.nodes |-> fs.nodes[i]]
  BY <1>5
<1>7. NodesOK(fs)
  BY <1>2, <1>5, <1>6 DEF NodesOK, IsDir, Root
<1>8. EntriesOK(fs)
  BY <1>2, <1>6 DEF EntriesOK, Leads
<1> QED BY <1>1, <1>2, <1>3, <1>6, <1>7, <1>8 DEF TreeOK, EmptyFs, Root

LEMMA MadeAtTop ==
  ASSUME NEW fs, TreeOK(fs), NEW x, x \notin DOMAIN fs.nodes[Root].children
  PROVE  LET gs == FsMkdir(fs, << x >>)
         IN  /\ TreeOK(gs) /\ Stays(fs, gs, Root) /\ IsDir(gs, resolve(gs, << x >>))
             /\ DOMAIN gs.nodes[Root].children = DOMAIN fs.nodes[Root].children \cup {x}
<1>1. PICK comps \in Seq({x}) : /\ comps = << x >> /\ comps # << >> /\ Front(comps) = << >>
                                /\ Last(comps) = x
  BY OnePath
<1>2. resolve(fs, << >>) = Root
  <2>1. << >> \in Seq({x})
    OBVIOUS
  <2> QED BY <2>1, ResolveSteps
<1>3. Parent(fs, comps) = Root /\ IsDir(fs, Root) /\ Root \in DOMAIN fs.nodes
  BY <1>1, <1>2 DEF Parent, TreeOK, NodesOK
<1>4. CanMkdir(fs, comps)
  BY <1>1, <1>3 DEF CanMkdir, Child
<1>5. LinkedAs(fs, FsMkdir(fs, comps), Root, x, Node("dir", << >>))
  BY <1>1, <1>3, LinkedIs DEF FsMkdir, TreeOK
<1>6. DOMAIN FsMkdir(fs, comps).nodes[Root].children = DOMAIN fs.nodes[Root].children \cup {x}
  BY <1>5 DEF LinkedAs
<1>7. /\ TreeOK(FsMkdir(fs, comps)) /\ Stays(fs, FsMkdir(fs, comps), Root)
      /\ IsDir(FsMkdir(fs, comps), resolve(FsMkdir(fs, comps), comps))
  BY <1>1, <1>3, <1>4, MkdirTree
<1> QED BY <1>1, <1>6, <1>7

LEMMA StaysViewed ==
  ASSUME NEW fs, NEW gs, Viewed(fs), TreeOK(gs), NEW p, Stays(fs, gs, p)
  PROVE  Viewed(gs)
<1>1. << "contacts" >> \in Seq({"contacts"}) /\ << "history" >> \in Seq({"history"})
  BY OnePath
<1> QED BY <1>1, StaysResolves DEF Viewed

LEMMA TopViewed == Viewed(TopDirs)
<1>1. PICK a : a = FsMkdir(EmptyFs, << "contacts" >>)
  OBVIOUS
<1>2. PICK b : b = FsMkdir(a, << "history" >>)
  OBVIOUS
<1>3. PICK c : c = FsMkdir(b, << "files" >>)
  OBVIOUS
<1>4. TreeOK(a) /\ IsDir(a, resolve(a, << "contacts" >>))
      /\ DOMAIN a.nodes[Root].children = {"contacts"}
  BY <1>1, EmptyTree, MadeAtTop
<1>5. /\ TreeOK(b) /\ Stays(a, b, Root) /\ IsDir(b, resolve(b, << "history" >>))
      /\ DOMAIN b.nodes[Root].children = {"contacts", "history"}
  BY <1>2, <1>4, MadeAtTop
<1>6. IsDir(b, resolve(b, << "contacts" >>))
  <2>1. << "contacts" >> \in Seq({"contacts"})
    BY OnePath
  <2> QED BY <1>4, <1>5, <2>1, StaysResolves
<1>7. Viewed(b)
  BY <1>5, <1>6 DEF Viewed
<1>8. TreeOK(c) /\ Stays(b, c, Root)
  BY <1>3, <1>5, MadeAtTop
<1>9. Viewed(c)
  BY <1>7, <1>8, StaysViewed
<1> QED BY <1>1, <1>2, <1>3, <1>9 DEF TopDirs

LEMMA WrittenViewed ==
  ASSUME NEW fs, Viewed(fs), NEW U, NEW path \in Seq(U), path # << >>,
         resolve(fs, Front(path)) # 0, NEW data
  PROVE  Viewed(FsWrite(fs, path, data))
<1>1. Parent(fs, path) # 0
  BY DEF Parent
<1>2. TreeOK(FsWrite(fs, path, data)) /\ Stays(fs, FsWrite(fs, path, data), Parent(fs, path))
  BY <1>1, WriteTree DEF Viewed
<1> QED BY <1>2, StaysViewed

LEMMA TwoPath ==
  ASSUME NEW U, NEW s \in Seq(U), Len(s) = 2, NEW x, s[1] = x
  PROVE  Front(s) = << x >>
<1>1. PICK f : f = Front(s)
  OBVIOUS
<1>2. f \in Seq(U) /\ Len(f) = 1 /\ f[1] = x
  BY <1>1 DEF Front
<1>3. f = [i \in 1..1 |-> f[i]]
  BY <1>2
<1>4. \A i \in 1..1 : f[i] = x
  BY <1>2
<1>5. << x >> = [i \in 1..1 |-> x]
  OBVIOUS
<1> QED BY <1>1, <1>3, <1>4, <1>5

LEMMA FiledViewed ==
  ASSUME NEW fs, Viewed(fs), NEW path,
         (\E c : path = Card(c)) \/ (\E m : path = HistoryLog(m))
  PROVE  Viewed(Filed(fs, path))
<1>1. CASE \E c : path = Card(c)
  <2>1. PICK c : path = << "contacts", c >>
    BY <1>1 DEF Card
  <2>2. path \in Seq({"contacts", c}) /\ path # << >> /\ Len(path) = 2 /\ path[1] = "contacts"
    BY <2>1
  <2>3. Front(path) = << "contacts" >>
    BY <2>2, TwoPath
  <2>4. resolve(fs, Front(path)) # 0
    BY <2>3 DEF Viewed, IsDir
  <2>5. Filed(fs, path) = FsWrite(fs, path, << Last(path) >>)
    BY <2>4 DEF Filed, lookup
  <2> QED BY <2>2, <2>4, <2>5, WrittenViewed
<1>2. CASE \E m : path = HistoryLog(m)
  <2>1. PICK m : path = << "history", m.peer, m.day >>
    BY <1>2 DEF HistoryLog
  <2>2. PICK U : U = {"history", m.peer, m.day}
    OBVIOUS
  <2>3. PICK dir : dir = Front(path)
    OBVIOUS
  <2>4. path \in Seq(U) /\ path # << >> /\ Len(path) = 3 /\ path[1] = "history"
    BY <2>1, <2>2
  <2>5. dir \in Seq(U) /\ dir # << >> /\ Len(dir) = 2 /\ dir[1] = "history"
    BY <2>3, <2>4 DEF Front
  <2>6. Front(dir) = << "history" >>
    BY <2>5, TwoPath
  <2>7. PICK h : h = resolve(fs, Front(dir)) /\ IsDir(fs, h)
    BY <2>6 DEF Viewed
  <2>8. CASE resolve(fs, dir) # 0
    <3>1. Filed(fs, path) = FsWrite(fs, path, << Last(path) >>)
      BY <2>3, <2>8 DEF Filed, lookup
    <3> QED BY <2>3, <2>4, <2>8, <3>1, WrittenViewed
  <2>9. CASE resolve(fs, dir) = 0
    <3>1. Parent(fs, dir) = h /\ h # 0
      BY <2>5, <2>7 DEF Parent, IsDir
    <3>2. CanMkdir(fs, dir)
      <4>1. resolve(fs, dir) = Entry(fs, h, Last(dir))
        BY <2>5, <2>7, ResolveSteps
      <4>2. Child(fs, dir) = 0
        BY <2>7, <2>9, <3>1, <4>1 DEF Child, Entry
      <4> QED BY <2>7, <3>1, <4>2 DEF CanMkdir
    <3>3. PICK made : made = FsMkdir(fs, dir)
      OBVIOUS
    <3>4. TreeOK(made) /\ Stays(fs, made, h) /\ IsDir(made, resolve(made, dir))
      BY <2>5, <3>1, <3>2, <3>3, MkdirTree DEF Viewed
    <3>5. Viewed(made)
      BY <3>4, StaysViewed
    <3>6. resolve(made, dir) # 0
      BY <3>4 DEF IsDir
    <3>7. Filed(fs, path) = FsWrite(made, path, << Last(path) >>)
      BY <2>3, <2>9, <3>3 DEF Filed, lookup
    <3> QED BY <2>3, <2>4, <3>5, <3>6, <3>7, WrittenViewed
  <2> QED BY <2>8, <2>9
<1> QED BY <1>1, <1>2

\* The order in which a set is written.
LEMMA InOrder ==
  ASSUME NEW S, IsFiniteSet(S)
  PROVE  SetToSeq(S) \in Seq(S)
<1>1. PICK n \in Nat : n = Cardinality(S) /\ ExistsBijection(1..n, S)
  BY FS_CardinalityType
<1>2. PICK f \in [1..n -> S] : IsInjective(f)
  BY <1>1 DEF ExistsBijection, Bijection, Injection, IsInjective
<1>3. SetToSeq(S) \in [1..n -> S]
  BY <1>1, <1>2 DEF SetToSeq
<1> QED BY <1>3

LEMMA ImageFinite ==
  ASSUME NEW S, IsFiniteSet(S), NEW f, DOMAIN f = S
  PROVE  IsFiniteSet({f[x] : x \in S})
<1>1. PICK T : T = {f[x] : x \in S}
  OBVIOUS
<1>2. PICK g : g = [x \in S |-> f[x]]
  OBVIOUS
<1>3. g \in Surjection(S, T)
  BY <1>1, <1>2 DEF Surjection
<1> QED BY <1>1, <1>3, FS_Surjection

LEMMA ViewBuilt ==
  ASSUME NEW contacts, NEW days, IsFiniteSet(contacts), IsFiniteSet(days)
  PROVE  Viewed(build_im_view(contacts, days))
<1> DEFINE cards == {Card(c) : c \in contacts}
           files == {HistoryLog(m) : m \in days}
           paths == SetToSeq(cards) \o SetToSeq(files)
           n == Len(paths)
           Starts(v) == v = [i \in 0..n |-> IF i = 0 THEN TopDirs ELSE Filed(v[i - 1], paths[i])]
           view == CHOOSE v : Starts(v)
<1>1. paths \in Seq(cards \cup files)
  <2>1. IsFiniteSet(cards)
    <3> DEFINE f == [c \in contacts |-> Card(c)]
    <3>1. IsFiniteSet({f[c] : c \in contacts})
      BY ImageFinite
    <3>2. {f[c] : c \in contacts} = cards
      OBVIOUS
    <3> QED BY <3>1, <3>2
  <2>2. IsFiniteSet(files)
    <3> DEFINE f == [m \in days |-> HistoryLog(m)]
    <3>1. IsFiniteSet({f[m] : m \in days})
      BY ImageFinite
    <3>2. {f[m] : m \in days} = files
      OBVIOUS
    <3> QED BY <3>1, <3>2
  <2>3. SetToSeq(cards) \in Seq(cards) /\ SetToSeq(files) \in Seq(files)
    BY <2>1, <2>2, InOrder
  <2> HIDE DEF cards, files
  <2>4. SetToSeq(cards) \in Seq(cards \cup files) /\ SetToSeq(files) \in Seq(cards \cup files)
    BY <2>3
  <2> QED BY <2>4
<1>2. n \in Nat /\ \A i \in 1..n : paths[i] \in cards \cup files
  <2> HIDE DEF cards, files
  <2>1. PICK s \in Seq(cards \cup files) : s = paths
    BY <1>1
  <2>2. Len(s) \in Nat /\ \A i \in 1..Len(s) : s[i] \in cards \cup files
    OBVIOUS
  <2> QED BY <2>1, <2>2
<1>3. build_im_view(contacts, days) = view[n]
  BY DEF build_im_view
<1>4. \A i \in 1..n : (\E c : paths[i] = Card(c)) \/ (\E m : paths[i] = HistoryLog(m))
  <2>1. \A x \in cards \cup files : (\E c : x = Card(c)) \/ (\E m : x = HistoryLog(m))
    OBVIOUS
  <2> HIDE DEF cards, files
  <2> QED BY <1>2, <2>1
<1> HIDE DEF n, paths
<1> DEFINE Until(k, v) == /\ v[0] = TopDirs
                          /\ \A i \in 1..k : v[i] = Filed(v[i - 1], paths[i])
           Short == {k \in 0..n : \E v : Until(n - k, v)}
<1>5. Short # {}
  <2> DEFINE r == [i \in {0} |-> TopDirs]
  <2>1. r[0] = TopDirs /\ n - n = 0 /\ n \in 0..n
    BY <1>2
  <2>2. Until(n - n, r)
    BY <2>1
  <2> HIDE DEF Until
  <2>3. n \in Short
    BY <2>1, <2>2
  <2> QED BY <2>3
<1>6. PICK k \in Short : \A h \in Short : k <= h
  <2>1. Short \subseteq 0..n
    OBVIOUS
  <2> HIDE DEF Short
  <2> QED BY <1>2, <1>5, <2>1, FirstNumber
<1>7. PICK v : Until(n - k, v)
  OBVIOUS
<1>8. k = 0
  <2> SUFFICES ASSUME k # 0 PROVE FALSE
    OBVIOUS
  <2> DEFINE m == n - k
             d == [i \in 0..(m + 1) |-> IF i <= m THEN v[i] ELSE Filed(v[m], paths[m + 1])]
  <2>1. m \in Nat /\ n - (k - 1) = m + 1 /\ k - 1 \in 0..n /\ ~(k <= k - 1)
    BY <1>2
  <2>2. d[0] = TopDirs
    BY <1>7, <2>1
  <2>3. ASSUME NEW i \in 1..(m + 1) PROVE d[i] = Filed(d[i - 1], paths[i])
    <3>1. i - 1 \in 0..(m + 1) /\ i - 1 <= m /\ i \in 0..(m + 1)
      BY <2>1
    <3>2. d[i - 1] = v[i - 1]
      BY <3>1
    <3>3. CASE i = m + 1
      <4>1. ~(i <= m) /\ i - 1 = m
        BY <2>1, <3>3
      <4>2. d[i] = Filed(v[m], paths[m + 1])
        BY <3>1, <4>1
      <4> QED BY <3>2, <3>3, <4>1, <4>2
    <3>4. CASE i # m + 1
      <4>1. i \in 1..m /\ i <= m
        BY <2>1, <3>4
      <4>2. d[i] = v[i]
        BY <3>1, <4>1
      <4> QED BY <1>7, <3>2, <4>1, <4>2
    <3> QED BY <3>3, <3>4
  <2>4. Until(n - (k - 1), d)
    BY <2>1, <2>2, <2>3
  <2>5. k - 1 \in Short
    BY <2>1, <2>4
  <2> QED BY <1>6, <2>1, <2>5
<1>9. v[0] = TopDirs /\ \A i \in 1..n : v[i] = Filed(v[i - 1], paths[i])
  <2>1. n - k = n
    BY <1>2, <1>8
  <2> QED BY <1>7, <2>1
<1> DEFINE r == [i \in 0..n |-> v[i]]
<1>10. Starts(r)
  <2>1. ASSUME NEW i \in 0..n
        PROVE  r[i] = IF i = 0 THEN TopDirs ELSE Filed(r[i - 1], paths[i])
    <3>1. CASE i = 0
      BY <1>9, <3>1
    <3>2. CASE i # 0
      <4>1. i \in 1..n /\ i - 1 \in 0..n
        BY <1>2, <3>2
      <4>2. r[i - 1] = v[i - 1] /\ r[i] = v[i]
        BY <4>1
      <4> QED BY <1>9, <3>2, <4>1, <4>2
    <3> QED BY <3>1, <3>2
  <2>2. r = [i \in 0..n |-> r[i]]
    OBVIOUS
  <2> HIDE DEF r
  <2> QED BY <2>1, <2>2
<1>11. Starts(view)
  <2> HIDE DEF r, Starts
  <2> QED BY <1>10
<1> HIDE DEF view
<1>12. view[0] = TopDirs /\ \A i \in 1..n : view[i] = Filed(view[i - 1], paths[i])
  <2>1. \A i \in 0..n : view[i] = IF i = 0 THEN TopDirs ELSE Filed(view[i - 1], paths[i])
    BY <1>11
  <2>2. 0 \in 0..n /\ \A i \in 1..n : i \in 0..n /\ i # 0
    BY <1>2
  <2> HIDE DEF Starts
  <2> QED BY <2>1, <2>2
<1> HIDE DEF Starts
<1> DEFINE Bad == {i \in 0..n : ~Viewed(view[i])}
<1>13. Bad = {}
  <2> SUFFICES ASSUME Bad # {} PROVE FALSE
    OBVIOUS
  <2>1. PICK i \in Bad : \A h \in Bad : i <= h
    <3>1. Bad \subseteq 0..n
      OBVIOUS
    <3> HIDE DEF Bad
    <3> QED BY <1>2, <3>1, FirstNumber
  <2>2. i # 0
    BY <1>12, TopViewed
  <2>3. i \in 1..n /\ i - 1 \in 0..n /\ ~(i <= i - 1)
    BY <1>2, <2>2
  <2>4. Viewed(view[i - 1])
    BY <2>1, <2>3
  <2>5. Viewed(view[i])
    BY <1>4, <1>12, <2>3, <2>4, FiledViewed
  <2> QED BY <2>5
<1>14. n \in 0..n
  BY <1>2
<1> QED BY <1>3, <1>13, <1>14

(***************************************************************************)
(* The cache: the list in its slots. o is the list as the places it goes   *)
(* through, from the head.                                                 *)
(***************************************************************************)
SlotOK(s) == s = [key |-> s.key, value |-> s.value, prev |-> s.prev, next |-> s.next]
LruShape(l) ==
  /\ l = [slots |-> l.slots, free |-> l.free, map |-> l.map, head |-> l.head, tail |-> l.tail]
  /\ Len(l.slots) \in Nat /\ l.slots = [i \in 1..Len(l.slots) |-> l.slots[i]]

NextOf(o, j) == IF j = Len(o) THEN 0 ELSE o[j + 1]
PrevOf(o, j) == IF j = 1 THEN 0 ELSE o[j - 1]
Places(o, m) ==
  o \in Seq(1..m) /\ \A i, j \in 1..Len(o) : o[i] = o[j] => i = j
Chain(l, o) ==
  /\ Places(o, Len(l.slots))
  /\ \A j \in 1..Len(o) : /\ SlotOK(l.slots[o[j]])
                          /\ l.slots[o[j]].next = NextOf(o, j)
                          /\ l.slots[o[j]].prev = PrevOf(o, j)
  /\ l.head = IF Len(o) = 0 THEN 0 ELSE o[1]
  /\ l.tail = IF Len(o) = 0 THEN 0 ELSE o[Len(o)]

\* New links in slot i.
Relinked(s, t, i, pv, nx) ==
  /\ t = [j \in DOMAIN s |-> t[j]]
  /\ SlotOK(t[i]) /\ t[i].key = s[i].key /\ t[i].value = s[i].value
  /\ t[i].prev = pv /\ t[i].next = nx
  /\ \A j \in DOMAIN s \ {i} : t[j] = s[j]

LEMMA NextSet ==
  ASSUME NEW c, SlotOK(c), NEW x
  PROVE  [c EXCEPT !.next = x] = [key |-> c.key, value |-> c.value, prev |-> c.prev, next |-> x]
<1>1. DOMAIN c = {"key", "value", "prev", "next"}
  BY DEF SlotOK
<1> QED BY <1>1

LEMMA PrevSet ==
  ASSUME NEW c, SlotOK(c), NEW x
  PROVE  [c EXCEPT !.prev = x] = [key |-> c.key, value |-> c.value, prev |-> x, next |-> c.next]
<1>1. DOMAIN c = {"key", "value", "prev", "next"}
  BY DEF SlotOK
<1> QED BY <1>1

LEMMA SetNext ==
  ASSUME NEW s, s = [j \in DOMAIN s |-> s[j]], NEW i \in DOMAIN s, SlotOK(s[i]), NEW x
  PROVE  Relinked(s, [s EXCEPT ![i].next = x], i, s[i].prev, x)
<1>1. PICK t : t = [s EXCEPT ![i].next = x]
  OBVIOUS
<1>2. t[i] = [s[i] EXCEPT !.next = x] /\ t = [j \in DOMAIN s |-> t[j]]
      /\ \A j \in DOMAIN s \ {i} : t[j] = s[j]
  BY <1>1
<1>3. t[i] = [key |-> s[i].key, value |-> s[i].value, prev |-> s[i].prev, next |-> x]
  BY <1>2, NextSet
<1>4. t[i].key = s[i].key /\ t[i].value = s[i].value /\ t[i].prev = s[i].prev /\ t[i].next = x
  BY <1>3
<1> QED BY <1>1, <1>2, <1>3, <1>4, ZenonT(30) DEF Relinked, SlotOK

LEMMA SetPrev ==
  ASSUME NEW s, s = [j \in DOMAIN s |-> s[j]], NEW i \in DOMAIN s, SlotOK(s[i]), NEW x
  PROVE  Relinked(s, [s EXCEPT ![i].prev = x], i, x, s[i].next)
<1>1. PICK t : t = [s EXCEPT ![i].prev = x]
  OBVIOUS
<1>2. t[i] = [s[i] EXCEPT !.prev = x] /\ t = [j \in DOMAIN s |-> t[j]]
      /\ \A j \in DOMAIN s \ {i} : t[j] = s[j]
  BY <1>1
<1>3. t[i] = [key |-> s[i].key, value |-> s[i].value, prev |-> x, next |-> s[i].next]
  BY <1>2, PrevSet
<1>4. t[i].key = s[i].key /\ t[i].value = s[i].value /\ t[i].prev = x /\ t[i].next = s[i].next
  BY <1>3
<1> QED BY <1>1, <1>2, <1>3, <1>4, ZenonT(30) DEF Relinked, SlotOK

LEMMA SetBoth ==
  ASSUME NEW s, s = [j \in DOMAIN s |-> s[j]], NEW i \in DOMAIN s, SlotOK(s[i]), NEW x, NEW y
  PROVE  Relinked(s, [s EXCEPT ![i].prev = x, ![i].next = y], i, x, y)
<1>1. PICK t : t = [s EXCEPT ![i].prev = x]
  OBVIOUS
<1>2. Relinked(s, t, i, x, s[i].next)
  BY <1>1, SetPrev
<1>3. DOMAIN t = DOMAIN s /\ SlotOK(t[i]) /\ t = [j \in DOMAIN t |-> t[j]]
  BY <1>2 DEF Relinked
<1>4. PICK r : r = [t EXCEPT ![i].next = y]
  OBVIOUS
<1>5. Relinked(t, r, i, t[i].prev, y)
  BY <1>3, <1>4, SetNext
<1>6. r = [s EXCEPT ![i].prev = x, ![i].next = y]
  BY <1>1, <1>4
<1>7. Relinked(s, r, i, x, y)
  BY <1>2, <1>3, <1>5 DEF Relinked
<1> QED BY <1>6, <1>7

\* A list without its k-th element.
Drop(o, k) == [j \in 1..(Len(o) - 1) |-> IF j < k THEN o[j] ELSE o[j + 1]]

IsDrop(d, o, k) ==
  /\ Len(d) = Len(o) - 1
  /\ \A j \in 1..(Len(o) - 1) : d[j] = IF j < k THEN o[j] ELSE o[j + 1]

LEMMA DropIs ==
  ASSUME NEW S, NEW o \in Seq(S), NEW k \in 1..Len(o)
  PROVE  Drop(o, k) \in Seq(S) /\ IsDrop(Drop(o, k), o, k)
<1>1. PICK n \in Nat : n = Len(o)
  OBVIOUS
<1>2. \A j \in 1..(n - 1) : j \in 1..n /\ j + 1 \in 1..n
  BY <1>1
<1>3. \A j \in 1..(n - 1) : (IF j < k THEN o[j] ELSE o[j + 1]) \in S
  BY <1>1, <1>2
<1>4. n - 1 \in Nat
  BY <1>1
<1>5. Drop(o, k) \in [1..(n - 1) -> S]
  BY <1>1, <1>3 DEF Drop
<1> QED BY <1>1, <1>4, <1>5 DEF Drop, IsDrop

\* What unlink does to the slots: i is off the list, its neighbours know each other.
Freed(l, u, o, k) ==
  LET i == o[k]
      p == PrevOf(o, k)
      n == NextOf(o, k)
  IN  /\ LruShape(u) /\ Len(u.slots) = Len(l.slots) /\ u.free = l.free /\ u.map = l.map
      /\ \A j \in 1..Len(l.slots) \ {i, p, n} : u.slots[j] = l.slots[j]
      /\ \A j \in 1..Len(o) : /\ SlotOK(u.slots[o[j]])
                              /\ u.slots[o[j]].key = l.slots[o[j]].key
                              /\ u.slots[o[j]].value = l.slots[o[j]].value
                              /\ j # k /\ o[j] # p => u.slots[o[j]].next = l.slots[o[j]].next
                              /\ j # k /\ o[j] # n => u.slots[o[j]].prev = l.slots[o[j]].prev
                              /\ o[j] = p => u.slots[o[j]].next = n
                              /\ o[j] = n => u.slots[o[j]].prev = p
      /\ u.slots[i].prev = 0 /\ u.slots[i].next = 0
      /\ u.head = IF p = 0 THEN n ELSE l.head
      /\ u.tail = IF n = 0 THEN p ELSE l.tail

LEMMA UnlinkFrees ==
  ASSUME NEW l, LruShape(l), NEW o, Chain(l, o), NEW k \in 1..Len(o)
  PROVE  Freed(l, unlink(l, o[k]), o, k)
<1>1. PICK m \in Nat : m = Len(l.slots)
  BY DEF LruShape
<1>2. PICK c \in Nat : c = Len(o)
  BY DEF Chain, Places
<1>3. PICK i : i = o[k]
  OBVIOUS
<1>4. PICK p : p = PrevOf(o, k)
  OBVIOUS
<1>5. PICK n : n = NextOf(o, k)
  OBVIOUS
<1>6. \A j \in 1..c : o[j] \in 1..m /\ SlotOK(l.slots[o[j]])
  BY <1>1, <1>2 DEF Chain, Places
<1>7. \A a, b \in 1..c : o[a] = o[b] => a = b
  BY <1>2 DEF Chain, Places
<1>8. i \in 1..m /\ l.slots[i].prev = p /\ l.slots[i].next = n
  BY <1>2, <1>3, <1>4, <1>5, <1>6 DEF Chain
<1>9. p # 0 => k - 1 \in 1..c /\ p = o[k - 1] /\ p \in 1..m /\ p # i
  <2>1. p # 0 => k # 1 /\ p = o[k - 1]
    BY <1>4 DEF PrevOf
  <2>2. k # 1 => k - 1 \in 1..c /\ k - 1 # k
    BY <1>2
  <2> QED BY <1>2, <1>3, <1>6, <1>7, <2>1, <2>2
<1>10. n # 0 => k + 1 \in 1..c /\ n = o[k + 1] /\ n \in 1..m /\ n # i
  <2>1. n # 0 => k # c /\ n = o[k + 1]
    BY <1>2, <1>5 DEF NextOf
  <2>2. k # c => k + 1 \in 1..c /\ k + 1 # k
    BY <1>2
  <2> QED BY <1>2, <1>3, <1>6, <1>7, <2>1, <2>2
<1>11. p # 0 /\ n # 0 => p # n
  <2>1. k - 1 # k + 1
    BY <1>2
  <2> QED BY <1>7, <1>9, <1>10, <2>1
<1>12. PICK s : s = l.slots
  OBVIOUS
<1>13. DOMAIN s = 1..m /\ s = [j \in DOMAIN s |-> s[j]]
  BY <1>1, <1>12 DEF LruShape
<1>14. \A j \in 1..c : SlotOK(s[o[j]])
  BY <1>6, <1>12
<1>15. PICK s1 : s1 = IF p # 0 THEN [s EXCEPT ![p].next = n] ELSE s
  OBVIOUS
<1>16. PICK s2 : s2 = IF n # 0 THEN [s1 EXCEPT ![n].prev = p] ELSE s1
  OBVIOUS
<1>17. PICK s3 : s3 = [s2 EXCEPT ![i].prev = 0, ![i].next = 0]
  OBVIOUS
<1>18. /\ s1 = [j \in 1..m |-> s1[j]]
       /\ p # 0 => Relinked(s, s1, p, s[p].prev, n)
       /\ p = 0 => s1 = s
  <2>1. p # 0 => SlotOK(s[p]) /\ p \in DOMAIN s
    BY <1>9, <1>13, <1>14
  <2>2. p # 0 => Relinked(s, s1, p, s[p].prev, n)
    BY <1>13, <1>15, <2>1, SetNext
  <2> QED BY <1>13, <1>15, <2>2 DEF Relinked
<1>19. \A j \in 1..c : /\ SlotOK(s1[o[j]]) /\ s1[o[j]].key = s[o[j]].key
                       /\ s1[o[j]].value = s[o[j]].value /\ s1[o[j]].prev = s[o[j]].prev
                       /\ o[j] # p => s1[o[j]].next = s[o[j]].next
                       /\ o[j] = p => s1[o[j]].next = n
  <2>1. CASE p = 0
    <3>1. \A j \in 1..c : o[j] # p
      BY <1>6, <2>1
    <3> QED BY <1>14, <1>18, <2>1, <3>1
  <2>2. CASE p # 0
    <3>1. Relinked(s, s1, p, s[p].prev, n)
      BY <1>18, <2>2
    <3>2. \A j \in 1..c : o[j] \in DOMAIN s
      BY <1>6, <1>13
    <3> QED BY <1>14, <3>1, <3>2 DEF Relinked
  <2> QED BY <2>1, <2>2
<1>20. \A j \in 1..m \ {p} : s1[j] = s[j]
  BY <1>13, <1>18 DEF Relinked
<1>21. /\ s2 = [j \in 1..m |-> s2[j]]
       /\ n # 0 => Relinked(s1, s2, n, p, s1[n].next)
       /\ n = 0 => s2 = s1
  <2>1. n # 0 => SlotOK(s1[n]) /\ n \in DOMAIN s1
    BY <1>10, <1>18, <1>19
  <2>2. s1 = [j \in DOMAIN s1 |-> s1[j]] /\ DOMAIN s1 = 1..m
    BY <1>18
  <2>3. n # 0 => Relinked(s1, s2, n, p, s1[n].next)
    BY <1>16, <2>1, <2>2, SetPrev
  <2> QED BY <1>16, <1>18, <2>2, <2>3 DEF Relinked
<1>22. \A j \in 1..c : /\ SlotOK(s2[o[j]]) /\ s2[o[j]].key = s1[o[j]].key
                       /\ s2[o[j]].value = s1[o[j]].value /\ s2[o[j]].next = s1[o[j]].next
                       /\ o[j] # n => s2[o[j]].prev = s1[o[j]].prev
                       /\ o[j] = n => s2[o[j]].prev = p
  <2>1. CASE n = 0
    <3>1. \A j \in 1..c : o[j] # n
      BY <1>6, <2>1
    <3> QED BY <1>19, <1>21, <2>1, <3>1
  <2>2. CASE n # 0
    <3>1. Relinked(s1, s2, n, p, s1[n].next)
      BY <1>21, <2>2
    <3>2. \A j \in 1..c : o[j] \in DOMAIN s1
      BY <1>6, <1>18
    <3> QED BY <1>19, <3>1, <3>2 DEF Relinked
  <2> QED BY <2>1, <2>2
<1>23. \A j \in 1..m \ {n} : s2[j] = s1[j]
  BY <1>18, <1>21 DEF Relinked
<1>24. Relinked(s2, s3, i, 0, 0) /\ DOMAIN s2 = 1..m
  <2>1. DOMAIN s2 = 1..m /\ s2 = [j \in DOMAIN s2 |-> s2[j]]
    BY <1>21
  <2>2. i \in DOMAIN s2 /\ SlotOK(s2[i])
    BY <1>2, <1>3, <1>8, <1>22, <2>1
  <2> QED BY <1>17, <2>1, <2>2, SetBoth
<1>25. /\ s3 = [j \in 1..m |-> s3[j]]
       /\ SlotOK(s3[i]) /\ s3[i].key = s2[i].key /\ s3[i].value = s2[i].value
       /\ s3[i].prev = 0 /\ s3[i].next = 0
       /\ \A j \in 1..m \ {i} : s3[j] = s2[j]
  BY <1>24 DEF Relinked
<1>26. \A j \in 1..c : j # k => o[j] \in 1..m \ {i}
  BY <1>2, <1>3, <1>6, <1>7
<1>27. \A j \in 1..c : j # k => s3[o[j]] = s2[o[j]]
  BY <1>25, <1>26
<1>28. \A j \in 1..m \ {i, p, n} : s3[j] = s[j]
  BY <1>20, <1>23, <1>25
<1>29. \A j \in 1..c : SlotOK(s3[o[j]]) /\ s3[o[j]].key = s[o[j]].key
                       /\ s3[o[j]].value = s[o[j]].value
  <2>1. \A j \in 1..c : j = k => o[j] = i
    BY <1>3
  <2> QED BY <1>19, <1>22, <1>25, <1>27, <2>1
<1>30. i # p /\ i # n
  BY <1>8, <1>9, <1>10
<1>31. \A j \in 1..c : /\ j # k /\ o[j] # p => s3[o[j]].next = s[o[j]].next
                       /\ j # k /\ o[j] # n => s3[o[j]].prev = s[o[j]].prev
                       /\ o[j] = p => s3[o[j]].next = n
                       /\ o[j] = n => s3[o[j]].prev = p
  <2>1. \A j \in 1..c : o[j] = p \/ o[j] = n => j # k
    BY <1>3, <1>30
  <2> QED BY <1>19, <1>22, <1>27, <2>1
<1>32. PICK u : u = [slots |-> s3, free |-> l.free, map |-> l.map,
                     head |-> IF p = 0 THEN n ELSE l.head, tail |-> IF n = 0 THEN p ELSE l.tail]
  OBVIOUS
<1>33. unlink(l, i) = u
  <2>1. unlink(l, i) = [l EXCEPT !.slots = s3, !.head = IF p = 0 THEN n ELSE @,
                                 !.tail = IF n = 0 THEN p ELSE @]
    BY <1>8, <1>12, <1>15, <1>16, <1>17 DEF unlink
  <2>2. l = [slots |-> l.slots, free |-> l.free, map |-> l.map, head |-> l.head, tail |-> l.tail]
    BY DEF LruShape
  <2> QED BY <1>32, <2>1, <2>2
<1>34. Len(s3) = m
  BY <1>25
<1>35. u.slots = s3 /\ u.free = l.free /\ u.map = l.map
       /\ u.head = (IF p = 0 THEN n ELSE l.head) /\ u.tail = (IF n = 0 THEN p ELSE l.tail)
  BY <1>32
<1>36. LruShape(u)
  BY <1>25, <1>32, <1>34, <1>35, SMTT(30) DEF LruShape
<1>37. Freed(l, u, o, k)
  BY <1>1, <1>2, <1>3, <1>4, <1>5, <1>12, <1>25, <1>28, <1>29, <1>31, <1>34, <1>35, <1>36 DEF Freed
<1> QED BY <1>3, <1>33, <1>37

LEMMA FreedChain ==
  ASSUME NEW l, LruShape(l), NEW o, Chain(l, o), NEW k \in 1..Len(o), NEW u, Freed(l, u, o, k)
  PROVE  Chain(u, Drop(o, k)) /\ \A j \in 1..Len(Drop(o, k)) : Drop(o, k)[j] # o[k]
<1>1. PICK m \in Nat : m = Len(l.slots) /\ m = Len(u.slots)
  BY DEF LruShape, Freed
<1>2. PICK c \in Nat : c = Len(o)
  BY DEF Chain, Places
<1>3. PICK d : d = Drop(o, k)
  OBVIOUS
<1>4. o \in Seq(1..m) /\ \A a, b \in 1..c : o[a] = o[b] => a = b
  BY <1>1, <1>2 DEF Chain, Places
<1>5. d \in Seq(1..m) /\ Len(d) = c - 1 /\ k \in 1..c
      /\ \A j \in 1..(c - 1) : d[j] = IF j < k THEN o[j] ELSE o[j + 1]
  BY <1>2, <1>3, <1>4, DropIs DEF IsDrop
<1>6. PICK p : p = PrevOf(o, k)
  OBVIOUS
<1>7. PICK n : n = NextOf(o, k)
  OBVIOUS
<1>8. \A j \in 1..c : o[j] \in 1..m /\ o[j] # 0
  BY <1>2, <1>4
<1>9. \A j \in 1..c : o[j] = p <=> k # 1 /\ j = k - 1
  <2>1. k # 1 => k - 1 \in 1..c /\ p = o[k - 1]
    BY <1>5, <1>6 DEF PrevOf
  <2>2. k = 1 => p = 0
    BY <1>6 DEF PrevOf
  <2> QED BY <1>4, <1>8, <2>1, <2>2
<1>10. \A j \in 1..c : o[j] = n <=> k # c /\ j = k + 1
  <2>1. k # c => k + 1 \in 1..c /\ n = o[k + 1]
    BY <1>2, <1>5, <1>7 DEF NextOf
  <2>2. k = c => n = 0
    BY <1>2, <1>7 DEF NextOf
  <2> QED BY <1>4, <1>8, <2>1, <2>2
<1>11. \A j \in 1..c : l.slots[o[j]].next = NextOf(o, j) /\ l.slots[o[j]].prev = PrevOf(o, j)
  BY <1>2 DEF Chain
<1>12. \A j \in 1..c : /\ SlotOK(u.slots[o[j]])
                       /\ j # k /\ o[j] # p => u.slots[o[j]].next = l.slots[o[j]].next
                       /\ j # k /\ o[j] # n => u.slots[o[j]].prev = l.slots[o[j]].prev
                       /\ o[j] = p => u.slots[o[j]].next = n
                       /\ o[j] = n => u.slots[o[j]].prev = p
  BY <1>2, <1>6, <1>7 DEF Freed
<1>13. ASSUME NEW j \in 1..(c - 1)
       PROVE  /\ SlotOK(u.slots[d[j]]) /\ d[j] # o[k]
              /\ u.slots[d[j]].next = NextOf(d, j) /\ u.slots[d[j]].prev = PrevOf(d, j)
  <2>1. PICK h : h = IF j < k THEN j ELSE j + 1
    OBVIOUS
  <2>2. h \in 1..c /\ h # k /\ d[j] = o[h]
    <3>1. k \in 1..c /\ d[j] = IF j < k THEN o[j] ELSE o[j + 1]
      BY <1>5
    <3>2. k \in 1..c
      BY <3>1
    <3>3. h \in 1..c /\ h # k
      BY <2>1, <3>2
    <3> QED BY <2>1, <3>1, <3>3
  <2>3. SlotOK(u.slots[d[j]]) /\ d[j] # o[k]
    BY <1>4, <1>5, <1>12, <2>2
  <2>4. u.slots[o[h]].next = IF k # 1 /\ h = k - 1 THEN n ELSE NextOf(o, h)
    BY <1>9, <1>11, <1>12, <2>2
  <2>5. u.slots[o[h]].prev = IF k # c /\ h = k + 1 THEN p ELSE PrevOf(o, h)
    BY <1>10, <1>11, <1>12, <2>2
  <2>6. (IF k # 1 /\ h = k - 1 THEN n ELSE NextOf(o, h)) = NextOf(d, j)
    <3>1. NextOf(d, j) = IF j = c - 1 THEN 0 ELSE d[j + 1]
      BY <1>5 DEF NextOf
    <3>2. n = IF k = c THEN 0 ELSE o[k + 1]
      BY <1>2, <1>7 DEF NextOf
    <3>3. NextOf(o, h) = IF h = c THEN 0 ELSE o[h + 1]
      BY <1>2 DEF NextOf
    <3>4. j # c - 1 => d[j + 1] = IF j + 1 < k THEN o[j + 1] ELSE o[j + 1 + 1]
      <4>1. j # c - 1 => j + 1 \in 1..(c - 1)
        BY <1>2
      <4> QED BY <1>5, <4>1
    <3>5. CASE k # 1 /\ h = k - 1
      <4>1. j = k - 1 /\ j < k /\ ~(j + 1 < k) /\ j + 1 + 1 = k + 1 /\ (j = c - 1 <=> k = c)
        BY <1>2, <1>5, <2>1, <3>5, SMTT(30)
      <4> QED BY <3>1, <3>2, <3>4, <3>5, <4>1
    <3>6. CASE j < k - 1
      <4>1. h = j /\ j + 1 < k /\ j # c - 1 /\ h # c /\ h # k - 1
        BY <1>2, <1>5, <2>1, <3>6, SMTT(30)
      <4> QED BY <3>1, <3>3, <3>4, <4>1
    <3>7. CASE ~(j < k)
      <4>1. h = j + 1 /\ ~(j + 1 < k) /\ (j = c - 1 <=> h = c) /\ h # k - 1 /\ h + 1 = j + 1 + 1
        BY <1>2, <1>5, <2>1, <3>7
      <4> QED BY <3>1, <3>3, <3>4, <4>1
    <3>8. (k # 1 /\ h = k - 1) \/ j < k - 1 \/ ~(j < k)
      BY <1>5, <2>1
    <3> QED BY <3>5, <3>6, <3>7, <3>8
  <2>7. (IF k # c /\ h = k + 1 THEN p ELSE PrevOf(o, h)) = PrevOf(d, j)
    <3>1. PrevOf(d, j) = IF j = 1 THEN 0 ELSE d[j - 1]
      BY DEF PrevOf
    <3>2. p = IF k = 1 THEN 0 ELSE o[k - 1]
      BY <1>6 DEF PrevOf
    <3>3. PrevOf(o, h) = IF h = 1 THEN 0 ELSE o[h - 1]
      BY DEF PrevOf
    <3>4. j # 1 => d[j - 1] = IF j - 1 < k THEN o[j - 1] ELSE o[j]
      <4>1. j # 1 => j - 1 \in 1..(c - 1) /\ j - 1 + 1 = j
        BY <1>2
      <4> QED BY <1>5, <4>1
    <3>5. CASE j = k
      <4>1. h = k + 1 /\ k # c /\ j - 1 < k /\ (j = 1 <=> k = 1)
        BY <1>2, <1>5, <2>1, <3>5
      <4> QED BY <3>1, <3>2, <3>4, <3>5, <4>1
    <3>6. CASE j < k
      <4>1. h = j /\ h # k + 1 /\ j - 1 < k
        BY <1>2, <1>5, <2>1, <3>6
      <4> QED BY <3>1, <3>3, <3>4, <4>1
    <3>7. CASE j > k
      <4>1. h = j + 1 /\ ~(j - 1 < k) /\ j # 1 /\ h # k + 1 /\ h # 1 /\ h - 1 = j
        BY <1>2, <1>5, <2>1, <3>7
      <4> QED BY <3>1, <3>3, <3>4, <4>1
    <3>8. j = k \/ j < k \/ j > k
      BY <1>5
    <3> QED BY <3>5, <3>6, <3>7, <3>8
  <2> QED BY <2>2, <2>3, <2>4, <2>5, <2>6, <2>7
<1>14. \A a, b \in 1..(c - 1) : d[a] = d[b] => a = b
  <2> SUFFICES ASSUME NEW a \in 1..(c - 1), NEW b \in 1..(c - 1), d[a] = d[b] PROVE a = b
    OBVIOUS
  <2>1. PICK x : x = IF a < k THEN a ELSE a + 1
    OBVIOUS
  <2>2. PICK y : y = IF b < k THEN b ELSE b + 1
    OBVIOUS
  <2>3. x \in 1..c /\ y \in 1..c /\ d[a] = o[x] /\ d[b] = o[y]
    BY <1>5, <2>1, <2>2, SMTT(30)
  <2>4. x = y
    BY <1>4, <2>3
  <2> QED BY <1>5, <2>1, <2>2, <2>4
<1>15. Places(d, m)
  BY <1>5, <1>14 DEF Places
<1>16. l.head = (IF c = 0 THEN 0 ELSE o[1]) /\ l.tail = (IF c = 0 THEN 0 ELSE o[c])
  BY <1>2 DEF Chain
<1>17. u.head = (IF p = 0 THEN n ELSE l.head) /\ u.tail = (IF n = 0 THEN p ELSE l.tail)
  BY <1>6, <1>7 DEF Freed
<1>18. (p = 0 <=> k = 1) /\ (n = 0 <=> k = c) /\ (k # 1 => p = o[k - 1]) /\ (k # c => n = o[k + 1])
  <2>1. k # 1 => k - 1 \in 1..c
    BY <1>5
  <2>2. k # c => k + 1 \in 1..c
    BY <1>2, <1>5
  <2> QED BY <1>2, <1>6, <1>7, <1>8, <2>1, <2>2 DEF PrevOf, NextOf
<1>19. u.head = IF Len(d) = 0 THEN 0 ELSE d[1]
  <2>1. CASE c = 1
    <3>1. k = 1 /\ k = c
      BY <1>5, <2>1
    <3> QED BY <1>5, <1>17, <1>18, <2>1, <3>1
  <2>2. CASE c # 1
    <3>1. Len(d) # 0 /\ 1 \in 1..(c - 1) /\ c # 0
      BY <1>2, <1>5, <2>2
    <3>2. d[1] = IF k = 1 THEN o[2] ELSE o[1]
      BY <1>5, <3>1
    <3>3. k = 1 => n = o[2]
      BY <1>18, <2>2
    <3> QED BY <1>16, <1>17, <1>18, <3>1, <3>2, <3>3
  <2> QED BY <2>1, <2>2
<1>20. u.tail = IF Len(d) = 0 THEN 0 ELSE d[Len(d)]
  <2>1. CASE c = 1
    <3>1. k = 1 /\ k = c
      BY <1>5, <2>1
    <3> QED BY <1>5, <1>17, <1>18, <2>1, <3>1
  <2>2. CASE c # 1
    <3>1. Len(d) # 0 /\ c - 1 \in 1..(c - 1) /\ c # 0 /\ c - 1 + 1 = c
      BY <1>2, <1>5, <2>2
    <3>2. d[c - 1] = IF k = c THEN o[c - 1] ELSE o[c]
      BY <1>5, <3>1
    <3>3. k = c => p = o[c - 1]
      BY <1>18, <2>2
    <3> QED BY <1>5, <1>16, <1>17, <1>18, <3>1, <3>2, <3>3
  <2> QED BY <2>1, <2>2
<1>21. \A j \in 1..Len(d) : /\ SlotOK(u.slots[d[j]]) /\ d[j] # o[k]
                            /\ u.slots[d[j]].next = NextOf(d, j)
                            /\ u.slots[d[j]].prev = PrevOf(d, j)
  BY <1>5, <1>13
<1>22. Chain(u, d)
  BY <1>1, <1>15, <1>19, <1>20, <1>21 DEF Chain
<1> QED BY <1>3, <1>21, <1>22

\* A list with one more element in front.
IsCons(s, x, o) ==
  /\ Len(s) = Len(o) + 1 /\ s[1] = x
  /\ \A j \in 1..Len(o) : s[j + 1] = o[j]

LEMMA ConsIs ==
  ASSUME NEW S, NEW o \in Seq(S), NEW x \in S
  PROVE  Cons(x, o) \in Seq(S) /\ IsCons(Cons(x, o), x, o)
<1>1. PICK a : a = << x >>
  OBVIOUS
<1>2. PICK c \in Nat : c = Len(o)
  OBVIOUS
<1>3. a \in Seq(S) /\ Len(a) = 1 /\ a[1] = x
  BY <1>1
<1>6. PICK s : /\ s = a \o o /\ s \in Seq(S) /\ Len(s) = Len(a) + Len(o)
               /\ \A j \in 1..(Len(a) + Len(o)) :
                     s[j] = IF j <= Len(a) THEN a[j] ELSE o[j - Len(a)]
  <2>1. /\ a \o o \in Seq(S) /\ Len(a \o o) = Len(a) + Len(o)
        /\ \A j \in 1..(Len(a) + Len(o)) :
              (a \o o)[j] = IF j <= Len(a) THEN a[j] ELSE o[j - Len(a)]
    BY <1>3, ConcatProperties, Zenon
  <2> QED BY <2>1, Zenon
<1>7. s \in Seq(S) /\ Len(s) = 1 + c
  BY <1>2, <1>3, <1>6
<1>8. \A j \in 1..(1 + c) : s[j] = IF j <= 1 THEN a[j] ELSE o[j - 1]
  BY <1>2, <1>3, <1>6
<1>4. \A j \in 1..c : s[j + 1] = o[j]
  <2>1. \A j \in 1..c : j + 1 \in 1..(1 + c) /\ ~(j + 1 <= 1) /\ (j + 1) - 1 = j
    BY <1>2
  <2> QED BY <1>8, <2>1
<1>5. s[1] = x
  BY <1>2, <1>3, <1>8
<1>9. s = Cons(x, o)
  BY <1>1, <1>6, Zenon DEF Cons
<1>10. IsCons(s, x, o)
  BY <1>2, <1>4, <1>5, <1>7 DEF IsCons
<1> QED BY <1>7, <1>9, <1>10

\* What push_front does to the slots.
Pushed(l, u, i) ==
  /\ LruShape(u) /\ Len(u.slots) = Len(l.slots) /\ u.free = l.free /\ u.map = l.map
  /\ SlotOK(u.slots[i]) /\ u.slots[i].key = l.slots[i].key /\ u.slots[i].value = l.slots[i].value
  /\ u.slots[i].prev = 0 /\ u.slots[i].next = l.head
  /\ \A j \in 1..Len(l.slots) \ {i, l.head} : u.slots[j] = l.slots[j]
  /\ l.head # 0 => LET h == l.head
                   IN  /\ SlotOK(u.slots[h]) /\ u.slots[h].key = l.slots[h].key
                       /\ u.slots[h].value = l.slots[h].value
                       /\ u.slots[h].prev = i /\ u.slots[h].next = l.slots[h].next
  /\ u.head = i /\ u.tail = IF l.tail = 0 THEN i ELSE l.tail

LEMMA PushIs ==
  ASSUME NEW l, LruShape(l), NEW i \in 1..Len(l.slots), SlotOK(l.slots[i]),
         l.head # 0 => l.head \in 1..Len(l.slots) \ {i} /\ SlotOK(l.slots[l.head])
  PROVE  Pushed(l, push_front(l, i), i)
<1>1. PICK m \in Nat : m = Len(l.slots)
  BY DEF LruShape
<1>2. PICK s : s = l.slots
  OBVIOUS
<1>3. PICK h : h = l.head
  OBVIOUS
<1>4. DOMAIN s = 1..m /\ s = [j \in DOMAIN s |-> s[j]]
  BY <1>1, <1>2 DEF LruShape
<1>5. PICK s1 : s1 = [s EXCEPT ![i].prev = 0, ![i].next = h]
  OBVIOUS
<1>6. PICK s2 : s2 = IF h # 0 THEN [s1 EXCEPT ![h].prev = i] ELSE s1
  OBVIOUS
<1>7. Relinked(s, s1, i, 0, h)
  BY <1>1, <1>2, <1>4, <1>5, SetBoth
<1>8. s1 = [j \in 1..m |-> s1[j]] /\ DOMAIN s1 = 1..m /\ \A j \in 1..m \ {i} : s1[j] = s[j]
  BY <1>4, <1>7 DEF Relinked
<1>9. SlotOK(s1[i]) /\ s1[i].key = s[i].key /\ s1[i].value = s[i].value /\ s1[i].prev = 0
      /\ s1[i].next = h
  BY <1>7 DEF Relinked
<1>10. h # 0 => h \in 1..m \ {i} /\ s1[h] = s[h] /\ SlotOK(s1[h])
  BY <1>1, <1>2, <1>3, <1>8
<1>11. h # 0 => Relinked(s1, s2, h, i, s1[h].next)
  BY <1>6, <1>8, <1>10, SetPrev
<1>12. h = 0 => s2 = s1
  BY <1>6
<1>13. /\ s2 = [j \in 1..m |-> s2[j]]
       /\ h # 0 => /\ SlotOK(s2[h]) /\ s2[h].key = s[h].key /\ s2[h].value = s[h].value
                   /\ s2[h].prev = i /\ s2[h].next = s[h].next
       /\ \A j \in 1..m \ {h} : s2[j] = s1[j]
  BY <1>8, <1>10, <1>11, <1>12 DEF Relinked
<1>14. s2[i] = s1[i]
  BY <1>1, <1>10, <1>12, <1>13
<1>15. \A j \in 1..m \ {i, h} : s2[j] = s[j]
  BY <1>8, <1>13
<1>16. PICK u : u = [slots |-> s2, free |-> l.free, map |-> l.map,
                     head |-> i, tail |-> IF l.tail = 0 THEN i ELSE l.tail]
  OBVIOUS
<1>17. push_front(l, i) = u
  <2>1. push_front(l, i) = [l EXCEPT !.slots = s2, !.head = i, !.tail = IF @ = 0 THEN i ELSE @]
    BY <1>2, <1>3, <1>5, <1>6 DEF push_front
  <2>2. l = [slots |-> l.slots, free |-> l.free, map |-> l.map, head |-> l.head, tail |-> l.tail]
    BY DEF LruShape
  <2> QED BY <1>16, <2>1, <2>2
<1>18. u.slots = s2 /\ u.free = l.free /\ u.map = l.map /\ u.head = i
       /\ u.tail = (IF l.tail = 0 THEN i ELSE l.tail)
  BY <1>16
<1>19. Len(s2) = m
  BY <1>13
<1>20. LruShape(u)
  BY <1>13, <1>16, <1>18, <1>19 DEF LruShape
<1>21. Pushed(l, u, i)
  BY <1>1, <1>2, <1>3, <1>9, <1>13, <1>14, <1>15, <1>18, <1>19, <1>20 DEF Pushed
<1> QED BY <1>17, <1>21

LEMMA PushedChain ==
  ASSUME NEW l, LruShape(l), NEW o, Chain(l, o), NEW i \in 1..Len(l.slots), SlotOK(l.slots[i]),
         \A j \in 1..Len(o) : o[j] # i
  PROVE  Pushed(l, push_front(l, i), i) /\ Chain(push_front(l, i), Cons(i, o))
<1>1. PICK m \in Nat : m = Len(l.slots)
  BY DEF LruShape
<1>2. PICK c \in Nat : c = Len(o)
  BY DEF Chain, Places
<1>3. PICK u : u = push_front(l, i)
  OBVIOUS
<1>4. PICK h : h = l.head
  OBVIOUS
<1>5. o \in Seq(1..m) /\ \A a, b \in 1..c : o[a] = o[b] => a = b
  BY <1>1, <1>2 DEF Chain, Places
<1>6. \A j \in 1..c : o[j] \in 1..m /\ o[j] # 0 /\ o[j] # i
  BY <1>2, <1>5
<1>7. \A j \in 1..c : /\ SlotOK(l.slots[o[j]]) /\ l.slots[o[j]].next = NextOf(o, j)
                      /\ l.slots[o[j]].prev = PrevOf(o, j)
  BY <1>2 DEF Chain
<1>8. h = (IF c = 0 THEN 0 ELSE o[1]) /\ l.tail = (IF c = 0 THEN 0 ELSE o[c])
  BY <1>2, <1>4 DEF Chain
<1>9. (h = 0 <=> c = 0) /\ (l.tail = 0 <=> c = 0) /\ (c # 0 => h = o[1] /\ l.tail = o[c])
  <2>1. c # 0 => 1 \in 1..c /\ c \in 1..c
    BY <1>2
  <2> QED BY <1>6, <1>8, <2>1
<1>10. h # 0 => h \in 1..m \ {i} /\ SlotOK(l.slots[h])
  <2>1. c # 0 => 1 \in 1..c
    BY <1>2
  <2> QED BY <1>6, <1>7, <1>9, <2>1
<1>11. Pushed(l, u, i)
  BY <1>1, <1>3, <1>4, <1>10, PushIs
<1>12. PICK d \in Seq(1..m) : /\ d = Cons(i, o) /\ Len(d) = c + 1 /\ d[1] = i
                              /\ \A j \in 1..c : d[j + 1] = o[j]
  <2>1. i \in 1..m
    BY <1>1
  <2>2. Cons(i, o) \in Seq(1..m) /\ IsCons(Cons(i, o), i, o)
    BY <1>5, <2>1, ConsIs
  <2> QED BY <1>2, <2>2 DEF IsCons
<1>13. \A a, b \in 1..(c + 1) : d[a] = d[b] => a = b
  <2> SUFFICES ASSUME NEW a \in 1..(c + 1), NEW b \in 1..(c + 1), d[a] = d[b] PROVE a = b
    OBVIOUS
  <2>1. \A j \in 1..(c + 1) : j = 1 \/ (j - 1 \in 1..c /\ (j - 1) + 1 = j)
    BY <1>2
  <2>2. ASSUME NEW j \in 1..(c + 1), j # 1 PROVE d[j] = o[j - 1] /\ j - 1 \in 1..c
    <3>1. PICK q \in 1..c : q = j - 1 /\ j = q + 1
      BY <2>1, <2>2
    <3> QED BY <1>12, <3>1
  <2>3. a = 1 <=> b = 1
    BY <1>6, <1>12, <2>2, ZenonT(30)
  <2>4. CASE a # 1
    <3>1. a - 1 = b - 1
      BY <1>5, <2>2, <2>3, <2>4
    <3> QED BY <3>1
  <2> QED BY <2>3, <2>4
<1>14. ASSUME NEW j \in 1..(c + 1)
       PROVE  /\ SlotOK(u.slots[d[j]])
              /\ u.slots[d[j]].next = NextOf(d, j) /\ u.slots[d[j]].prev = PrevOf(d, j)
  <2>1. CASE j = 1
    <3>1. SlotOK(u.slots[i]) /\ u.slots[i].prev = 0 /\ u.slots[i].next = h
      BY <1>4, <1>11 DEF Pushed
    <3>2. PrevOf(d, j) = 0
      BY <2>1 DEF PrevOf
    <3>3. NextOf(d, j) = h
      <4>1. c # 0 => 1 \in 1..c /\ d[1 + 1] = o[1]
        <5>1. \A q \in 1..c : d[q + 1] = o[q]
          BY <1>12
        <5>2. c # 0 => 1 \in 1..c
          OBVIOUS
        <5> QED BY <5>1, <5>2
      <4>2. NextOf(d, 1) = IF 1 = c + 1 THEN 0 ELSE d[1 + 1]
        BY <1>12 DEF NextOf
      <4> QED BY <1>2, <1>9, <2>1, <4>1, <4>2
    <3> QED BY <1>12, <2>1, <3>1, <3>2, <3>3
  <2>2. CASE j # 1
    <3>1. PICK q \in 1..c : q = j - 1 /\ j = q + 1
      BY <1>2, <2>2
    <3>2. d[j] = o[q]
      BY <1>12, <3>1
    <3>3. NextOf(d, j) = NextOf(o, q)
      <4>1. q # c => q + 1 \in 1..c /\ d[(q + 1) + 1] = o[q + 1]
        <5>1. \A r \in 1..c : d[r + 1] = o[r]
          BY <1>12
        <5>2. q # c => q + 1 \in 1..c
          OBVIOUS
        <5> QED BY <5>1, <5>2
      <4>2. NextOf(d, j) = IF q + 1 = c + 1 THEN 0 ELSE d[(q + 1) + 1]
        BY <1>12, <3>1 DEF NextOf
      <4>3. NextOf(o, q) = IF q = c THEN 0 ELSE o[q + 1]
        BY <1>2 DEF NextOf
      <4>4. q + 1 = c + 1 <=> q = c
        BY <1>2
      <4> QED BY <4>1, <4>2, <4>3, <4>4
    <3>4. PrevOf(d, j) = d[q]
      BY <2>2, <3>1 DEF PrevOf
    <3>5. CASE q = 1
      <4>1. d[j] = h /\ h # 0 /\ PrevOf(d, j) = i
        <5>1. c # 0
          BY <3>1
        <5>2. d[j] = o[1] /\ PrevOf(d, j) = d[1]
          BY <3>2, <3>4, <3>5
        <5> QED BY <1>9, <1>12, <5>1, <5>2
      <4>2. /\ SlotOK(u.slots[h]) /\ u.slots[h].prev = i
            /\ u.slots[h].next = l.slots[h].next
        BY <1>4, <1>11, <4>1 DEF Pushed
      <4>3. l.slots[h].next = NextOf(o, q)
        BY <1>7, <3>1, <3>2, <4>1
      <4> QED BY <3>3, <4>1, <4>2, <4>3
    <3>6. CASE q # 1
      <4>1. PICK r \in 1..c : r = q - 1 /\ q = r + 1
        BY <3>1, <3>6
      <4>2. d[q] = o[r] /\ PrevOf(o, q) = o[r]
        BY <1>12, <3>6, <4>1 DEF PrevOf
      <4>3. 1 \in 1..c /\ o[q] # o[1]
        BY <1>2, <1>5, <3>1, <3>6
      <4>4. o[q] \in 1..m \ {i, h}
        BY <1>6, <1>9, <3>1, <4>3
      <4>5. u.slots[o[q]] = l.slots[o[q]]
        BY <1>1, <1>4, <1>11, <4>4 DEF Pushed
      <4> QED BY <1>7, <3>1, <3>2, <3>3, <3>4, <4>2, <4>5
    <3> QED BY <3>5, <3>6
  <2> QED BY <2>1, <2>2
<1>15. u.head = IF Len(d) = 0 THEN 0 ELSE d[1]
  <2>1. u.head = i
    BY <1>11 DEF Pushed
  <2> QED BY <1>2, <1>12, <2>1
<1>16. u.tail = IF Len(d) = 0 THEN 0 ELSE d[Len(d)]
  <2>1. u.tail = IF l.tail = 0 THEN i ELSE l.tail
    BY <1>11 DEF Pushed
  <2>2. c # 0 => d[c + 1] = o[c]
    BY <1>2, <1>12
  <2> QED BY <1>2, <1>9, <1>12, <2>1, <2>2
<1>17. Len(u.slots) = m
  BY <1>1, <1>11 DEF Pushed
<1>18. Chain(u, d)
  BY <1>12, <1>13, <1>14, <1>15, <1>16, <1>17 DEF Chain, Places
<1> QED BY <1>3, <1>11, <1>12, <1>18

\* The keys in the order of their use, u, and the stack of free slots.
KeysOK(l, o, u, K) ==
  /\ u \in Seq(K) /\ Len(u) = Len(o)
  /\ l.map = [x \in ToSet(u) |-> l.map[x]]
  /\ \A j \in 1..Len(o) : l.map[u[j]] = o[j] /\ l.slots[o[j]].key = u[j]
FreeOK(l, o) ==
  /\ l.free \in Seq(1..Len(l.slots))
  /\ \A i, j \in 1..Len(l.free) : l.free[i] = l.free[j] => i = j
  /\ \A i \in 1..Len(l.slots) :
        (\E j \in 1..Len(l.free) : l.free[j] = i) <=> (\A j \in 1..Len(o) : o[j] # i)
  /\ \A j \in 1..Len(l.free) : l.slots[l.free[j]] = EmptySlot
LruOK(l, o, u, K) == LruShape(l) /\ Chain(l, o) /\ KeysOK(l, o, u, K) /\ FreeOK(l, o)

LEMMA InSeq ==
  ASSUME NEW S, NEW s \in Seq(S)
  PROVE  /\ \A x : x \in ToSet(s) <=> \E j \in 1..Len(s) : s[j] = x
         /\ \A j \in 1..Len(s) : s[j] \in S
         /\ s = [j \in 1..Len(s) |-> s[j]]
<1>1. DOMAIN s = 1..Len(s)
  OBVIOUS
<1> QED BY <1>1 DEF ToSet

\* Two lists that are the same pairs in another order.
SamePairs(o, u, p, v) ==
  /\ Len(p) = Len(o) /\ Len(v) = Len(u)
  /\ \A j \in 1..Len(o) : \E h \in 1..Len(o) : p[j] = o[h] /\ v[j] = u[h]
  /\ \A h \in 1..Len(o) : \E j \in 1..Len(o) : p[j] = o[h] /\ v[j] = u[h]

\* All pairs but the k-th.
PairsWithout(o, u, k, d, e) ==
  /\ \A j \in 1..(Len(o) - 1) : \E h \in 1..Len(o) \ {k} : d[j] = o[h] /\ e[j] = u[h]
  /\ \A h \in 1..Len(o) \ {k} : \E j \in 1..(Len(o) - 1) : d[j] = o[h] /\ e[j] = u[h]

LEMMA DropPairs ==
  ASSUME NEW S, NEW T, NEW o \in Seq(S), NEW u \in Seq(T), Len(u) = Len(o), NEW k \in 1..Len(o)
  PROVE  PairsWithout(o, u, k, Drop(o, k), Drop(u, k))
<1>1. PICK c \in Nat : c = Len(o) /\ c = Len(u)
  OBVIOUS
<1>2. \A j \in 1..(c - 1) : Drop(o, k)[j] = IF j < k THEN o[j] ELSE o[j + 1]
  <2>1. IsDrop(Drop(o, k), o, k)
    BY DropIs
  <2> QED BY <1>1, <2>1 DEF IsDrop
<1>3. \A j \in 1..(c - 1) : Drop(u, k)[j] = IF j < k THEN u[j] ELSE u[j + 1]
  <2>1. k \in 1..Len(u)
    BY <1>1
  <2>2. IsDrop(Drop(u, k), u, k)
    BY <2>1, DropIs
  <2> QED BY <1>1, <2>2 DEF IsDrop
<1>4. ASSUME NEW j \in 1..(c - 1)
      PROVE  \E h \in 1..c \ {k} : Drop(o, k)[j] = o[h] /\ Drop(u, k)[j] = u[h]
  <2>1. CASE j < k
    <3>1. j \in 1..c \ {k}
      BY <1>1, <2>1
    <3> QED BY <1>2, <1>3, <2>1, <3>1
  <2>2. CASE ~(j < k)
    <3>1. j + 1 \in 1..c \ {k}
      BY <1>1, <2>2
    <3> QED BY <1>2, <1>3, <2>2, <3>1
  <2> QED BY <2>1, <2>2
<1>5. ASSUME NEW h \in 1..c \ {k}
      PROVE  \E j \in 1..(c - 1) : Drop(o, k)[j] = o[h] /\ Drop(u, k)[j] = u[h]
  <2>1. CASE h < k
    <3>1. h \in 1..(c - 1)
      BY <1>1, <2>1
    <3> QED BY <1>2, <1>3, <2>1, <3>1
  <2>2. CASE ~(h < k)
    <3>1. PICK j \in 1..(c - 1) : h = j + 1 /\ ~(j < k)
      <4>1. h - 1 \in 1..(c - 1) /\ h = (h - 1) + 1 /\ ~(h - 1 < k)
        BY <1>1, <2>2
      <4> QED BY <4>1
    <3> QED BY <1>2, <1>3, <3>1
  <2> QED BY <2>1, <2>2
<1> QED BY <1>1, <1>4, <1>5 DEF PairsWithout

LEMMA FrontPairs ==
  ASSUME NEW S, NEW T, NEW o \in Seq(S), NEW u \in Seq(T), Len(u) = Len(o), NEW k \in 1..Len(o)
  PROVE  /\ Cons(u[k], Drop(u, k)) \in Seq(T)
         /\ SamePairs(o, u, Cons(o[k], Drop(o, k)), Cons(u[k], Drop(u, k)))
<1>1. PICK c \in Nat : c = Len(o) /\ c = Len(u)
  OBVIOUS
<1>2. PICK d \in Seq(S) : d = Drop(o, k) /\ Len(d) = c - 1
  <2>1. Drop(o, k) \in Seq(S) /\ IsDrop(Drop(o, k), o, k)
    BY DropIs
  <2> QED BY <1>1, <2>1 DEF IsDrop
<1>3. PICK e \in Seq(T) : e = Drop(u, k) /\ Len(e) = c - 1
  <2>1. k \in 1..Len(u)
    BY <1>1
  <2>2. Drop(u, k) \in Seq(T) /\ IsDrop(Drop(u, k), u, k)
    BY <2>1, DropIs
  <2> QED BY <1>1, <2>2 DEF IsDrop
<1>4. o[k] \in S /\ u[k] \in T
  BY <1>1
<1>5. PICK p : p = Cons(o[k], d) /\ Len(p) = Len(d) + 1 /\ p[1] = o[k]
               /\ \A j \in 1..Len(d) : p[j + 1] = d[j]
  <2>1. IsCons(Cons(o[k], d), o[k], d)
    BY <1>4, ConsIs
  <2> QED BY <2>1 DEF IsCons
<1>6. PICK v : v = Cons(u[k], e) /\ v \in Seq(T) /\ Len(v) = Len(e) + 1 /\ v[1] = u[k]
               /\ \A j \in 1..Len(e) : v[j + 1] = e[j]
  <2>1. Cons(u[k], e) \in Seq(T) /\ IsCons(Cons(u[k], e), u[k], e)
    BY <1>4, ConsIs
  <2> QED BY <2>1 DEF IsCons
<1>7. Len(p) = c /\ Len(v) = c
  BY <1>1, <1>2, <1>3, <1>5, <1>6
<1>8. \A j \in 1..(c - 1) : p[j + 1] = d[j] /\ v[j + 1] = e[j]
  BY <1>2, <1>3, <1>5, <1>6
<1>14. PairsWithout(o, u, k, d, e)
  BY <1>1, <1>2, <1>3, DropPairs
<1>9. \A j \in 1..(c - 1) : \E h \in 1..c \ {k} : d[j] = o[h] /\ e[j] = u[h]
  BY <1>1, <1>14 DEF PairsWithout
<1>10. \A h \in 1..c \ {k} : \E j \in 1..(c - 1) : d[j] = o[h] /\ e[j] = u[h]
  BY <1>1, <1>14 DEF PairsWithout
<1>11. ASSUME NEW j \in 1..c PROVE \E h \in 1..c : p[j] = o[h] /\ v[j] = u[h]
  <2>1. CASE j = 1
    BY <1>1, <1>5, <1>6, <2>1
  <2>2. CASE j # 1
    <3>1. PICK i \in 1..(c - 1) : j = i + 1
      <4>1. j - 1 \in 1..(c - 1) /\ j = (j - 1) + 1
        BY <2>2
      <4> QED BY <4>1
    <3> QED BY <1>8, <1>9, <3>1, ZenonT(30)
  <2> QED BY <2>1, <2>2
<1>12. ASSUME NEW h \in 1..c PROVE \E j \in 1..c : p[j] = o[h] /\ v[j] = u[h]
  <2>1. CASE h = k
    <3>1. 1 \in 1..c
      BY <1>1
    <3> QED BY <1>5, <1>6, <2>1, <3>1
  <2>2. CASE h # k
    <3>1. PICK i \in 1..(c - 1) : d[i] = o[h] /\ e[i] = u[h]
      BY <1>10, <2>2
    <3>2. i + 1 \in 1..c
      BY <1>1
    <3> QED BY <1>8, <3>1, <3>2
  <2> QED BY <2>1, <2>2
<1>13. SamePairs(o, u, p, v)
  BY <1>1, <1>7, <1>11, <1>12 DEF SamePairs
<1> QED BY <1>2, <1>3, <1>5, <1>6, <1>13

\* What moves in the list keeps its slot, with key and value.
SameItems(l, v, o) ==
  /\ Len(v.slots) = Len(l.slots) /\ v.free = l.free /\ v.map = l.map
  /\ \A j \in 1..Len(o) : /\ v.slots[o[j]].key = l.slots[o[j]].key
                          /\ v.slots[o[j]].value = l.slots[o[j]].value
  /\ \A i \in 1..Len(l.slots) : (\A j \in 1..Len(o) : o[j] # i) => v.slots[i] = l.slots[i]

LEMMA FreedItems ==
  ASSUME NEW l, NEW o, NEW k \in 1..Len(o), NEW u, LruShape(l), Chain(l, o), Freed(l, u, o, k)
  PROVE  SameItems(l, u, o)
<1>1. PICK c \in Nat : c = Len(o)
  BY DEF Chain, Places
<1>2. PrevOf(o, k) = 0 \/ \E j \in 1..c : o[j] = PrevOf(o, k)
  <2>1. k # 1 => k - 1 \in 1..c
    BY <1>1
  <2> QED BY <2>1 DEF PrevOf
<1>3. NextOf(o, k) = 0 \/ \E j \in 1..c : o[j] = NextOf(o, k)
  <2>1. k # c => k + 1 \in 1..c
    BY <1>1
  <2> QED BY <1>1, <2>1 DEF NextOf
<1>4. \A i \in 1..Len(l.slots) : (\A j \in 1..Len(o) : o[j] # i) =>
         i \in 1..Len(l.slots) \ {o[k], PrevOf(o, k), NextOf(o, k)}
  BY <1>1, <1>2, <1>3 DEF LruShape
<1> QED BY <1>4 DEF Freed, SameItems

LEMMA PairsKept ==
  ASSUME NEW l, NEW o, NEW u, NEW K, LruOK(l, o, u, K), NEW v, LruShape(v), SameItems(l, v, o),
         NEW p, NEW w \in Seq(K), SamePairs(o, u, p, w), Chain(v, p)
  PROVE  /\ LruOK(v, p, w, K) /\ DOMAIN v.map = DOMAIN l.map
         /\ \A x \in DOMAIN l.map : peek(v, x) = peek(l, x)
<1>1. PICK c \in Nat : c = Len(o) /\ c = Len(u)
  BY DEF LruOK, KeysOK, Chain, Places
<1>2. c = Len(p) /\ c = Len(w) /\ u \in Seq(K)
  BY <1>1 DEF SamePairs, LruOK, KeysOK
<1>3. /\ \A j \in 1..c : \E h \in 1..c : p[j] = o[h] /\ w[j] = u[h]
      /\ \A h \in 1..c : \E j \in 1..c : p[j] = o[h] /\ w[j] = u[h]
  BY <1>1 DEF SamePairs
<1>4. ToSet(w) = ToSet(u)
  <2>1. \A x : x \in ToSet(u) <=> \E j \in 1..c : u[j] = x
    BY <1>1, <1>2, InSeq
  <2>2. \A x : x \in ToSet(w) <=> \E j \in 1..c : w[j] = x
    BY <1>2, InSeq
  <2> QED BY <1>3, <2>1, <2>2, ZenonT(30)
<1>5. /\ l.map = [x \in ToSet(u) |-> l.map[x]]
      /\ \A h \in 1..c : l.map[u[h]] = o[h] /\ l.slots[o[h]].key = u[h]
  BY <1>1 DEF LruOK, KeysOK
<1>6. v.map = l.map /\ \A h \in 1..c : v.slots[o[h]].key = l.slots[o[h]].key
                                      /\ v.slots[o[h]].value = l.slots[o[h]].value
  BY <1>1 DEF SameItems
<1>7. KeysOK(v, p, w, K)
  <2>1. v.map = [x \in ToSet(w) |-> v.map[x]]
    <3>1. PICK t : t = ToSet(u) /\ t = ToSet(w)
      BY <1>4
    <3>2. PICK f : f = l.map /\ f = v.map
      BY <1>6
    <3>3. f = [x \in t |-> f[x]]
      BY <1>5, <3>1, <3>2
    <3> QED BY <3>1, <3>2, <3>3
  <2>2. ASSUME NEW j \in 1..c PROVE v.map[w[j]] = p[j] /\ v.slots[p[j]].key = w[j]
    <3>1. PICK h \in 1..c : p[j] = o[h] /\ w[j] = u[h]
      BY <1>3
    <3>2. l.map[u[h]] = o[h] /\ l.slots[o[h]].key = u[h]
      BY <1>5
    <3>3. v.map = l.map /\ v.slots[o[h]].key = l.slots[o[h]].key
      BY <1>6
    <3> QED BY <3>1, <3>2, <3>3
  <2> QED BY <1>2, <2>1, <2>2 DEF KeysOK
<1>8. FreeOK(v, p)
  <2>1. \A i : (\A j \in 1..c : p[j] # i) <=> (\A j \in 1..c : o[j] # i)
    <3>1. \A j \in 1..c : \E h \in 1..c : p[j] = o[h]
      BY <1>3
    <3>2. \A h \in 1..c : \E j \in 1..c : p[j] = o[h]
      BY <1>3
    <3> QED BY <3>1, <3>2, Zenon
  <2>2. /\ l.free \in Seq(1..Len(l.slots))
        /\ \A i, j \in 1..Len(l.free) : l.free[i] = l.free[j] => i = j
        /\ \A i \in 1..Len(l.slots) :
              (\E j \in 1..Len(l.free) : l.free[j] = i) <=> (\A j \in 1..c : o[j] # i)
        /\ \A j \in 1..Len(l.free) : l.slots[l.free[j]] = EmptySlot
    BY <1>1 DEF LruOK, FreeOK
  <2>3. Len(v.slots) = Len(l.slots) /\ v.free = l.free
        /\ \A i \in 1..Len(l.slots) : (\A j \in 1..c : o[j] # i) => v.slots[i] = l.slots[i]
    BY <1>1 DEF SameItems
  <2>6. PICK f : f = l.free /\ f = v.free
    BY <2>3
  <2>7. PICK m : m = Len(l.slots) /\ m = Len(v.slots)
    BY <2>3
  <2>8. /\ f \in Seq(1..m) /\ \A i, j \in 1..Len(f) : f[i] = f[j] => i = j
        /\ \A i \in 1..m : (\E j \in 1..Len(f) : f[j] = i) <=> (\A j \in 1..c : p[j] # i)
    <3>1. f \in Seq(1..m) /\ \A i, j \in 1..Len(f) : f[i] = f[j] => i = j
      BY <2>2, <2>6, <2>7, Zenon
    <3>2. \A i \in 1..m : (\E j \in 1..Len(f) : f[j] = i) <=> (\A j \in 1..c : o[j] # i)
      BY <2>2, <2>6, <2>7, Zenon
    <3>3. ASSUME NEW i \in 1..m
          PROVE (\E j \in 1..Len(f) : f[j] = i) <=> (\A j \in 1..c : p[j] # i)
      <4>1. (\A j \in 1..c : p[j] # i) <=> (\A j \in 1..c : o[j] # i)
        BY <2>1
      <4>2. (\E j \in 1..Len(f) : f[j] = i) <=> (\A j \in 1..c : o[j] # i)
        BY <3>2
      <4> QED BY <4>1, <4>2, Zenon
    <3> QED BY <3>1, <3>3, Zenon
  <2>9. ASSUME NEW j \in 1..Len(f) PROVE v.slots[f[j]] = EmptySlot
    <3>1. f[j] \in 1..m
      <4>1. f \in Seq(1..m)
        BY <2>8
      <4> QED BY <4>1, InSeq
    <3>2. \A h \in 1..c : o[h] # f[j]
      BY <2>1, <2>8, <3>1
    <3> QED BY <2>2, <2>3, <2>6, <2>7, <3>1, <3>2, SMTT(30)
  <2> QED BY <1>2, <2>6, <2>7, <2>8, <2>9 DEF FreeOK
<1>9. \A x \in DOMAIN l.map : peek(v, x) = peek(l, x)
  <2> SUFFICES ASSUME NEW x \in DOMAIN l.map PROVE peek(v, x) = peek(l, x)
    OBVIOUS
  <2>1. DOMAIN l.map = ToSet(u)
    BY <1>5
  <2>2. PICK h \in 1..c : u[h] = x
    BY <1>1, <1>2, <2>1, InSeq
  <2>3. l.map[x] = o[h] /\ v.map = l.map /\ v.slots[o[h]].value = l.slots[o[h]].value
    BY <1>5, <1>6, <2>2
  <2> QED BY <2>3 DEF peek
<1>10. DOMAIN v.map = DOMAIN l.map
  BY <1>6
<1> QED BY <1>7, <1>8, <1>9, <1>10 DEF LruOK

LEMMA PushedItems ==
  ASSUME NEW l, NEW f, NEW v, NEW o, NEW k \in 1..Len(o), LruShape(l), Places(o, Len(l.slots)),
         SameItems(l, f, o), Pushed(f, v, o[k]), f.head = 0 \/ \E j \in 1..Len(o) : o[j] = f.head
  PROVE  SameItems(l, v, o)
<1>1. \A j \in 1..Len(o) : v.slots[o[j]].key = f.slots[o[j]].key
                           /\ v.slots[o[j]].value = f.slots[o[j]].value
  <2>1. ASSUME NEW j \in 1..Len(o)
        PROVE v.slots[o[j]].key = f.slots[o[j]].key
              /\ v.slots[o[j]].value = f.slots[o[j]].value
    <3>1. o[j] \in 1..Len(f.slots) /\ o[j] # 0
      BY DEF Places, SameItems, LruShape
    <3>2. CASE o[j] = o[k]
      BY <3>2 DEF Pushed
    <3>3. CASE o[j] = f.head
      BY <3>1, <3>3 DEF Pushed
    <3>4. CASE o[j] # o[k] /\ o[j] # f.head
      BY <3>1, <3>4 DEF Pushed
    <3> QED BY <3>2, <3>3, <3>4
  <2> QED BY <2>1
<1>2. \A i \in 1..Len(l.slots) : (\A j \in 1..Len(o) : o[j] # i) =>
         i \in 1..Len(f.slots) \ {o[k], f.head}
  BY DEF SameItems, LruShape
<1> QED BY <1>1, <1>2 DEF SameItems, Pushed

LEMMA MoveIs ==
  ASSUME NEW l, NEW o, NEW u, NEW K, LruOK(l, o, u, K), NEW k \in 1..Len(o)
  PROVE  LET v == move_to_front(l, o[k])
         IN  /\ LruOK(v, Cons(o[k], Drop(o, k)), Cons(u[k], Drop(u, k)), K)
             /\ Len(v.slots) = Len(l.slots) /\ DOMAIN v.map = DOMAIN l.map
             /\ \A x \in DOMAIN l.map : peek(v, x) = peek(l, x)
<1>1. PICK c \in Nat : c = Len(o) /\ c = Len(u)
  BY DEF LruOK, KeysOK, Chain, Places
<1>2. PICK m \in Nat : m = Len(l.slots)
  BY DEF LruOK, LruShape
<1>3. /\ LruShape(l) /\ Chain(l, o) /\ o \in Seq(1..m) /\ u \in Seq(K)
      /\ \A a, b \in 1..c : o[a] = o[b] => a = b
  BY <1>1, <1>2 DEF LruOK, KeysOK, Chain, Places
<1>10. o \in Seq(1..m)
  BY <1>3
<1>11. k \in 1..c /\ \A j \in 1..c : o[j] \in 1..m
  <2>1. \A j \in 1..Len(o) : o[j] \in 1..m
    BY <1>10, InSeq
  <2> QED BY <1>1, <2>1
<1>4. PICK i : i = o[k]
  OBVIOUS
<1>5. PICK v : v = move_to_front(l, i)
  OBVIOUS
<1>6. /\ Cons(u[k], Drop(u, k)) \in Seq(K)
      /\ SamePairs(o, u, Cons(o[k], Drop(o, k)), Cons(u[k], Drop(u, k)))
  BY <1>1, <1>3, FrontPairs
<1>7. PICK p : p = Cons(o[k], Drop(o, k))
  OBVIOUS
<1>8. /\ LruShape(v) /\ SameItems(l, v, o) /\ Chain(v, p)
  <2>1. CASE l.head = i
    <3>1. v = l
      BY <1>5, <2>1 DEF move_to_front
    <3>2. k = 1
      <4>1. c # 0 /\ 1 \in 1..c
        BY <1>1
      <4>2. l.head = o[1]
        BY <1>1, <1>3, <4>1 DEF Chain
      <4> QED BY <1>1, <1>3, <1>4, <2>1, <4>1, <4>2
    <3>3. p = o
      <4>1. Drop(o, k) \in Seq(1..m) /\ IsDrop(Drop(o, k), o, k)
        BY <1>10, DropIs
      <4>2. PICK d \in Seq(1..m) : d = Drop(o, k) /\ IsDrop(d, o, k)
        BY <4>1
      <4>3. o[k] \in 1..m
        BY <1>11
      <4>4. p \in Seq(1..m) /\ IsCons(p, o[k], d)
        <5>1. p = Cons(o[k], d)
          BY <1>7, <4>2
        <5>2. Cons(o[k], d) \in Seq(1..m) /\ IsCons(Cons(o[k], d), o[k], d)
          BY <4>3, ConsIs
        <5> QED BY <5>1, <5>2
      <4>5. Len(p) = c /\ Len(d) = c - 1 /\ p[1] = o[k]
        <5>1. Len(d) = c - 1
          BY <1>1, <4>2 DEF IsDrop
        <5>2. Len(p) = Len(d) + 1 /\ p[1] = o[k]
          BY <4>4 DEF IsCons
        <5> QED BY <1>1, <5>1, <5>2
      <4>6. \A j \in 1..(c - 1) : p[j + 1] = o[j + 1]
        <5>1. \A j \in 1..(c - 1) : d[j] = IF j < k THEN o[j] ELSE o[j + 1]
          BY <1>1, <4>2 DEF IsDrop
        <5>2. \A j \in 1..(c - 1) : p[j + 1] = d[j]
          BY <4>4, <4>5 DEF IsCons
        <5>3. \A j \in 1..(c - 1) : ~(j < k)
          BY <3>2
        <5> QED BY <5>1, <5>2, <5>3
      <4>7. ASSUME NEW j \in 1..c PROVE p[j] = o[j]
        <5>1. CASE j = 1
          BY <3>2, <4>5, <5>1
        <5>2. CASE j # 1
          <6>1. PICK h \in 1..(c - 1) : j = h + 1
            <7>1. j - 1 \in 1..(c - 1) /\ j = (j - 1) + 1
              BY <1>1, <5>2
            <7> QED BY <7>1
          <6> QED BY <4>6, <6>1
        <5> QED BY <5>1, <5>2
      <4>8. p = [j \in 1..c |-> p[j]] /\ o = [j \in 1..c |-> o[j]]
        BY <1>1, <1>10, <4>4, <4>5, InSeq, ZenonT(30)
      <4> QED BY <4>7, <4>8
    <3>4. SameItems(l, l, o)
      BY DEF SameItems
    <3> QED BY <1>3, <3>1, <3>3, <3>4
  <2>2. CASE l.head # i
    <3>1. PICK f : f = unlink(l, i) /\ Freed(l, f, o, k)
      <4>1. Freed(l, unlink(l, o[k]), o, k)
        BY <1>3, UnlinkFrees
      <4> QED BY <1>4, <4>1
    <3>2. v = push_front(f, i)
      BY <1>5, <2>2, <3>1 DEF move_to_front
    <3>3. PICK d : d = Drop(o, k)
      OBVIOUS
    <3>4. Chain(f, d) /\ \A j \in 1..Len(d) : d[j] # i
      <4>1. Chain(f, Drop(o, k)) /\ \A j \in 1..Len(Drop(o, k)) : Drop(o, k)[j] # o[k]
        BY <1>3, <3>1, FreedChain
      <4> QED BY <1>4, <3>3, <4>1
    <3>5. LruShape(f) /\ SlotOK(f.slots[i]) /\ i \in 1..Len(f.slots) /\ SameItems(l, f, o)
      <4>1. LruShape(f) /\ SlotOK(f.slots[i]) /\ Len(f.slots) = m
        BY <1>2, <1>4, <3>1 DEF Freed
      <4>2. i \in 1..m
        BY <1>4, <1>11
      <4> QED BY <1>3, <3>1, <4>1, <4>2, FreedItems
    <3>6. Pushed(f, v, i) /\ Chain(v, Cons(i, d))
      BY <3>2, <3>4, <3>5, PushedChain
    <3>7. LruShape(v)
      BY <3>6 DEF Pushed
    <3>8. f.head = 0 \/ \E j \in 1..Len(o) : o[j] = f.head
      <4>1. f.head = IF Len(d) = 0 THEN 0 ELSE d[1]
        BY <3>4 DEF Chain
      <4>2. Len(d) = c - 1 /\ \A j \in 1..(c - 1) : \E h \in 1..c : d[j] = o[h]
        <5>1. IsDrop(d, o, k) /\ PairsWithout(o, o, k, d, d)
          BY <1>3, <3>3, DropIs, DropPairs
        <5> QED BY <1>1, <5>1 DEF IsDrop, PairsWithout
      <4>3. Len(d) # 0 => 1 \in 1..(c - 1)
        BY <1>1, <4>2
      <4> QED BY <1>1, <4>1, <4>2, <4>3
    <3>9. SameItems(l, v, o)
      BY <1>3, <1>4, <3>5, <3>6, <3>8, PushedItems DEF Chain
    <3> QED BY <1>4, <1>7, <3>3, <3>6, <3>7, <3>9
  <2> QED BY <2>1, <2>2
<1>9. /\ LruOK(v, p, Cons(u[k], Drop(u, k)), K) /\ DOMAIN v.map = DOMAIN l.map
      /\ \A x \in DOMAIN l.map : peek(v, x) = peek(l, x)
  BY <1>6, <1>7, <1>8, PairsKept
<1> QED BY <1>4, <1>5, <1>7, <1>8, <1>9 DEF SameItems

LEMMA LenNat ==
  ASSUME NEW S, NEW s \in Seq(S)
  PROVE  Len(s) \in Nat
OBVIOUS

\* A list with one more element at the end.
IsAppend(t, s, x) ==
  /\ Len(t) = Len(s) + 1 /\ t[Len(s) + 1] = x
  /\ \A j \in 1..Len(s) : t[j] = s[j]

LEMMA AppendIs ==
  ASSUME NEW S, NEW s \in Seq(S), NEW x \in S
  PROVE  Append(s, x) \in Seq(S) /\ IsAppend(Append(s, x), s, x)
BY DEF IsAppend

\* A list without its last element.
IsFront(t, s) == Len(t) = Len(s) - 1 /\ \A j \in 1..(Len(s) - 1) : t[j] = s[j]

LEMMA FrontIs ==
  ASSUME NEW S, NEW s \in Seq(S), s # << >>
  PROVE  Front(s) \in Seq(S) /\ IsFront(Front(s), s)
<1>1. PICK n \in Nat : n = Len(s) /\ n # 0
  OBVIOUS
<1>2. Front(s) \in Seq(S) /\ Len(Front(s)) = n - 1
      /\ \A i \in 1..(n - 1) : Front(s)[i] = s[i]
  BY <1>1 DEF Front
<1> QED BY <1>1, <1>2 DEF IsFront

\* The numbers in s are those that A says.
Lists(s, m, A) ==
  /\ s \in Seq(1..m) /\ \A i, j \in 1..Len(s) : s[i] = s[j] => i = j
  /\ \A i \in 1..m : (\E j \in 1..Len(s) : s[j] = i) <=> i \in A

LEMMA ListsOne ==
  ASSUME NEW m \in Nat, NEW s, NEW A, Lists(s, m, A), NEW i \in 1..m, i \notin A
  PROVE  Lists(Append(s, i), m, A \cup {i})
<1>1. PICK n \in Nat : n = Len(s)
  BY LenNat DEF Lists
<1>2. \A j \in 1..n : s[j] \in 1..m /\ s[j] # i
  <2>1. s \in Seq(1..m) /\ \A j \in 1..n : s[j] \in 1..m
    BY <1>1, InSeq DEF Lists
  <2> QED BY <1>1, <2>1 DEF Lists
<1>3. PICK t \in Seq(1..m) : t = Append(s, i) /\ Len(t) = n + 1 /\ t[n + 1] = i
                             /\ \A j \in 1..n : t[j] = s[j]
  <2>1. s \in Seq(1..m)
    BY DEF Lists
  <2>2. Append(s, i) \in Seq(1..m) /\ IsAppend(Append(s, i), s, i)
    BY <2>1, AppendIs
  <2> QED BY <1>1, <2>2 DEF IsAppend
<1>4. \A j \in 1..(n + 1) : j = n + 1 \/ j \in 1..n
  BY <1>1
<1>5. \A j \in 1..n : j \in 1..(n + 1)
  BY <1>1
<1>6. n + 1 \in 1..(n + 1)
  BY <1>1
<1>7. ASSUME NEW a \in 1..(n + 1), NEW b \in 1..(n + 1), t[a] = t[b] PROVE a = b
  <2>1. \A x, y \in 1..n : s[x] = s[y] => x = y
    BY <1>1 DEF Lists
  <2> QED BY <1>2, <1>3, <1>4, <1>7, <2>1
<1>8. ASSUME NEW x \in 1..m
      PROVE  (\E j \in 1..(n + 1) : t[j] = x) <=> x \in A \cup {i}
  <2>1. (\E j \in 1..n : s[j] = x) <=> x \in A
    BY <1>1 DEF Lists
  <2> QED BY <1>3, <1>4, <1>5, <1>6, <2>1
<1> QED BY <1>3, <1>7, <1>8 DEF Lists

LEMMA ListsFront ==
  ASSUME NEW m \in Nat, NEW s, NEW A, Lists(s, m, A), s # << >>
  PROVE  /\ Last(s) \in A /\ Last(s) \in 1..m /\ Lists(Front(s), m, A \ {Last(s)})
<1>1. PICK n \in Nat : n = Len(s)
  BY LenNat DEF Lists
<1>2. s \in Seq(1..m) /\ n # 0
  BY <1>1 DEF Lists
<1>3. \A j \in 1..n : s[j] \in 1..m
  BY <1>1, <1>2, InSeq
<1>4. PICK i : i = Last(s) /\ i = s[n] /\ n \in 1..n
  BY <1>1, <1>2 DEF Last
<1>5. PICK t \in Seq(1..m) : t = Front(s) /\ Len(t) = n - 1 /\ \A j \in 1..(n - 1) : t[j] = s[j]
  <2>1. Front(s) \in Seq(1..m) /\ IsFront(Front(s), s)
    BY <1>2, FrontIs
  <2> QED BY <1>1, <2>1 DEF IsFront
<1>6. /\ \A x, y \in 1..n : s[x] = s[y] => x = y
      /\ \A x \in 1..m : (\E j \in 1..n : s[j] = x) <=> x \in A
  BY <1>1 DEF Lists
<1>7. \A j \in 1..(n - 1) : j \in 1..n /\ j # n
  BY <1>1
<1>8. \A j \in 1..n : j = n \/ j \in 1..(n - 1)
  BY <1>1
<1>9. i \in 1..m /\ i \in A
  BY <1>3, <1>4, <1>6
<1>10. ASSUME NEW a \in 1..(n - 1), NEW b \in 1..(n - 1), t[a] = t[b] PROVE a = b
  BY <1>5, <1>6, <1>7, <1>10
<1>11. ASSUME NEW x \in 1..m
       PROVE  (\E j \in 1..(n - 1) : t[j] = x) <=> x \in A \ {i}
  <2>1. (\E j \in 1..n : s[j] = x) <=> x \in A
    BY <1>6
  <2>2. \A j \in 1..(n - 1) : s[j] # i
    BY <1>4, <1>6, <1>7
  <2>3. x # i => \A j \in 1..n : s[j] = x => j \in 1..(n - 1)
    BY <1>4, <1>8
  <2>4. (\E j \in 1..(n - 1) : t[j] = x) <=> \E j \in 1..(n - 1) : s[j] = x
    BY <1>5
  <2> QED BY <1>7, <2>1, <2>2, <2>3, <2>4
<1> QED BY <1>4, <1>5, <1>9, <1>10, <1>11 DEF Lists

\* The slots that are not in the list.
Spare(l, o) == {i \in 1..Len(l.slots) : \A j \in 1..Len(o) : o[j] # i}

LEMMA FreeLists ==
  ASSUME NEW l, NEW o
  PROVE  FreeOK(l, o) <=> /\ Lists(l.free, Len(l.slots), Spare(l, o))
                          /\ \A j \in 1..Len(l.free) : l.slots[l.free[j]] = EmptySlot
<1>1. \A i \in 1..Len(l.slots) : i \in Spare(l, o) <=> \A j \in 1..Len(o) : o[j] # i
  BY DEF Spare
<1>2. (\A i \in 1..Len(l.slots) :
          (\E j \in 1..Len(l.free) : l.free[j] = i) <=> (\A j \in 1..Len(o) : o[j] # i))
      <=> \A i \in 1..Len(l.slots) : (\E j \in 1..Len(l.free) : l.free[j] = i) <=> i \in Spare(l, o)
  BY <1>1
<1> QED BY <1>2, Zenon DEF FreeOK, Lists

\* No key is twice in the list.
LEMMA KeysDiffer ==
  ASSUME NEW l, NEW o, NEW u, NEW K, LruOK(l, o, u, K),
         NEW a \in 1..Len(o), NEW b \in 1..Len(o), u[a] = u[b]
  PROVE  a = b
<1>1. o[a] = l.map[u[a]] /\ o[b] = l.map[u[b]]
  BY DEF LruOK, KeysOK
<1>2. o[a] = o[b]
  BY <1>1
<1> QED BY <1>2 DEF LruOK, Chain, Places

LEMMA ReleaseIs ==
  ASSUME NEW l, NEW o, NEW u, NEW K, LruOK(l, o, u, K), NEW k \in 1..Len(o)
  PROVE  LET r == Release(l, o[k])
         IN  /\ LruOK(r, Drop(o, k), Drop(u, k), K)
             /\ Len(r.slots) = Len(l.slots) /\ DOMAIN r.map = DOMAIN l.map \ {u[k]}
             /\ \A x \in DOMAIN r.map : peek(r, x) = peek(l, x)
<1>1. PICK c \in Nat : c = Len(o) /\ c = Len(u)
  BY DEF LruOK, KeysOK, Chain, Places
<1>2. PICK m \in Nat : m = Len(l.slots)
  BY DEF LruOK, LruShape
<1>3. LruShape(l) /\ Chain(l, o) /\ KeysOK(l, o, u, K) /\ FreeOK(l, o)
  BY DEF LruOK
<1>4. o \in Seq(1..m) /\ u \in Seq(K)
  BY <1>2, <1>3 DEF Chain, Places, KeysOK
<1>5. k \in 1..c /\ \A j \in 1..c : o[j] \in 1..m
  <2>1. \A j \in 1..Len(o) : o[j] \in 1..m
    BY <1>4, InSeq
  <2> QED BY <1>1, <2>1
<1>6. \A a, b \in 1..c : o[a] = o[b] => a = b
  BY <1>1, <1>3 DEF Chain, Places
<1>7. \A a, b \in 1..c : u[a] = u[b] => a = b
  BY <1>1, KeysDiffer
<1>8. PICK i : i = o[k] /\ i \in 1..m
  BY <1>5
<1>9. PICK d \in Seq(1..m) : d = Drop(o, k) /\ Len(d) = c - 1
  <2>1. Drop(o, k) \in Seq(1..m) /\ IsDrop(Drop(o, k), o, k)
    BY <1>4, DropIs
  <2> QED BY <1>1, <2>1 DEF IsDrop
<1>10. PICK e \in Seq(K) : e = Drop(u, k) /\ Len(e) = c - 1
  <2>1. k \in 1..Len(u)
    BY <1>1
  <2>2. Drop(u, k) \in Seq(K) /\ IsDrop(Drop(u, k), u, k)
    BY <1>4, <2>1, DropIs
  <2> QED BY <1>1, <2>2 DEF IsDrop
<1>11. /\ \A j \in 1..(c - 1) : \E h \in 1..c \ {k} : d[j] = o[h] /\ e[j] = u[h]
       /\ \A h \in 1..c \ {k} : \E j \in 1..(c - 1) : d[j] = o[h] /\ e[j] = u[h]
  <2>1. Len(u) = Len(o)
    BY <1>1
  <2>2. PairsWithout(o, u, k, Drop(o, k), Drop(u, k))
    BY <1>4, <2>1, DropPairs
  <2> QED BY <1>1, <1>9, <1>10, <2>2 DEF PairsWithout
<1>12. PICK f : /\ f = unlink(l, i) /\ Freed(l, f, o, k) /\ Chain(f, d)
                /\ \A j \in 1..(c - 1) : d[j] # i
  <2>1. Freed(l, unlink(l, o[k]), o, k)
    BY <1>3, UnlinkFrees
  <2>2. Chain(unlink(l, o[k]), Drop(o, k))
        /\ \A j \in 1..Len(Drop(o, k)) : Drop(o, k)[j] # o[k]
    BY <1>3, <2>1, FreedChain
  <2> QED BY <1>8, <1>9, <2>1, <2>2
<1>13. LruShape(f) /\ Len(f.slots) = m /\ f.free = l.free /\ f.map = l.map
  BY <1>2, <1>12 DEF Freed
<1>14. SameItems(l, f, o)
  BY <1>3, <1>12, FreedItems
<1>15. l.slots[i].key = u[k]
  BY <1>1, <1>3, <1>8 DEF KeysOK
<1>16. PICK s : s = [f.slots EXCEPT ![i] = EmptySlot]
  OBVIOUS
<1>17. /\ s = [j \in 1..m |-> s[j]] /\ Len(s) = m /\ s[i] = EmptySlot
       /\ \A j \in 1..m \ {i} : s[j] = f.slots[j]
  <2>1. f.slots = [j \in 1..m |-> f.slots[j]]
    BY <1>13 DEF LruShape
  <2>2. /\ s = [j \in 1..m |-> s[j]] /\ s[i] = EmptySlot
        /\ \A j \in 1..m \ {i} : s[j] = f.slots[j]
    BY <1>8, <1>16, <2>1
  <2>3. Len(s) = m
    BY <2>2
  <2> QED BY <2>2, <2>3
<1>18. PICK q : q = Restrict(l.map, DOMAIN l.map \ {u[k]})
  OBVIOUS
<1>19. PICK g : g = Append(l.free, i)
  OBVIOUS
<1>20. PICK r : r = [slots |-> s, free |-> g, map |-> q, head |-> f.head, tail |-> f.tail]
  OBVIOUS
<1>21. Release(l, i) = r
  <2>1. Release(l, i) = [f EXCEPT !.map = Restrict(@, DOMAIN @ \ {l.slots[i].key}),
                                  !.slots = [@ EXCEPT ![i] = EmptySlot],
                                  !.free = Append(@, i)]
    BY <1>12 DEF Release
  <2>2. f = [slots |-> f.slots, free |-> f.free, map |-> f.map, head |-> f.head, tail |-> f.tail]
    BY <1>13 DEF LruShape
  <2>3. Release(l, i) = [slots |-> [f.slots EXCEPT ![i] = EmptySlot], free |-> Append(f.free, i),
                         map |-> Restrict(f.map, DOMAIN f.map \ {l.slots[i].key}),
                         head |-> f.head, tail |-> f.tail]
    BY <2>1, <2>2
  <2> QED BY <1>13, <1>15, <1>16, <1>18, <1>19, <1>20, <2>3
<1>22. r.slots = s /\ r.free = g /\ r.map = q /\ r.head = f.head /\ r.tail = f.tail
  BY <1>20
<1>23. LruShape(r)
  BY <1>17, <1>20, <1>22 DEF LruShape
<1>24. \A j \in 1..(c - 1) : d[j] \in 1..m \ {i} /\ s[d[j]] = f.slots[d[j]]
  <2>1. \A j \in 1..(c - 1) : d[j] \in 1..m
    BY <1>9, InSeq
  <2> QED BY <1>12, <1>17, <2>1
<1>25. Chain(r, d)
  <2>1. /\ Places(d, m)
        /\ \A j \in 1..(c - 1) : /\ SlotOK(f.slots[d[j]])
                                 /\ f.slots[d[j]].next = NextOf(d, j)
                                 /\ f.slots[d[j]].prev = PrevOf(d, j)
        /\ f.head = IF Len(d) = 0 THEN 0 ELSE d[1]
        /\ f.tail = IF Len(d) = 0 THEN 0 ELSE d[Len(d)]
    BY <1>9, <1>12, <1>13 DEF Chain
  <2>2. \A j \in 1..(c - 1) : /\ SlotOK(s[d[j]]) /\ s[d[j]].next = NextOf(d, j)
                              /\ s[d[j]].prev = PrevOf(d, j)
    BY <1>24, <2>1
  <2> QED BY <1>9, <1>17, <1>22, <2>1, <2>2 DEF Chain
<1>26. /\ DOMAIN l.map = ToSet(u)
       /\ \A h \in 1..c : l.map[u[h]] = o[h] /\ l.slots[o[h]].key = u[h]
  BY <1>1, <1>3 DEF KeysOK
<1>27. \A x : x \in ToSet(e) <=> x \in ToSet(u) \ {u[k]}
  <2>1. \A x : x \in ToSet(u) <=> \E j \in 1..c : u[j] = x
    BY <1>1, <1>4, InSeq
  <2>2. \A x : x \in ToSet(e) <=> \E j \in 1..(c - 1) : e[j] = x
    BY <1>10, InSeq
  <2>3. \A j \in 1..(c - 1) : \E h \in 1..c \ {k} : e[j] = u[h]
    BY <1>11
  <2>4. \A h \in 1..c \ {k} : \E j \in 1..(c - 1) : e[j] = u[h]
    BY <1>11
  <2>5. \A h \in 1..c \ {k} : u[h] # u[k]
    BY <1>5, <1>7
  <2>6. ASSUME NEW x \in ToSet(e) PROVE x \in ToSet(u) \ {u[k]}
    <3>1. PICK j \in 1..(c - 1) : e[j] = x
      BY <2>2
    <3>2. PICK h \in 1..c \ {k} : e[j] = u[h]
      BY <2>3
    <3> QED BY <2>1, <2>5, <3>1, <3>2
  <2>7. ASSUME NEW x \in ToSet(u) \ {u[k]} PROVE x \in ToSet(e)
    <3>1. PICK h \in 1..c : u[h] = x
      BY <2>1
    <3>2. h # k
      BY <3>1
    <3>3. PICK j \in 1..(c - 1) : e[j] = u[h]
      BY <2>4, <3>2
    <3> QED BY <2>2, <3>1, <3>3
  <2> QED BY <2>6, <2>7
<1>28. DOMAIN q = ToSet(e) /\ DOMAIN q = DOMAIN l.map \ {u[k]}
       /\ q = [x \in DOMAIN q |-> q[x]] /\ \A x \in DOMAIN q : q[x] = l.map[x]
  <2>1. q = [x \in DOMAIN l.map \ {u[k]} |-> l.map[x]]
    BY <1>18 DEF Restrict
  <2>2. PICK D : D = DOMAIN l.map \ {u[k]}
    OBVIOUS
  <2>3. ToSet(e) = D
    BY <1>26, <1>27, <2>2
  <2> QED BY <2>1, <2>2, <2>3
<1>29. ASSUME NEW j \in 1..(c - 1) PROVE q[e[j]] = d[j] /\ s[d[j]].key = e[j]
  <2>1. PICK h \in 1..c \ {k} : d[j] = o[h] /\ e[j] = u[h]
    BY <1>11
  <2>2. e[j] \in DOMAIN q
    <3>1. e[j] \in ToSet(e)
      BY <1>10, InSeq
    <3> QED BY <1>28, <3>1
  <2>3. q[e[j]] = o[h]
    BY <1>26, <1>28, <2>1, <2>2
  <2>4. f.slots[o[h]].key = l.slots[o[h]].key
    BY <1>1, <1>14 DEF SameItems
  <2> QED BY <1>24, <1>26, <2>1, <2>3, <2>4
<1>30. KeysOK(r, d, e, K)
  <2>1. q = [x \in ToSet(e) |-> q[x]]
    BY <1>28
  <2> QED BY <1>9, <1>10, <1>22, <1>29, <2>1 DEF KeysOK
<1>31. FreeOK(r, d)
  <2>1. /\ Lists(l.free, m, Spare(l, o))
        /\ \A j \in 1..Len(l.free) : l.slots[l.free[j]] = EmptySlot
    BY <1>2, <1>3, FreeLists
  <2>2. i \notin Spare(l, o)
    BY <1>1, <1>5, <1>8 DEF Spare
  <2>3. Lists(g, m, Spare(l, o) \cup {i})
    BY <1>8, <1>19, <2>1, <2>2, ListsOne
  <2>4. \A x \in 1..m : x \in Spare(l, o) \cup {i} <=> \A j \in 1..(c - 1) : d[j] # x
    <3>1. \A x \in 1..m : x \in Spare(l, o) <=> \A j \in 1..c : o[j] # x
      BY <1>1, <1>2 DEF Spare
    <3>2. \A j \in 1..(c - 1) : \E h \in 1..c \ {k} : d[j] = o[h]
      BY <1>11
    <3>3. \A h \in 1..c \ {k} : \E j \in 1..(c - 1) : d[j] = o[h]
      BY <1>11
    <3>4. ASSUME NEW x \in 1..m, x \in Spare(l, o) \cup {i}, NEW j \in 1..(c - 1)
          PROVE d[j] # x
      BY <1>12, <3>1, <3>2, <3>4
    <3>5. ASSUME NEW x \in 1..m, \A j \in 1..(c - 1) : d[j] # x, x # i
          PROVE x \in Spare(l, o)
      <4>1. ASSUME NEW h \in 1..c PROVE o[h] # x
        <5>1. CASE h = k
          BY <1>8, <3>5, <5>1
        <5>2. CASE h # k
          <6>1. PICK j \in 1..(c - 1) : d[j] = o[h]
            BY <3>3, <5>2
          <6> QED BY <3>5, <6>1
        <5> QED BY <5>1, <5>2
      <4> QED BY <3>1, <4>1
    <3> QED BY <3>4, <3>5
  <2>5. Spare(r, d) = Spare(l, o) \cup {i}
    <3>1. Spare(l, o) \cup {i} \subseteq 1..m
      BY <1>2, <1>8 DEF Spare
    <3>2. \A x : x \in Spare(r, d) <=> x \in 1..m /\ \A j \in 1..(c - 1) : d[j] # x
      BY <1>9, <1>17, <1>22 DEF Spare
    <3> QED BY <2>4, <3>1, <3>2
  <2>6. \A j \in 1..Len(g) : s[g[j]] = EmptySlot
    <3>1. PICK n \in Nat : n = Len(l.free)
      BY <2>1, LenNat DEF Lists
    <3>2. l.free \in Seq(1..m)
      BY <2>1 DEF Lists
    <3>3. Len(g) = n + 1 /\ g[n + 1] = i /\ \A j \in 1..n : g[j] = l.free[j]
      BY <1>8, <1>19, <3>1, <3>2, AppendIs DEF IsAppend
    <3>4. ASSUME NEW j \in 1..n PROVE s[g[j]] = EmptySlot
      <4>1. l.free[j] \in 1..m /\ l.free[j] \in Spare(l, o)
        <5>1. l.free[j] \in 1..m
          BY <3>1, <3>2, InSeq
        <5> QED BY <2>1, <3>1, <5>1 DEF Lists
      <4>2. \A h \in 1..c : o[h] # l.free[j]
        BY <1>1, <4>1 DEF Spare
      <4>3. f.slots[l.free[j]] = l.slots[l.free[j]]
        BY <1>1, <1>2, <1>14, <4>1, <4>2 DEF SameItems
      <4>4. l.free[j] # i
        BY <2>2, <4>1
      <4> QED BY <1>17, <2>1, <3>1, <3>3, <4>1, <4>3, <4>4, SMTT(30)
    <3>5. \A j \in 1..(n + 1) : j = n + 1 \/ j \in 1..n
      BY <3>1
    <3> QED BY <1>17, <3>3, <3>4, <3>5
  <2> QED BY <1>17, <1>22, <2>3, <2>5, <2>6, FreeLists
<1>32. LruOK(r, d, e, K)
  BY <1>23, <1>25, <1>30, <1>31 DEF LruOK
<1>33. ASSUME NEW x \in DOMAIN q PROVE peek(r, x) = peek(l, x)
  <2>1. x \in ToSet(e)
    BY <1>28
  <2>2. PICK j \in 1..(c - 1) : e[j] = x
    BY <1>10, <2>1, InSeq
  <2>3. PICK h \in 1..c \ {k} : d[j] = o[h] /\ e[j] = u[h]
    BY <1>11
  <2>4. q[x] = d[j] /\ l.map[x] = o[h]
    BY <1>26, <1>29, <2>2, <2>3
  <2>5. s[d[j]].value = l.slots[o[h]].value
    <3>1. f.slots[o[h]].value = l.slots[o[h]].value
      BY <1>1, <1>14 DEF SameItems
    <3>2. s[d[j]] = f.slots[d[j]]
      BY <1>24
    <3> QED BY <2>3, <3>1, <3>2
  <2> QED BY <1>22, <2>3, <2>4, <2>5 DEF peek
<1>34. /\ LruOK(r, Drop(o, k), Drop(u, k), K)
       /\ Len(r.slots) = Len(l.slots) /\ DOMAIN r.map = DOMAIN l.map \ {u[k]}
       /\ \A x \in DOMAIN r.map : peek(r, x) = peek(l, x)
  BY <1>2, <1>9, <1>10, <1>17, <1>22, <1>28, <1>32, <1>33
<1> QED BY <1>8, <1>21, <1>34

\* A slot for a new key: a free one or one more.
Placed(l, p, i, o, k, v) ==
  /\ LruShape(p) /\ Chain(p, o) /\ p.map = l.map
  /\ i \in 1..Len(p.slots) /\ \A j \in 1..Len(o) : o[j] # i
  /\ p.slots[i] = [key |-> k, value |-> v, prev |-> 0, next |-> 0]
  /\ \A j \in 1..Len(o) : p.slots[o[j]] = l.slots[o[j]]
  /\ Lists(p.free, Len(p.slots), Spare(p, o) \ {i})
  /\ \A j \in 1..Len(p.free) : p.slots[p.free[j]] = EmptySlot
  /\ Len(p.slots) = Len(l.slots) \/ Len(p.slots) <= Len(o) + 1

\* The same list in other slots, its own kept.
LEMMA ChainKept ==
  ASSUME NEW l, NEW p, NEW o, Chain(l, o), Len(l.slots) \in Nat, Len(p.slots) \in Nat,
         Len(l.slots) <= Len(p.slots), p.head = l.head, p.tail = l.tail,
         \A j \in 1..Len(o) : p.slots[o[j]] = l.slots[o[j]]
  PROVE  Chain(p, o)
<1>1. o \in Seq(1..Len(l.slots)) /\ \A i, j \in 1..Len(o) : o[i] = o[j] => i = j
  BY DEF Chain, Places
<1>2. 1..Len(l.slots) \subseteq 1..Len(p.slots)
  OBVIOUS
<1>3. o \in Seq(1..Len(p.slots))
  BY <1>1, <1>2, SeqMonotonic
<1>4. Places(o, Len(p.slots))
  BY <1>1, <1>3 DEF Places
<1> QED BY <1>4 DEF Chain

LEMMA AllTaken ==
  ASSUME NEW m \in Nat, NEW o \in Seq(1..m), \A x \in 1..m : \E j \in 1..Len(o) : o[j] = x
  PROVE  m <= Len(o)
<1>1. PICK c \in Nat : c = Len(o)
  OBVIOUS
<1>2. o \in [1..c -> 1..m]
  BY <1>1
<1>3. o \in Surjection(1..c, 1..m)
  BY <1>1, <1>2 DEF Surjection, Range
<1>4. IsFiniteSet(1..c) /\ Cardinality(1..c) = c /\ Cardinality(1..m) = m
  <2>1. 1 \in Int /\ c \in Int /\ m \in Int
    OBVIOUS
  <2>2. Cardinality(1..c) = IF 1 > c THEN 0 ELSE c - 1 + 1
    BY <2>1, FS_Interval
  <2>3. Cardinality(1..m) = IF 1 > m THEN 0 ELSE m - 1 + 1
    BY <2>1, FS_Interval
  <2>4. IsFiniteSet(1..c)
    BY <2>1, FS_Interval
  <2> QED BY <2>2, <2>3, <2>4
<1>5. Cardinality(1..m) <= Cardinality(1..c)
  BY <1>3, <1>4, FS_Surjection
<1> QED BY <1>1, <1>4, <1>5

LEMMA PlacedNew ==
  ASSUME NEW l, NEW o, NEW u, NEW K, LruOK(l, o, u, K), NEW k, NEW v, l.free = << >>
  PROVE  Placed(l, [l EXCEPT !.slots = Append(@, [key |-> k, value |-> v, prev |-> 0, next |-> 0])],
                Len(l.slots) + 1, o, k, v)
<1>1. PICK m \in Nat : m = Len(l.slots)
  BY DEF LruOK, LruShape
<1>2. PICK c \in Nat : c = Len(o)
  BY DEF LruOK, Chain, Places
<1>3. LruShape(l) /\ Chain(l, o) /\ FreeOK(l, o)
  BY DEF LruOK
<1>4. o \in Seq(1..m) /\ \A j \in 1..c : o[j] \in 1..m
  <2>1. o \in Seq(1..m)
    BY <1>1, <1>3 DEF Chain, Places
  <2> QED BY <1>2, <2>1, InSeq
<1>5. PICK w : w = [key |-> k, value |-> v, prev |-> 0, next |-> 0]
  OBVIOUS
<1>6. PICK s : s = Append(l.slots, w)
  OBVIOUS
<1>7. s = [j \in 1..(m + 1) |-> s[j]] /\ Len(s) = m + 1 /\ s[m + 1] = w
      /\ \A j \in 1..m : s[j] = l.slots[j]
  <2>1. PICK t : t = l.slots
    OBVIOUS
  <2>2. PICK T : T = {t[j] : j \in 1..m} \cup {w}
    OBVIOUS
  <2>3. t \in Seq(T)
    <3>1. t = [j \in 1..m |-> t[j]]
      BY <1>1, <1>3, <2>1 DEF LruShape
    <3>2. \A j \in 1..m : t[j] \in T
      BY <2>2
    <3> QED BY <3>1, <3>2
  <2>4. w \in T
    BY <2>2
  <2>5. s \in Seq(T) /\ IsAppend(s, t, w)
    BY <1>6, <2>1, <2>3, <2>4, AppendIs
  <2>6. Len(s) = m + 1 /\ s[m + 1] = w /\ \A j \in 1..m : s[j] = t[j]
    BY <1>1, <2>1, <2>5 DEF IsAppend
  <2>7. s = [j \in 1..Len(s) |-> s[j]]
    BY <2>5, InSeq
  <2> QED BY <2>1, <2>6, <2>7
<1>8. PICK p : p = [slots |-> s, free |-> l.free, map |-> l.map, head |-> l.head, tail |-> l.tail]
  OBVIOUS
<1>9. p = [l EXCEPT !.slots = Append(@, w)]
  <2>1. l = [slots |-> l.slots, free |-> l.free, map |-> l.map, head |-> l.head, tail |-> l.tail]
    BY <1>3 DEF LruShape
  <2>2. [l EXCEPT !.slots = s] = p
    BY <1>8, <2>1
  <2>3. [l EXCEPT !.slots = Append(@, w)] = [l EXCEPT !.slots = s]
    BY <1>6, Zenon
  <2> QED BY <2>2, <2>3
<1>10. p.slots = s /\ p.free = l.free /\ p.map = l.map /\ p.head = l.head /\ p.tail = l.tail
  BY <1>8
<1>11. LruShape(p)
  <2>1. m + 1 \in Nat
    OBVIOUS
  <2> QED BY <1>7, <1>8, <1>10, <2>1 DEF LruShape
<1>12. \A j \in 1..c : p.slots[o[j]] = l.slots[o[j]]
  BY <1>4, <1>7, <1>10
<1>13. Len(p.slots) = m + 1
  BY <1>7, <1>10
<1>14. Chain(p, o)
  <2>1. Len(l.slots) \in Nat /\ Len(p.slots) \in Nat /\ Len(l.slots) <= Len(p.slots)
    BY <1>1, <1>13
  <2>2. \A j \in 1..Len(o) : p.slots[o[j]] = l.slots[o[j]]
    BY <1>2, <1>12
  <2> QED BY <1>3, <1>10, <2>1, <2>2, ChainKept
<1>15. \A x \in 1..m : \E j \in 1..c : o[j] = x
  <2>1. Lists(l.free, m, Spare(l, o))
    BY <1>1, <1>3, FreeLists
  <2>2. \A x \in 1..m : x \notin Spare(l, o)
    <3>1. Len(l.free) = 0
      OBVIOUS
    <3>2. \A x \in 1..m : (\E j \in 1..Len(l.free) : l.free[j] = x) <=> x \in Spare(l, o)
      BY <2>1 DEF Lists
    <3>3. 1..Len(l.free) = {}
      BY <3>1
    <3> QED BY <3>2, <3>3
  <2> QED BY <1>1, <1>2, <2>2 DEF Spare
<1>16. m <= c
  BY <1>2, <1>4, <1>15, AllTaken
<1>17. \A j \in 1..c : o[j] # m + 1
  BY <1>4
<1>18. Spare(p, o) \ {m + 1} = {}
  <2>1. ASSUME NEW x \in 1..(m + 1), x # m + 1, \A j \in 1..c : o[j] # x PROVE FALSE
    <3>1. x \in 1..m
      BY <2>1
    <3> QED BY <1>15, <2>1, <3>1
  <2> QED BY <1>2, <1>13, <2>1 DEF Spare
<1>19. p.free = << >>
  BY <1>10
<1>20. Lists(p.free, m + 1, Spare(p, o) \ {m + 1})
  <2>1. << >> \in Seq(1..(m + 1)) /\ Len(<< >>) = 0 /\ 1..0 = {}
    OBVIOUS
  <2> QED BY <1>18, <1>19, <2>1 DEF Lists
<1>21. \A j \in 1..Len(p.free) : p.slots[p.free[j]] = EmptySlot
  BY <1>19
<1>22. m + 1 \in 1..(m + 1) /\ m + 1 <= c + 1
  BY <1>16
<1>23. Placed(l, p, m + 1, o, k, v)
  BY <1>2, <1>5, <1>7, <1>10, <1>11, <1>12, <1>13, <1>14, <1>17, <1>20, <1>21, <1>22 DEF Placed
<1> QED BY <1>1, <1>5, <1>9, <1>23

LEMMA PlacedFree ==
  ASSUME NEW l, NEW o, NEW u, NEW K, LruOK(l, o, u, K), NEW k, NEW v, l.free # << >>
  PROVE  Placed(l, [l EXCEPT !.slots = [@ EXCEPT ![Last(l.free)] =
                                          [key |-> k, value |-> v, prev |-> 0, next |-> 0]],
                             !.free = Front(@)],
                Last(l.free), o, k, v)
<1>1. PICK m \in Nat : m = Len(l.slots)
  BY DEF LruOK, LruShape
<1>2. PICK c \in Nat : c = Len(o)
  BY DEF LruOK, Chain, Places
<1>3. LruShape(l) /\ Chain(l, o) /\ FreeOK(l, o)
  BY DEF LruOK
<1>4. o \in Seq(1..m) /\ \A j \in 1..c : o[j] \in 1..m
  <2>1. o \in Seq(1..m)
    BY <1>1, <1>3 DEF Chain, Places
  <2> QED BY <1>2, <2>1, InSeq
<1>5. PICK w : w = [key |-> k, value |-> v, prev |-> 0, next |-> 0]
  OBVIOUS
<1>6. /\ Lists(l.free, m, Spare(l, o))
      /\ \A j \in 1..Len(l.free) : l.slots[l.free[j]] = EmptySlot
  BY <1>1, <1>3, FreeLists
<1>7. PICK i : i = Last(l.free)
  OBVIOUS
<1>8. PICK g : g = Front(l.free)
  OBVIOUS
<1>9. i \in Spare(l, o) /\ i \in 1..m /\ Lists(g, m, Spare(l, o) \ {i})
  BY <1>6, <1>7, <1>8, ListsFront
<1>10. PICK s : s = [l.slots EXCEPT ![i] = w]
  OBVIOUS
<1>11. /\ s = [j \in 1..m |-> s[j]] /\ Len(s) = m /\ s[i] = w
       /\ \A j \in 1..m \ {i} : s[j] = l.slots[j]
  <2>1. l.slots = [j \in 1..m |-> l.slots[j]]
    BY <1>1, <1>3 DEF LruShape
  <2>2. /\ s = [j \in 1..m |-> s[j]] /\ s[i] = w
        /\ \A j \in 1..m \ {i} : s[j] = l.slots[j]
    BY <1>9, <1>10, <2>1
  <2>3. Len(s) = m
    BY <2>2
  <2> QED BY <2>2, <2>3
<1>12. PICK p : p = [slots |-> s, free |-> g, map |-> l.map, head |-> l.head, tail |-> l.tail]
  OBVIOUS
<1>13. p = [l EXCEPT !.slots = [@ EXCEPT ![i] = w], !.free = Front(@)]
  <2>1. l = [slots |-> l.slots, free |-> l.free, map |-> l.map, head |-> l.head, tail |-> l.tail]
    BY <1>3 DEF LruShape
  <2>2. [l EXCEPT !.slots = s, !.free = g] = p
    <3>1. PICK a : a = [l EXCEPT !.slots = s]
      OBVIOUS
    <3>2. a = [slots |-> s, free |-> l.free, map |-> l.map, head |-> l.head, tail |-> l.tail]
      BY <2>1, <3>1
    <3>3. [a EXCEPT !.free = g] = p
      BY <1>12, <3>2
    <3>4. [l EXCEPT !.slots = s, !.free = g] = [a EXCEPT !.free = g]
      BY <3>1
    <3> QED BY <3>3, <3>4
  <2>3. [l EXCEPT !.slots = [@ EXCEPT ![i] = w], !.free = Front(@)]
        = [l EXCEPT !.slots = s, !.free = g]
    BY <1>8, <1>10, Zenon
  <2> QED BY <2>2, <2>3
<1>14. p.slots = s /\ p.free = g /\ p.map = l.map /\ p.head = l.head /\ p.tail = l.tail
  BY <1>12
<1>15. LruShape(p)
  BY <1>11, <1>12, <1>14 DEF LruShape
<1>16. \A j \in 1..c : o[j] # i
  BY <1>2, <1>9 DEF Spare
<1>17. \A j \in 1..c : p.slots[o[j]] = l.slots[o[j]]
  BY <1>4, <1>11, <1>14, <1>16
<1>18. Len(p.slots) = m
  BY <1>11, <1>14
<1>19. Chain(p, o)
  <2>1. Len(l.slots) \in Nat /\ Len(p.slots) \in Nat /\ Len(l.slots) <= Len(p.slots)
    BY <1>1, <1>18
  <2>2. \A j \in 1..Len(o) : p.slots[o[j]] = l.slots[o[j]]
    BY <1>2, <1>17
  <2> QED BY <1>3, <1>14, <2>1, <2>2, ChainKept
<1>20. Spare(p, o) = Spare(l, o)
  BY <1>1, <1>18 DEF Spare
<1>21. \A j \in 1..Len(p.free) : p.slots[p.free[j]] = EmptySlot
  <2>1. PICK n \in Nat : n = Len(l.free) /\ n # 0
    <3>1. l.free \in Seq(1..m)
      BY <1>6 DEF Lists
    <3> QED BY <3>1
  <2>2. Len(g) = n - 1 /\ \A j \in 1..(n - 1) : g[j] = l.free[j]
    <3>1. l.free \in Seq(1..m)
      BY <1>6 DEF Lists
    <3>2. IsFront(g, l.free)
      BY <1>8, <3>1, FrontIs
    <3> QED BY <2>1, <3>2 DEF IsFront
  <2>3. ASSUME NEW j \in 1..(n - 1) PROVE s[g[j]] = EmptySlot
    <3>1. j \in 1..n /\ j # n /\ n \in 1..n
      BY <2>1
    <3>2. l.free[n] = i
      BY <1>7, <2>1 DEF Last
    <3>3. l.free[j] # l.free[n]
      BY <1>6, <2>1, <3>1 DEF Lists
    <3>4. l.free[j] \in 1..m
      <4>1. l.free \in Seq(1..m)
        BY <1>6 DEF Lists
      <4> QED BY <2>1, <3>1, <4>1, InSeq
    <3>5. l.slots[l.free[j]] = EmptySlot
      BY <1>6, <2>1, <3>1
    <3> QED BY <1>11, <2>2, <3>2, <3>3, <3>4, <3>5
  <2> QED BY <1>14, <2>2, <2>3
<1>22. Placed(l, p, i, o, k, v)
  BY <1>1, <1>2, <1>5, <1>9, <1>11, <1>14, <1>15, <1>16, <1>17, <1>18, <1>19, <1>20, <1>21 DEF Placed
<1> QED BY <1>5, <1>7, <1>13, <1>22

LEMMA InsertedIs ==
  ASSUME NEW l, NEW o, NEW u, NEW K, LruOK(l, o, u, K), NEW k \in K, k \notin ToSet(u), NEW v
  PROVE  LET r == Inserted(l, k, v)
         IN  /\ \E n : LruOK(r, n, Cons(k, u), K)
             /\ Len(r.slots) = Len(l.slots) \/ Len(r.slots) <= Len(o) + 1
             /\ DOMAIN r.map = DOMAIN l.map \cup {k} /\ peek(r, k) = v
             /\ \A x \in DOMAIN l.map : peek(r, x) = peek(l, x)
<1>1. PICK c \in Nat : c = Len(o) /\ c = Len(u)
  BY DEF LruOK, KeysOK, Chain, Places
<1>2. LruShape(l) /\ Chain(l, o) /\ KeysOK(l, o, u, K) /\ FreeOK(l, o)
  BY DEF LruOK
<1>3. u \in Seq(K)
  BY <1>2 DEF KeysOK
<1>4. PICK w : w = [key |-> k, value |-> v, prev |-> 0, next |-> 0]
  OBVIOUS
<1>5. PICK i : i = IF l.free = <<>> THEN Len(l.slots) + 1 ELSE Last(l.free)
  OBVIOUS
<1>6. PICK p : p = IF l.free = <<>>
                   THEN [l EXCEPT !.slots = Append(@, w)]
                   ELSE [l EXCEPT !.slots = [@ EXCEPT ![i] = w], !.free = Front(@)]
  OBVIOUS
<1>7. Placed(l, p, i, o, k, v)
  <2>1. CASE l.free = << >>
    <3>1. Placed(l, [l EXCEPT !.slots = Append(@, w)], Len(l.slots) + 1, o, k, v)
      BY <1>4, <2>1, PlacedNew, Zenon
    <3> QED BY <1>5, <1>6, <2>1, <3>1, Zenon
  <2>2. CASE l.free # << >>
    <3>1. Placed(l, [l EXCEPT !.slots = [@ EXCEPT ![Last(l.free)] = w], !.free = Front(@)],
                 Last(l.free), o, k, v)
      BY <1>4, <2>2, PlacedFree, Zenon
    <3>2. i = Last(l.free)
      BY <1>5, <2>2, Zenon
    <3>3. p = [l EXCEPT !.slots = [@ EXCEPT ![i] = w], !.free = Front(@)]
      BY <1>6, <2>2, Zenon
    <3> QED BY <3>1, <3>2, <3>3, Zenon
  <2> QED BY <2>1, <2>2
<1>8. PICK a : a = push_front(p, i)
  OBVIOUS
<1>9. PICK q : q = [x \in DOMAIN a.map \cup {k} |-> IF x = k THEN i ELSE a.map[x]]
  OBVIOUS
<1>10. Inserted(l, k, v) = [a EXCEPT !.map = q]
  BY <1>4, <1>5, <1>6, <1>8, <1>9 DEF Inserted
<1>11. PICK m \in Nat : m = Len(p.slots)
  BY <1>7 DEF Placed, LruShape
<1>12. /\ LruShape(p) /\ Chain(p, o) /\ p.map = l.map /\ i \in 1..m
       /\ p.slots[i] = w /\ \A j \in 1..c : p.slots[o[j]] = l.slots[o[j]] /\ o[j] # i
  BY <1>1, <1>4, <1>7, <1>11 DEF Placed
<1>13. SlotOK(w) /\ w.key = k /\ w.value = v
  BY <1>4 DEF SlotOK
<1>14. Pushed(p, a, i) /\ Chain(a, Cons(i, o))
  <2>1. i \in 1..Len(p.slots) /\ SlotOK(p.slots[i]) /\ \A j \in 1..Len(o) : o[j] # i
    BY <1>1, <1>11, <1>12, <1>13
  <2> QED BY <1>8, <1>12, <2>1, PushedChain
<1>15. LruShape(a) /\ Len(a.slots) = m /\ a.free = p.free /\ a.map = l.map
  BY <1>11, <1>12, <1>14 DEF Pushed
<1>16. PICK r : r = [slots |-> a.slots, free |-> a.free, map |-> q, head |-> a.head, tail |-> a.tail]
  OBVIOUS
<1>17. [a EXCEPT !.map = q] = r
  <2>1. a = [slots |-> a.slots, free |-> a.free, map |-> a.map, head |-> a.head, tail |-> a.tail]
    BY <1>15 DEF LruShape
  <2> QED BY <1>16, <2>1
<1>18. r.slots = a.slots /\ r.free = p.free /\ r.map = q /\ r.head = a.head /\ r.tail = a.tail
  BY <1>15, <1>16
<1>19. o \in Seq(1..m) /\ \A j \in 1..c : o[j] \in 1..m
  <2>1. o \in Seq(1..m)
    BY <1>11, <1>12 DEF Chain, Places
  <2> QED BY <1>1, <2>1, InSeq
<1>20. PICK n \in Seq(1..m) : n = Cons(i, o) /\ Len(n) = c + 1 /\ n[1] = i
                              /\ \A j \in 1..c : n[j + 1] = o[j]
  <2>1. Cons(i, o) \in Seq(1..m) /\ IsCons(Cons(i, o), i, o)
    BY <1>12, <1>19, ConsIs
  <2> QED BY <1>1, <2>1 DEF IsCons
<1>21. PICK z \in Seq(K) : z = Cons(k, u) /\ Len(z) = c + 1 /\ z[1] = k
                           /\ \A j \in 1..c : z[j + 1] = u[j]
  <2>1. Cons(k, u) \in Seq(K) /\ IsCons(Cons(k, u), k, u)
    BY <1>3, ConsIs
  <2> QED BY <1>1, <2>1 DEF IsCons
<1>22. \A j \in 1..(c + 1) : j = 1 \/ \E h \in 1..c : j = h + 1
  <2>1. \A j \in 1..(c + 1) : j = 1 \/ (j - 1 \in 1..c /\ j = (j - 1) + 1)
    BY <1>1
  <2> QED BY <2>1
<1>23. \A j \in 1..c : j + 1 \in 1..(c + 1)
  BY <1>1
<1>24. LruShape(r)
  BY <1>15, <1>16, <1>18 DEF LruShape
<1>25. Chain(r, n)
  BY <1>14, <1>15, <1>18, <1>20 DEF Chain
<1>26. p.head = 0 \/ \E j \in 1..c : o[j] = p.head
  <2>1. p.head = IF c = 0 THEN 0 ELSE o[1]
    BY <1>1, <1>12 DEF Chain
  <2>2. c # 0 => 1 \in 1..c
    BY <1>1
  <2> QED BY <2>1, <2>2
<1>27. a.slots[i].key = k /\ a.slots[i].value = v
  BY <1>12, <1>13, <1>14 DEF Pushed
<1>28. \A j \in 1..c : /\ a.slots[o[j]].key = l.slots[o[j]].key
                       /\ a.slots[o[j]].value = l.slots[o[j]].value
  <2>1. ASSUME NEW j \in 1..c
        PROVE  a.slots[o[j]].key = p.slots[o[j]].key /\ a.slots[o[j]].value = p.slots[o[j]].value
    <3>1. o[j] \in 1..m /\ o[j] # i /\ o[j] # 0
      BY <1>12, <1>19
    <3>2. CASE o[j] = p.head
      BY <1>14, <3>1, <3>2 DEF Pushed
    <3>3. CASE o[j] # p.head
      <4>1. o[j] \in 1..Len(p.slots) \ {i, p.head}
        BY <1>11, <3>1, <3>3
      <4> QED BY <1>14, <4>1 DEF Pushed
    <3> QED BY <3>2, <3>3
  <2> QED BY <1>12, <2>1
<1>29. /\ DOMAIN l.map = ToSet(u)
       /\ \A h \in 1..c : l.map[u[h]] = o[h] /\ l.slots[o[h]].key = u[h]
  BY <1>1, <1>2 DEF KeysOK
<1>30. \A j \in 1..c : u[j] \in ToSet(u) /\ u[j] # k
  BY <1>1, <1>3, InSeq
<1>31. /\ DOMAIN q = DOMAIN l.map \cup {k} /\ q[k] = i
       /\ q = [x \in DOMAIN q |-> q[x]]
       /\ \A x \in DOMAIN l.map : q[x] = l.map[x]
  <2>1. q = [x \in DOMAIN l.map \cup {k} |-> IF x = k THEN i ELSE l.map[x]]
    BY <1>9, <1>15
  <2>2. k \notin DOMAIN l.map
    BY <1>29
  <2> QED BY <2>1, <2>2
<1>32. ToSet(z) = ToSet(u) \cup {k}
  <2>1. \A x : x \in ToSet(u) <=> \E j \in 1..c : u[j] = x
    BY <1>1, <1>3, InSeq
  <2>2. \A x : x \in ToSet(z) <=> \E j \in 1..(c + 1) : z[j] = x
    BY <1>21, InSeq
  <2>3. 1 \in 1..(c + 1)
    BY <1>1
  <2>4. ASSUME NEW x \in ToSet(z) PROVE x \in ToSet(u) \cup {k}
    <3>1. PICK j \in 1..(c + 1) : z[j] = x
      BY <2>2
    <3> QED BY <1>21, <1>22, <2>1, <3>1
  <2>5. ASSUME NEW x \in ToSet(u) \cup {k} PROVE x \in ToSet(z)
    BY <1>21, <1>23, <2>1, <2>2, <2>3
  <2> QED BY <2>4, <2>5
<1>33. ASSUME NEW j \in 1..(c + 1) PROVE q[z[j]] = n[j] /\ a.slots[n[j]].key = z[j]
  <2>1. CASE j = 1
    BY <1>20, <1>21, <1>27, <1>31, <2>1
  <2>2. CASE j # 1
    <3>1. PICK h \in 1..c : j = h + 1
      BY <1>22, <2>2
    <3>2. n[j] = o[h] /\ z[j] = u[h]
      BY <1>20, <1>21, <3>1
    <3>3. q[u[h]] = o[h]
      BY <1>29, <1>30, <1>31
    <3> QED BY <1>28, <1>29, <3>2, <3>3
  <2> QED BY <2>1, <2>2
<1>34. KeysOK(r, n, z, K)
  <2>1. q = [x \in ToSet(z) |-> q[x]]
    <3>1. PICK D : D = DOMAIN q
      OBVIOUS
    <3>2. ToSet(z) = D
      BY <1>29, <1>31, <1>32, <3>1
    <3> QED BY <1>31, <3>1, <3>2
  <2> QED BY <1>18, <1>20, <1>21, <1>33, <2>1, ZenonT(30) DEF KeysOK
<1>35. FreeOK(r, n)
  <2>1. Spare(r, n) = Spare(p, o) \ {i}
    <3>1. ASSUME NEW x \in 1..m
          PROVE  (\A j \in 1..(c + 1) : n[j] # x) <=> x # i /\ \A j \in 1..c : o[j] # x
      <4>1. 1 \in 1..(c + 1)
        BY <1>1
      <4>2. ASSUME \A j \in 1..(c + 1) : n[j] # x PROVE x # i /\ \A j \in 1..c : o[j] # x
        BY <1>20, <1>23, <4>1, <4>2
      <4>3. ASSUME x # i, \A j \in 1..c : o[j] # x, NEW j \in 1..(c + 1) PROVE n[j] # x
        BY <1>20, <1>22, <4>3
      <4> QED BY <4>2, <4>3
    <3>2. \A x : x \in Spare(r, n) <=> x \in 1..m /\ \A j \in 1..(c + 1) : n[j] # x
      BY <1>15, <1>18, <1>20 DEF Spare
    <3>3. \A x : x \in Spare(p, o) <=> x \in 1..m /\ \A j \in 1..c : o[j] # x
      BY <1>1, <1>11 DEF Spare
    <3> QED BY <3>1, <3>2, <3>3
  <2>2. Lists(p.free, m, Spare(p, o) \ {i})
        /\ \A j \in 1..Len(p.free) : p.slots[p.free[j]] = EmptySlot
    BY <1>7, <1>11 DEF Placed
  <2>3. PICK f : f = p.free
    OBVIOUS
  <2>4. ASSUME NEW j \in 1..Len(f) PROVE a.slots[f[j]] = EmptySlot
    <3>1. f[j] \in 1..m /\ f[j] \in Spare(p, o) \ {i}
      <4>1. f \in Seq(1..m)
        BY <2>2, <2>3 DEF Lists
      <4>2. f[j] \in 1..m
        BY <4>1, InSeq
      <4> QED BY <2>2, <2>3, <4>2 DEF Lists
    <3>2. \A h \in 1..c : o[h] # f[j]
      BY <1>1, <3>1 DEF Spare
    <3>3. f[j] # p.head
      BY <1>26, <3>1, <3>2
    <3>4. f[j] \in 1..Len(p.slots) \ {i, p.head}
      BY <1>11, <3>1, <3>3
    <3>5. a.slots[f[j]] = p.slots[f[j]]
      BY <1>14, <3>4 DEF Pushed
    <3> QED BY <2>2, <2>3, <3>5
  <2>5. Lists(r.free, Len(r.slots), Spare(r, n))
    BY <1>15, <1>18, <2>1, <2>2
  <2>6. \A j \in 1..Len(r.free) : r.slots[r.free[j]] = EmptySlot
    BY <1>18, <2>3, <2>4
  <2> QED BY <2>5, <2>6, FreeLists
<1>36. LruOK(r, n, z, K)
  BY <1>24, <1>25, <1>34, <1>35 DEF LruOK
<1>37. Len(r.slots) = Len(l.slots) \/ Len(r.slots) <= Len(o) + 1
  BY <1>7, <1>11, <1>15, <1>18 DEF Placed
<1>38. peek(r, k) = v
  BY <1>18, <1>27, <1>31 DEF peek
<1>39. ASSUME NEW x \in DOMAIN l.map PROVE peek(r, x) = peek(l, x)
  <2>1. PICK h \in 1..c : u[h] = x
    BY <1>1, <1>3, <1>29, InSeq
  <2>2. q[x] = o[h] /\ l.map[x] = o[h]
    BY <1>29, <1>31, <2>1
  <2> QED BY <1>18, <1>28, <2>2 DEF peek
<1>40. /\ \E b : LruOK(r, b, Cons(k, u), K)
       /\ DOMAIN r.map = DOMAIN l.map \cup {k}
  BY <1>18, <1>21, <1>31, <1>36
<1> QED BY <1>10, <1>17, <1>37, <1>38, <1>39, <1>40

LEMMA KeyCount ==
  ASSUME NEW l, NEW o, NEW u, NEW K, LruOK(l, o, u, K)
  PROVE  Cardinality(DOMAIN l.map) = Len(u)
<1>1. PICK c \in Nat : c = Len(o) /\ c = Len(u)
  BY DEF LruOK, KeysOK, Chain, Places
<1>2. u \in Seq(K) /\ DOMAIN l.map = ToSet(u)
  BY DEF LruOK, KeysOK
<1>3. \A a, b \in 1..c : u[a] = u[b] => a = b
  <2>1. ASSUME NEW a \in 1..Len(o), NEW b \in 1..Len(o), u[a] = u[b] PROVE a = b
    BY <2>1, KeysDiffer
  <2> QED BY <1>1, <2>1
<1>4. PICK T : T = ToSet(u)
  OBVIOUS
<1>5. \A x : x \in T <=> \E j \in 1..c : u[j] = x
  BY <1>1, <1>2, <1>4, InSeq
<1>6. u = [j \in 1..c |-> u[j]]
  BY <1>1, <1>2, InSeq
<1>7. u \in [1..c -> T]
  BY <1>5, <1>6
<1>8. u \in Surjection(1..c, T) /\ u \in Injection(1..c, T)
  BY <1>3, <1>5, <1>7 DEF Surjection, Injection, IsInjective, Range
<1>9. IsFiniteSet(1..c) /\ Cardinality(1..c) = c
  <2>1. 1 \in Int /\ c \in Int
    OBVIOUS
  <2>2. Cardinality(1..c) = IF 1 > c THEN 0 ELSE c - 1 + 1
    BY <2>1, FS_Interval
  <2>3. IsFiniteSet(1..c)
    BY <2>1, FS_Interval
  <2> QED BY <2>2, <2>3
<1>10. Cardinality(T) = Cardinality(1..c)
  BY <1>8, <1>9, FS_Surjection
<1> QED BY <1>1, <1>2, <1>4, <1>9, <1>10

LEMMA FrontDrops ==
  ASSUME NEW S, NEW s \in Seq(S), s # << >>
  PROVE  Front(s) = Drop(s, Len(s)) /\ Len(s) \in 1..Len(s)
<1>1. PICK n \in Nat : n = Len(s) /\ n # 0
  OBVIOUS
<1>2. n \in 1..n
  BY <1>1
<1>3. PICK t \in Seq(S) : t = Front(s) /\ Len(t) = n - 1 /\ \A j \in 1..(n - 1) : t[j] = s[j]
  <2>1. Front(s) \in Seq(S) /\ IsFront(Front(s), s)
    BY FrontIs
  <2> QED BY <1>1, <2>1 DEF IsFront
<1>4. PICK d \in Seq(S) : /\ d = Drop(s, n) /\ Len(d) = n - 1
                          /\ \A j \in 1..(n - 1) : d[j] = IF j < n THEN s[j] ELSE s[j + 1]
  <2>1. n \in 1..Len(s)
    BY <1>1, <1>2
  <2>2. Drop(s, n) \in Seq(S) /\ IsDrop(Drop(s, n), s, n)
    BY <2>1, DropIs
  <2> QED BY <1>1, <2>2 DEF IsDrop
<1>5. \A j \in 1..(n - 1) : t[j] = d[j]
  <2>1. \A j \in 1..(n - 1) : j < n
    OBVIOUS
  <2> QED BY <1>3, <1>4, <2>1
<1>6. t = d
  <2>1. t = [j \in 1..(n - 1) |-> t[j]] /\ d = [j \in 1..(n - 1) |-> d[j]]
    BY <1>3, <1>4, InSeq
  <2> QED BY <1>5, <2>1
<1> QED BY <1>1, <1>2, <1>3, <1>4, <1>6

LEMMA RemoveDrops ==
  ASSUME NEW S, NEW s \in Seq(S), NEW k \in 1..Len(s)
  PROVE  RemoveAt(s, k) = Drop(s, k)
<1>1. PICK n \in Nat : n = Len(s)
  OBVIOUS
<1>2. \A j \in 1..n : s[j] \in S
  BY <1>1, InSeq
<1>3. PICK a \in Seq(S) : /\ a = SubSeq(s, 1, k - 1) /\ Len(a) = k - 1
                          /\ \A j \in 1..(k - 1) : a[j] = s[j]
  <2>1. PICK h \in Int : h = k - 1 /\ h >= 0 /\ h <= n
    BY <1>1
  <2>2. 1 \in Int /\ \A j \in 1..h : s[j] \in S
    BY <1>2, <2>1
  <2>3. PICK a : a = SubSeq(s, 1, h)
    OBVIOUS
  <2>4. /\ a \in Seq(S) /\ Len(a) = IF 1 <= h THEN h - 1 + 1 ELSE 0
        /\ \A j \in 1..(h - 1 + 1) : a[j] = s[1 + j - 1]
    BY <2>2, <2>3, SubSeqProperties
  <2>5. h - 1 + 1 = h /\ \A j \in 1..h : 1 + j - 1 = j
    BY <2>1
  <2>6. Len(a) = h
    BY <2>1, <2>4
  <2>7. \A j \in 1..h : a[j] = s[j]
    BY <2>4, <2>5
  <2> QED BY <2>1, <2>3, <2>4, <2>6, <2>7
<1>4. PICK b \in Seq(S) : /\ b = SubSeq(s, k + 1, n) /\ Len(b) = n - k
                          /\ \A j \in 1..(n - k) : b[j] = s[k + j]
  <2>1. PICK h \in Int : h = k + 1 /\ h >= 1 /\ h <= n + 1
    BY <1>1
  <2>2. n \in Int /\ \A j \in h..n : s[j] \in S
    BY <1>2, <2>1
  <2>3. PICK b : b = SubSeq(s, h, n)
    OBVIOUS
  <2>4. /\ b \in Seq(S) /\ Len(b) = IF h <= n THEN n - h + 1 ELSE 0
        /\ \A j \in 1..(n - h + 1) : b[j] = s[h + j - 1]
    BY <2>2, <2>3, SubSeqProperties
  <2>5. n - h + 1 = n - k /\ \A j \in 1..(n - k) : h + j - 1 = k + j
    BY <1>1, <2>1
  <2>6. Len(b) = n - k
    BY <1>1, <2>1, <2>4
  <2>7. \A j \in 1..(n - k) : b[j] = s[k + j]
    BY <2>4, <2>5
  <2> QED BY <2>1, <2>3, <2>4, <2>6, <2>7
<1>5. PICK t \in Seq(S) : /\ t = RemoveAt(s, k) /\ Len(t) = Len(a) + Len(b)
                          /\ \A j \in 1..(Len(a) + Len(b)) :
                                t[j] = IF j <= Len(a) THEN a[j] ELSE b[j - Len(a)]
  <2>1. /\ a \o b \in Seq(S) /\ Len(a \o b) = Len(a) + Len(b)
        /\ \A j \in 1..(Len(a) + Len(b)) :
              (a \o b)[j] = IF j <= Len(a) THEN a[j] ELSE b[j - Len(a)]
    BY ConcatProperties, Zenon
  <2>2. RemoveAt(s, k) = a \o b
    BY <1>1, <1>3, <1>4, Zenon DEF RemoveAt
  <2>3. PICK t : t = a \o b
    OBVIOUS
  <2>4. /\ t \in Seq(S) /\ Len(t) = Len(a) + Len(b)
        /\ \A j \in 1..(Len(a) + Len(b)) : t[j] = IF j <= Len(a) THEN a[j] ELSE b[j - Len(a)]
    BY <2>1, <2>3, Zenon
  <2>5. t = RemoveAt(s, k)
    BY <2>2, <2>3, Zenon
  <2> QED BY <2>4, <2>5, Zenon
<1>6. Len(a) + Len(b) = n - 1 /\ Len(a) = k - 1
  <2>1. Len(a) = k - 1
    BY <1>3, Zenon
  <2>2. Len(b) = n - k
    BY <1>4, Zenon
  <2>3. (k - 1) + (n - k) = n - 1
    BY <1>1
  <2> QED BY <2>1, <2>2, <2>3
<1>7. PICK d \in Seq(S) : /\ d = Drop(s, k) /\ Len(d) = n - 1
                          /\ \A j \in 1..(n - 1) : d[j] = IF j < k THEN s[j] ELSE s[j + 1]
  <2>1. Drop(s, k) \in Seq(S) /\ IsDrop(Drop(s, k), s, k)
    BY DropIs
  <2> QED BY <1>1, <2>1 DEF IsDrop
<1>8. ASSUME NEW j \in 1..(n - 1) PROVE t[j] = d[j]
  <2>1. t[j] = IF j <= k - 1 THEN a[j] ELSE b[j - (k - 1)]
    BY <1>5, <1>6
  <2>2. CASE j < k
    <3>1. j <= k - 1 /\ j \in 1..(k - 1)
      BY <2>2
    <3> QED BY <1>3, <1>7, <2>1, <2>2, <3>1
  <2>3. CASE ~(j < k)
    <3>1. ~(j <= k - 1) /\ j - (k - 1) \in 1..(n - k) /\ k + (j - (k - 1)) = j + 1
      BY <1>1, <2>3
    <3>2. b[j - (k - 1)] = s[j + 1]
      BY <1>4, <3>1
    <3> QED BY <1>7, <2>1, <2>3, <3>1, <3>2
  <2> QED BY <2>2, <2>3
<1>9. t = [j \in 1..(n - 1) |-> t[j]] /\ d = [j \in 1..(n - 1) |-> d[j]]
  BY <1>5, <1>6, <1>7, InSeq
<1>10. t = d
  BY <1>8, <1>9
<1> QED BY <1>5, <1>7, <1>10

LEMMA WithoutIs ==
  ASSUME NEW l, NEW o, NEW u, NEW K, LruOK(l, o, u, K), NEW k \in 1..Len(o)
  PROVE  Without(u, u[k]) = Drop(u, k)
<1>1. u \in Seq(K) /\ Len(u) = Len(o)
  BY DEF LruOK, KeysOK
<1>2. k \in 1..Len(u)
  BY <1>1
<1>3. u[k] \in ToSet(u)
  BY <1>1, <1>2, InSeq
<1>4. \A i \in 1..Len(u) : u[i] = u[k] => i = k
  BY <1>1, <1>2, KeysDiffer
<1>5. (CHOOSE i \in 1..Len(u) : u[i] = u[k]) = k
  BY <1>2, <1>4
<1>6. Without(u, u[k]) = RemoveAt(u, k)
  BY <1>3, <1>5, Zenon DEF Without
<1>7. RemoveAt(u, k) = Drop(u, k)
  BY <1>1, <1>2, RemoveDrops
<1> QED BY <1>6, <1>7

\* The cache holds the keys of u, in the order of their use, and no more than it may.
CacheOK(l, u, K) ==
  /\ \E o : LruOK(l, o, u, K)
  /\ Len(u) <= CacheCapacity /\ Len(l.slots) <= CacheCapacity + 1

LEMMA CacheLens ==
  ASSUME NEW l, NEW o, NEW u, NEW K, LruOK(l, o, u, K)
  PROVE  /\ u \in Seq(K) /\ Len(u) \in Nat /\ Len(u) = Len(o) /\ Len(l.slots) \in Nat
         /\ o \in Seq(1..Len(l.slots)) /\ DOMAIN l.map = ToSet(u)
         /\ \A j \in 1..Len(o) : l.map[u[j]] = o[j]
<1>1. u \in Seq(K) /\ Len(u) = Len(o) /\ DOMAIN l.map = ToSet(u)
      /\ \A j \in 1..Len(o) : l.map[u[j]] = o[j]
  BY DEF LruOK, KeysOK
<1>2. Len(u) \in Nat
  BY <1>1, LenNat
<1>3. Len(l.slots) \in Nat
  BY DEF LruOK, LruShape
<1>4. o \in Seq(1..Len(l.slots))
  BY DEF LruOK, Chain, Places
<1> QED BY <1>1, <1>2, <1>3, <1>4

LEMMA EmptyIs ==
  ASSUME NEW K
  PROVE  CacheOK(EmptyLru, << >>, K) /\ DOMAIN EmptyLru.map = {}
<1>1. PICK l : l = EmptyLru
  OBVIOUS
<1>2. /\ l.slots = << >> /\ l.free = << >> /\ l.map = << >> /\ l.head = 0 /\ l.tail = 0
      /\ l = [slots |-> l.slots, free |-> l.free, map |-> l.map, head |-> l.head, tail |-> l.tail]
  BY <1>1 DEF EmptyLru
<1>3. PICK e : e = << >> /\ Len(e) = 0 /\ e \in Seq(K) /\ e \in Seq(1..0) /\ 1..0 = {}
               /\ DOMAIN e = {}
  <2>1. PICK e : e = << >>
    OBVIOUS
  <2>2. Len(e) = 0 /\ 1..0 = {}
    BY <2>1
  <2>3. e \in Seq(K) /\ e \in Seq(1..0)
    BY <2>1, EmptySeq
  <2>4. DOMAIN e = 1..Len(e)
    BY <2>3
  <2> QED BY <2>1, <2>2, <2>3, <2>4
<1>4. l.slots = e /\ l.free = e /\ l.map = e
  BY <1>2, <1>3
<1>5. e = [i \in 1..0 |-> e[i]] /\ 0 \in Nat
  BY <1>3
<1>6. LruShape(l)
  BY <1>2, <1>3, <1>4, <1>5 DEF LruShape
<1>7. Chain(l, e)
  BY <1>2, <1>3, <1>4 DEF Chain, Places
<1>8. FreeOK(l, e)
  BY <1>3, <1>4 DEF FreeOK
<1>9. KeysOK(l, e, e, K)
  <2>1. ToSet(e) = {}
    BY <1>3 DEF ToSet
  <2>2. PICK D : D = ToSet(e)
    OBVIOUS
  <2>3. e = [x \in D |-> e[x]]
    BY <1>3, <2>1, <2>2
  <2>4. l.map = [x \in ToSet(e) |-> l.map[x]]
    BY <1>4, <2>2, <2>3
  <2> QED BY <1>3, <2>4 DEF KeysOK
<1>10. LruOK(l, e, e, K)
  BY <1>6, <1>7, <1>8, <1>9 DEF LruOK
<1>11. CacheOK(l, e, K)
  BY <1>3, <1>4, <1>10, LruAssumption DEF CacheOK
<1> QED BY <1>1, <1>3, <1>4, <1>11

LEMMA GetIs ==
  ASSUME NEW l, NEW u, NEW K, CacheOK(l, u, K), NEW k \in DOMAIN l.map
  PROVE  LET r == LruGet(l, k)
         IN  /\ CacheOK(r, Trimmed(Cons(k, Without(u, k))), K)
             /\ DOMAIN r.map = DOMAIN l.map
             /\ \A x \in DOMAIN r.map : peek(r, x) = peek(l, x)
<1>1. PICK o : LruOK(l, o, u, K)
  BY DEF CacheOK
<1>2. Len(u) <= CacheCapacity /\ Len(l.slots) <= CacheCapacity + 1
  BY DEF CacheOK
<1>3. /\ u \in Seq(K) /\ Len(u) \in Nat /\ Len(u) = Len(o) /\ DOMAIN l.map = ToSet(u)
      /\ \A j \in 1..Len(o) : l.map[u[j]] = o[j]
  BY <1>1, CacheLens
<1>4. PICK j \in 1..Len(o) : u[j] = k
  BY <1>3, InSeq
<1>5. PICK r : r = LruGet(l, k)
  OBVIOUS
<1>6. r = move_to_front(l, o[j])
  BY <1>3, <1>4, <1>5 DEF LruGet
<1>7. /\ LruOK(r, Cons(o[j], Drop(o, j)), Cons(u[j], Drop(u, j)), K)
      /\ Len(r.slots) = Len(l.slots) /\ DOMAIN r.map = DOMAIN l.map
      /\ \A x \in DOMAIN l.map : peek(r, x) = peek(l, x)
  BY <1>1, <1>6, MoveIs
<1>8. Without(u, k) = Drop(u, j)
  BY <1>1, <1>4, WithoutIs
<1>9. Len(Cons(k, Drop(u, j))) = Len(u)
  <2>1. j \in 1..Len(u)
    BY <1>3
  <2>2. Drop(u, j) \in Seq(K) /\ IsDrop(Drop(u, j), u, j)
    BY <1>3, <2>1, DropIs
  <2>3. k \in K
    BY <1>3, <1>4, <2>1, InSeq
  <2>4. IsCons(Cons(k, Drop(u, j)), k, Drop(u, j))
    BY <2>2, <2>3, ConsIs
  <2>5. Len(Drop(u, j)) = Len(u) - 1
    BY <2>2 DEF IsDrop
  <2>6. Len(Cons(k, Drop(u, j))) = Len(Drop(u, j)) + 1
    BY <2>4 DEF IsCons
  <2> QED BY <1>3, <2>5, <2>6
<1>10. Trimmed(Cons(k, Without(u, k))) = Cons(k, Drop(u, j))
  <2>1. ~(Len(Cons(k, Drop(u, j))) > CacheCapacity)
    BY <1>2, <1>3, <1>9, LruAssumption
  <2> QED BY <1>8, <2>1 DEF Trimmed
<1>11. CacheOK(r, Cons(k, Drop(u, j)), K)
  BY <1>2, <1>4, <1>7, <1>9 DEF CacheOK
<1> QED BY <1>5, <1>7, <1>10, <1>11

LEMMA RemoveIs ==
  ASSUME NEW l, NEW u, NEW K, CacheOK(l, u, K), NEW k
  PROVE  LET r == LruRemove(l, k)
         IN  /\ CacheOK(r, Without(u, k), K)
             /\ DOMAIN r.map = DOMAIN l.map \ {k}
             /\ \A x \in DOMAIN r.map : peek(r, x) = peek(l, x)
<1>1. PICK o : LruOK(l, o, u, K)
  BY DEF CacheOK
<1>2. Len(u) <= CacheCapacity /\ Len(l.slots) <= CacheCapacity + 1
  BY DEF CacheOK
<1>3. /\ u \in Seq(K) /\ Len(u) \in Nat /\ Len(u) = Len(o) /\ DOMAIN l.map = ToSet(u)
      /\ \A j \in 1..Len(o) : l.map[u[j]] = o[j]
  BY <1>1, CacheLens
<1>4. PICK r : r = LruRemove(l, k)
  OBVIOUS
<1>5. CASE k \in DOMAIN l.map
  <2>1. PICK j \in 1..Len(o) : u[j] = k
    BY <1>3, <1>5, InSeq
  <2>2. r = Release(l, o[j])
    BY <1>3, <1>4, <1>5, <2>1 DEF LruRemove, Cached
  <2>3. /\ LruOK(r, Drop(o, j), Drop(u, j), K)
        /\ Len(r.slots) = Len(l.slots) /\ DOMAIN r.map = DOMAIN l.map \ {u[j]}
        /\ \A x \in DOMAIN r.map : peek(r, x) = peek(l, x)
    BY <1>1, <2>2, ReleaseIs
  <2>4. Without(u, k) = Drop(u, j)
    BY <1>1, <2>1, WithoutIs
  <2>5. Len(Drop(u, j)) = Len(u) - 1
    <3>1. j \in 1..Len(u)
      BY <1>3
    <3> QED BY <1>3, <3>1, DropIs DEF IsDrop
  <2>6. Len(Drop(u, j)) <= CacheCapacity
    BY <1>2, <1>3, <2>5, LruAssumption
  <2>7. CacheOK(r, Drop(u, j), K)
    BY <1>2, <2>3, <2>6 DEF CacheOK
  <2> QED BY <1>4, <2>1, <2>3, <2>4, <2>7
<1>6. CASE k \notin DOMAIN l.map
  <2>1. r = l
    BY <1>4, <1>6 DEF LruRemove, Cached
  <2>2. Without(u, k) = u
    BY <1>3, <1>6 DEF Without
  <2> QED BY <1>4, <1>6, <2>1, <2>2
<1> QED BY <1>5, <1>6

LEMMA PutIs ==
  ASSUME NEW l, NEW u, NEW K, CacheOK(l, u, K), NEW k \in K, k \notin DOMAIN l.map, NEW v
  PROVE  LET r == LruPut(l, k, v)
         IN  /\ CacheOK(r, Trimmed(Cons(k, Without(u, k))), K)
             /\ DOMAIN r.map \subseteq DOMAIN l.map \cup {k}
             /\ \A x \in DOMAIN r.map : peek(r, x) = IF x = k THEN v ELSE peek(l, x)
<1>1. PICK o : LruOK(l, o, u, K)
  BY DEF CacheOK
<1>2. Len(u) <= CacheCapacity /\ Len(l.slots) <= CacheCapacity + 1
  BY DEF CacheOK
<1>3. /\ u \in Seq(K) /\ Len(u) \in Nat /\ Len(u) = Len(o) /\ DOMAIN l.map = ToSet(u)
      /\ Len(l.slots) \in Nat
  BY <1>1, CacheLens
<1>4. PICK r : r = LruPut(l, k, v)
  OBVIOUS
<1>5. PICK a : a = Inserted(l, k, v)
  OBVIOUS
<1>6. k \notin ToSet(u) /\ Without(u, k) = u
  BY <1>3 DEF Without
<1>7. PICK z : z = Cons(k, u)
  OBVIOUS
<1>8. /\ \E n : LruOK(a, n, z, K)
      /\ Len(a.slots) = Len(l.slots) \/ Len(a.slots) <= Len(o) + 1
      /\ DOMAIN a.map = DOMAIN l.map \cup {k} /\ peek(a, k) = v
      /\ \A x \in DOMAIN l.map : peek(a, x) = peek(l, x)
  BY <1>1, <1>5, <1>6, <1>7, InsertedIs
<1>9. PICK n : LruOK(a, n, z, K)
  BY <1>8
<1>10. z \in Seq(K) /\ Len(z) = Len(u) + 1
  <2>1. Cons(k, u) \in Seq(K) /\ IsCons(Cons(k, u), k, u)
    BY <1>3, ConsIs
  <2> QED BY <1>7, <2>1 DEF IsCons
<1>11. /\ Len(n) = Len(z) /\ Len(a.slots) \in Nat /\ n \in Seq(1..Len(a.slots))
  BY <1>9, CacheLens
<1>12. Len(a.slots) <= CacheCapacity + 1
  BY <1>2, <1>3, <1>8, <1>11, LruAssumption
<1>13. Cardinality(DOMAIN a.map) = Len(z)
  BY <1>9, KeyCount
<1>14. r = IF Len(z) > CacheCapacity THEN evict_tail(a) ELSE a
  BY <1>4, <1>5, <1>13 DEF LruPut, Cached
<1>15. \A x \in DOMAIN a.map : peek(a, x) = IF x = k THEN v ELSE peek(l, x)
  BY <1>8
<1>16. CASE Len(z) > CacheCapacity
  <2>1. z # << >> /\ Len(z) \in 1..Len(z) /\ Len(z) \in 1..Len(n)
    BY <1>3, <1>10, <1>11
  <2>2. a.tail = n[Len(z)] /\ a.tail # 0
    <3>1. n[Len(z)] \in 1..Len(a.slots)
      BY <1>11, <2>1, InSeq
    <3>2. n[Len(z)] # 0
      BY <1>11, <3>1
    <3>3. Chain(a, n)
      BY <1>9 DEF LruOK
    <3>4. Len(n) # 0
      BY <1>3, <1>10, <1>11
    <3> QED BY <1>11, <3>2, <3>3, <3>4 DEF Chain
  <2>3. r = Release(a, n[Len(z)])
    BY <1>14, <1>16, <2>2 DEF evict_tail
  <2>4. /\ LruOK(r, Drop(n, Len(z)), Drop(z, Len(z)), K)
        /\ Len(r.slots) = Len(a.slots) /\ DOMAIN r.map = DOMAIN a.map \ {z[Len(z)]}
        /\ \A x \in DOMAIN r.map : peek(r, x) = peek(a, x)
    BY <1>9, <2>1, <2>3, ReleaseIs
  <2>5. Trimmed(Cons(k, Without(u, k))) = Drop(z, Len(z))
    <3>1. Front(z) = Drop(z, Len(z))
      BY <1>10, <2>1, FrontDrops
    <3> QED BY <1>6, <1>7, <1>16, <3>1 DEF Trimmed
  <2>6. Len(Drop(z, Len(z))) <= CacheCapacity
    <3>1. Len(Drop(z, Len(z))) = Len(z) - 1
      BY <1>10, <2>1, DropIs DEF IsDrop
    <3> QED BY <1>2, <1>3, <1>10, <3>1, LruAssumption
  <2>7. CacheOK(r, Drop(z, Len(z)), K)
    BY <1>12, <2>4, <2>6 DEF CacheOK
  <2>8. DOMAIN r.map \subseteq DOMAIN a.map
    BY <2>4
  <2>9. \A x \in DOMAIN r.map : peek(r, x) = IF x = k THEN v ELSE peek(l, x)
    BY <1>15, <2>4, <2>8
  <2> QED BY <1>4, <1>8, <2>5, <2>7, <2>8, <2>9
<1>17. CASE ~(Len(z) > CacheCapacity)
  <2>1. r = a
    BY <1>14, <1>17
  <2>2. Trimmed(Cons(k, Without(u, k))) = z
    BY <1>6, <1>7, <1>17 DEF Trimmed
  <2>3. Len(z) <= CacheCapacity
    BY <1>3, <1>10, <1>17, LruAssumption
  <2>4. CacheOK(r, z, K)
    BY <1>9, <1>12, <2>1, <2>3 DEF CacheOK
  <2> QED BY <1>4, <1>8, <1>15, <2>1, <2>2, <2>4
<1> QED BY <1>16, <1>17

\* The walk along the links comes to the places of w, one after the other, and to 0 after them.
WalkStep(l, from, link, at, n) ==
  IF n = 1 THEN from ELSE IF at[n - 1] = 0 THEN 0 ELSE l.slots[at[n - 1]][link]
Walk(l, from, link, at) ==
  at = [n \in 1..(Len(l.slots) + 1) |-> WalkStep(l, from, link, at, n)]

WalkAlong(l, from, link, w, m, c) ==
  /\ m \in Nat /\ m = Len(l.slots) /\ c \in Nat /\ c <= m
  /\ from = IF c = 0 THEN 0 ELSE w[1]
  /\ \A j \in 1..c : w[j] # 0 /\ l.slots[w[j]][link] = IF j = c THEN 0 ELSE w[j + 1]

LEMMA WalkIs ==
  ASSUME NEW l, NEW from, NEW link, NEW w, NEW m, NEW c, WalkAlong(l, from, link, w, m, c)
  PROVE  /\ \E at : Walk(l, from, link, at)
         /\ \A at : Walk(l, from, link, at) =>
               \A n \in 1..(m + 1) : at[n] = IF n <= c THEN w[n] ELSE 0
<1>0. /\ m \in Nat /\ m = Len(l.slots) /\ c \in Nat /\ c <= m
      /\ from = IF c = 0 THEN 0 ELSE w[1]
      /\ \A j \in 1..c : w[j] # 0 /\ l.slots[w[j]][link] = IF j = c THEN 0 ELSE w[j + 1]
  BY DEF WalkAlong
<1>1. PICK x : x = [n \in 1..(m + 1) |-> IF n <= c THEN w[n] ELSE 0]
  OBVIOUS
<1>2. \A n \in 1..(m + 1) : n = 1 \/ n - 1 \in 1..(m + 1)
  BY <1>0
<1>3. ASSUME NEW at, NEW n \in 1..(m + 1),
             n # 1 => at[n - 1] = IF n - 1 <= c THEN w[n - 1] ELSE 0
      PROVE  WalkStep(l, from, link, at, n) = IF n <= c THEN w[n] ELSE 0
  <2>1. CASE n = 1
    <3>1. n <= c <=> c # 0
      BY <1>0, <2>1
    <3> QED BY <1>0, <2>1, <3>1 DEF WalkStep
  <2>2. CASE n # 1
    <3>1. PICK h \in Nat : h = n - 1 /\ n = h + 1 /\ h # 0 /\ h \in 1..(m + 1)
      BY <1>0, <1>2, <2>2
    <3>2. at[h] = IF h <= c THEN w[h] ELSE 0
      BY <1>3, <2>2, <3>1
    <3>3. WalkStep(l, from, link, at, n) = IF at[h] = 0 THEN 0 ELSE l.slots[at[h]][link]
      BY <2>2, <3>1 DEF WalkStep
    <3>4. CASE h <= c
      <4>1. h \in 1..c
        BY <1>0, <3>1, <3>4
      <4>2. at[h] = w[h] /\ at[h] # 0 /\ l.slots[w[h]][link] = IF h = c THEN 0 ELSE w[h + 1]
        BY <1>0, <3>2, <3>4, <4>1
      <4>3. n <= c <=> h # c
        BY <1>0, <3>1, <3>4
      <4> QED BY <3>1, <3>3, <4>2, <4>3
    <3>5. CASE ~(h <= c)
      <4>1. ~(n <= c)
        BY <1>0, <3>1, <3>5
      <4> QED BY <3>2, <3>3, <3>5, <4>1
    <3> QED BY <3>4, <3>5
  <2> QED BY <2>1, <2>2
<1>4. Walk(l, from, link, x)
  <2>1. \A n \in 1..(m + 1) : x[n] = IF n <= c THEN w[n] ELSE 0
    BY <1>1
  <2>2. \A n \in 1..(m + 1) : WalkStep(l, from, link, x, n) = x[n]
    BY <1>2, <1>3, <2>1
  <2>3. x = [n \in 1..(m + 1) |-> x[n]]
    BY <1>1
  <2>4. x = [n \in 1..(m + 1) |-> WalkStep(l, from, link, x, n)]
    BY <2>2, <2>3
  <2> QED BY <1>0, <2>4 DEF Walk
<1>5. ASSUME NEW at, Walk(l, from, link, at)
      PROVE  \A n \in 1..(m + 1) : at[n] = IF n <= c THEN w[n] ELSE 0
  <2> DEFINE Off == {n \in 1..(m + 1) : at[n] # IF n <= c THEN w[n] ELSE 0}
  <2>1. \A n \in 1..(m + 1) : at[n] = WalkStep(l, from, link, at, n)
    BY <1>0, <1>5 DEF Walk
  <2>2. ASSUME Off # {} PROVE FALSE
    <3>1. Off \subseteq 0..(m + 1) /\ m + 1 \in Nat
      BY <1>0
    <3>2. PICK n \in Off : \A y \in Off : n <= y
      <4> HIDE DEF Off
      <4> QED BY <2>2, <3>1, FirstNumber
    <3>3. n \in 1..(m + 1) /\ at[n] # IF n <= c THEN w[n] ELSE 0
      OBVIOUS
    <3>4. n # 1 => n - 1 \in 1..(m + 1) /\ n - 1 \notin Off
      <4>1. n # 1 => n - 1 \in 1..(m + 1) /\ ~(n <= n - 1)
        BY <1>0, <3>3
      <4> HIDE DEF Off
      <4> QED BY <3>2, <4>1
    <3>5. n # 1 => at[n - 1] = IF n - 1 <= c THEN w[n - 1] ELSE 0
      BY <3>4
    <3>6. WalkStep(l, from, link, at, n) = IF n <= c THEN w[n] ELSE 0
      BY <1>3, <3>3, <3>5
    <3> QED BY <2>1, <3>3, <3>6
  <2> QED BY <2>2
<1> QED BY <1>4, <1>5

LEMMA LinksAre ==
  ASSUME NEW l, NEW from, NEW link, NEW w, NEW m, NEW c, WalkAlong(l, from, link, w, m, c)
  PROVE  Links(l, from, link) = [j \in 1..c |-> l.slots[w[j]].key]
<1> DEFINE at == CHOOSE f : f = [n \in 1..(Len(l.slots) + 1) |->
                    IF n = 1 THEN from ELSE IF f[n - 1] = 0 THEN 0 ELSE l.slots[f[n - 1]][link]]
           visited == {n \in 1..Len(l.slots) : at[n] # 0}
<1>0. m \in Nat /\ m = Len(l.slots) /\ c \in Nat /\ c <= m /\ \A j \in 1..c : w[j] # 0
  BY DEF WalkAlong
<1>1. Links(l, from, link) = [j \in 1..Cardinality(visited) |-> l.slots[at[j]].key]
  BY DEF Links
<1>2. \A f : Walk(l, from, link, f) <=>
             f = [n \in 1..(Len(l.slots) + 1) |->
                    IF n = 1 THEN from ELSE IF f[n - 1] = 0 THEN 0 ELSE l.slots[f[n - 1]][link]]
  BY DEF Walk, WalkStep
<1>3. Walk(l, from, link, at)
  <2>1. \E f : Walk(l, from, link, f)
    BY WalkIs
  <2> QED BY <1>2, <2>1
<1> HIDE DEF at
<1>4. \A n \in 1..(m + 1) : at[n] = IF n <= c THEN w[n] ELSE 0
  BY <1>3, WalkIs
<1>5. visited = 1..c
  BY <1>0, <1>4
<1>6. Cardinality(1..c) = c
  <2>1. 1 \in Int /\ c \in Int
    BY <1>0
  <2>2. Cardinality(1..c) = IF 1 > c THEN 0 ELSE c - 1 + 1
    BY <2>1, FS_Interval
  <2> QED BY <1>0, <2>2
<1>7. \A j \in 1..c : at[j] = w[j]
  BY <1>0, <1>4
<1> HIDE DEF visited
<1>8. Links(l, from, link) = [j \in 1..c |-> l.slots[at[j]].key]
  BY <1>1, <1>5, <1>6
<1> QED BY <1>7, <1>8

\* A list of places without repetition is no longer than there are places.
LEMMA PlacesFit ==
  ASSUME NEW m \in Nat, NEW o, Places(o, m)
  PROVE  Len(o) \in Nat /\ Len(o) <= m
<1>1. PICK c \in Nat : c = Len(o)
  BY LenNat DEF Places
<1>2. o \in Seq(1..m) /\ \A a, b \in 1..c : o[a] = o[b] => a = b
  BY <1>1 DEF Places
<1>3. o \in [1..c -> 1..m]
  BY <1>1, <1>2
<1>4. o \in Injection(1..c, 1..m)
  BY <1>2, <1>3 DEF Injection, IsInjective
<1>5. IsFiniteSet(1..m) /\ Cardinality(1..c) = c /\ Cardinality(1..m) = m
  <2>1. 1 \in Int /\ c \in Int /\ m \in Int
    OBVIOUS
  <2>2. Cardinality(1..c) = IF 1 > c THEN 0 ELSE c - 1 + 1
    BY <2>1, FS_Interval
  <2>3. Cardinality(1..m) = IF 1 > m THEN 0 ELSE m - 1 + 1
    BY <2>1, FS_Interval
  <2>4. IsFiniteSet(1..m)
    BY <2>1, FS_Interval
  <2> QED BY <2>2, <2>3, <2>4
<1>6. Cardinality(1..c) <= Cardinality(1..m)
  BY <1>4, <1>5, FS_Injection
<1> QED BY <1>1, <1>5, <1>6

LEMMA OrdersAre ==
  ASSUME NEW l, NEW o, NEW u, NEW K, LruOK(l, o, u, K)
  PROVE  mru_order(l) = u /\ lru_order(l) = Reverse(u)
<1>1. PICK m \in Nat : m = Len(l.slots)
  BY DEF LruOK, LruShape
<1>2. PICK c \in Nat : c = Len(o) /\ c = Len(u)
  BY CacheLens
<1>3. Chain(l, o) /\ Places(o, m)
  BY <1>1 DEF LruOK, Chain
<1>4. c <= m
  BY <1>1, <1>2, <1>3, PlacesFit
<1>5. \A j \in 1..c : o[j] \in 1..m /\ o[j] # 0
  <2>1. o \in Seq(1..m)
    BY <1>3 DEF Places
  <2>2. \A j \in 1..c : o[j] \in 1..m
    BY <1>2, <2>1, InSeq
  <2> QED BY <2>2
<1>6. \A j \in 1..c : /\ l.slots[o[j]].next = IF j = c THEN 0 ELSE o[j + 1]
                      /\ l.slots[o[j]].prev = IF j = 1 THEN 0 ELSE o[j - 1]
  BY <1>2, <1>3 DEF Chain, NextOf, PrevOf
<1>7. l.head = (IF c = 0 THEN 0 ELSE o[1]) /\ l.tail = (IF c = 0 THEN 0 ELSE o[c])
  BY <1>2, <1>3 DEF Chain
<1>8. u \in Seq(K) /\ \A j \in 1..c : l.slots[o[j]].key = u[j]
  BY <1>2 DEF LruOK, KeysOK
<1>9. mru_order(l) = u
  <2>1. WalkAlong(l, l.head, "next", o, m, c)
    BY <1>1, <1>4, <1>5, <1>6, <1>7 DEF WalkAlong
  <2>2. mru_order(l) = [j \in 1..c |-> l.slots[o[j]].key]
    BY <2>1, LinksAre DEF mru_order
  <2>3. u = [j \in 1..c |-> u[j]]
    BY <1>2, <1>8, InSeq
  <2> QED BY <1>8, <2>2, <2>3
<1>10. lru_order(l) = Reverse(u)
  <2>1. PICK w : w = [j \in 1..c |-> o[(c - j) + 1]]
    OBVIOUS
  <2>2. \A j \in 1..c : (c - j) + 1 \in 1..c
    OBVIOUS
  <2>3. l.tail = IF c = 0 THEN 0 ELSE w[1]
    <3>1. c # 0 => 1 \in 1..c /\ (c - 1) + 1 = c
      OBVIOUS
    <3> QED BY <1>7, <2>1, <3>1
  <2>4. ASSUME NEW j \in 1..c
        PROVE  w[j] # 0 /\ l.slots[w[j]].prev = IF j = c THEN 0 ELSE w[j + 1]
    <3>1. PICK h \in 1..c : h = (c - j) + 1 /\ w[j] = o[h]
      BY <2>1, <2>2
    <3>2. h = 1 <=> j = c
      BY <3>1
    <3>3. j # c => w[j + 1] = o[h - 1]
      <4>1. j # c => j + 1 \in 1..c /\ (c - (j + 1)) + 1 = h - 1
        BY <3>1
      <4> QED BY <2>1, <4>1
    <3> QED BY <1>5, <1>6, <3>1, <3>2, <3>3
  <2>5. WalkAlong(l, l.tail, "prev", w, m, c)
    BY <1>1, <1>4, <2>3, <2>4 DEF WalkAlong
  <2>6. lru_order(l) = [j \in 1..c |-> l.slots[w[j]].key]
    BY <2>5, LinksAre DEF lru_order
  <2>7. \A j \in 1..c : l.slots[w[j]].key = u[(c - j) + 1]
    BY <1>8, <2>1, <2>2
  <2>8. lru_order(l) = [j \in 1..c |-> u[(c - j) + 1]]
    BY <2>6, <2>7
  <2> QED BY <1>2, <2>8 DEF Reverse
<1> QED BY <1>9, <1>10

LEMMA CacheIsList ==
  ASSUME NEW K, CacheOK(cache, used, K)
  PROVE  LruList
<1>1. PICK o : LruOK(cache, o, used, K)
  BY DEF CacheOK
<1>2. Len(used) <= CacheCapacity /\ Len(cache.slots) <= CacheCapacity + 1
  BY DEF CacheOK
<1>3. mru_order(cache) = used /\ lru_order(cache) = Reverse(used)
  BY <1>1, OrdersAre
<1>4. /\ used \in Seq(K) /\ Len(used) = Len(o) /\ DOMAIN cache.map = ToSet(used)
      /\ \A j \in 1..Len(o) : cache.map[used[j]] = o[j] /\ cache.slots[o[j]].key = used[j]
  BY <1>1 DEF LruOK, KeysOK
<1>5. ASSUME NEW k \in DOMAIN cache.map PROVE cache.slots[cache.map[k]].key = k
  <2>1. PICK j \in 1..Len(o) : used[j] = k
    BY <1>4, InSeq
  <2> QED BY <1>4, <2>1
<1>6. {i \in 1..Len(cache.slots) : cache.slots[i] = EmptySlot} = ToSet(cache.free)
  <2>1. FreeOK(cache, o) /\ Chain(cache, o)
    BY <1>1 DEF LruOK
  <2>2. PICK f : f = cache.free
    OBVIOUS
  <2>3. PICK m : m = Len(cache.slots)
    OBVIOUS
  <2>4. /\ f \in Seq(1..m)
        /\ \A i \in 1..m : (\E j \in 1..Len(f) : f[j] = i) <=> (\A j \in 1..Len(o) : o[j] # i)
        /\ \A j \in 1..Len(f) : cache.slots[f[j]] = EmptySlot
    BY <2>1, <2>2, <2>3 DEF FreeOK
  <2>5. /\ \A x : x \in ToSet(f) <=> \E j \in 1..Len(f) : f[j] = x
        /\ \A j \in 1..Len(f) : f[j] \in 1..m
    <3>1. f \in Seq(1..m)
      BY <2>4
    <3> QED BY <3>1, InSeq
  <2>6. \A j \in 1..Len(o) : SlotOK(cache.slots[o[j]])
    BY <2>1 DEF Chain
  <2>7. ~SlotOK(EmptySlot)
    <3>1. DOMAIN EmptySlot = {}
      BY DEF EmptySlot
    <3>2. SlotOK(EmptySlot) => "key" \in DOMAIN EmptySlot
      BY DEF SlotOK
    <3> QED BY <3>1, <3>2
  <2>8. ASSUME NEW i \in 1..m, cache.slots[i] = EmptySlot PROVE i \in ToSet(f)
    <3>1. \A j \in 1..Len(o) : o[j] # i
      BY <2>6, <2>7, <2>8
    <3>2. \E j \in 1..Len(f) : f[j] = i
      BY <2>4, <3>1
    <3> QED BY <2>5, <3>2
  <2>9. ASSUME NEW i \in ToSet(f) PROVE i \in 1..m /\ cache.slots[i] = EmptySlot
    BY <2>4, <2>5
  <2> QED BY <2>2, <2>3, <2>8, <2>9
<1> QED BY <1>2, <1>3, <1>4, <1>5, <1>6 DEF LruList

\* The parts of a path that are not empty, from the front.
Cuts(p, c) == c = [n \in 0..Len(p) |-> IF n = 0 THEN << >> ELSE Named(c[n - 1], p[n])]

LEMMA NamedIs ==
  ASSUME NEW U, NEW x \in Seq(U), NEW e \in U
  PROVE  Named(x, e) \in Seq(U)
<1> QED BY AppendIs DEF Named

LEMMA CutsSome ==
  ASSUME NEW U, NEW p \in Seq(U)
  PROVE  \E c : Cuts(p, c)
<1> DEFINE n == Len(p)
           Until(k, c) == /\ c[0] = << >>
                          /\ \A i \in 1..k : c[i] = Named(c[i - 1], p[i])
           Short == {k \in 0..n : \E c : Until(n - k, c)}
<1>1. n \in Nat
  OBVIOUS
<1>2. Short # {}
  <2> DEFINE r == [i \in {0} |-> << >>]
  <2>1. r[0] = << >> /\ n - n = 0 /\ n \in 0..n
    OBVIOUS
  <2>2. Until(n - n, r)
    BY <2>1
  <2> HIDE DEF Until
  <2>3. n \in Short
    BY <2>1, <2>2
  <2> QED BY <2>3
<1>3. PICK k \in Short : \A h \in Short : k <= h
  <2>1. Short \subseteq 0..n
    OBVIOUS
  <2> HIDE DEF Short, n
  <2> QED BY <1>1, <1>2, <2>1, FirstNumber
<1>4. PICK c : Until(n - k, c)
  OBVIOUS
<1>5. k = 0
  <2> SUFFICES ASSUME k # 0 PROVE FALSE
    OBVIOUS
  <2> DEFINE m == n - k
             d == [i \in 0..(m + 1) |-> IF i <= m THEN c[i] ELSE Named(c[m], p[m + 1])]
  <2>1. m \in Nat /\ n - (k - 1) = m + 1 /\ k - 1 \in 0..n /\ ~(k <= k - 1)
    BY <1>1
  <2>2. d[0] = << >>
    BY <1>4, <2>1
  <2>3. ASSUME NEW i \in 1..(m + 1) PROVE d[i] = Named(d[i - 1], p[i])
    <3>1. i - 1 \in 0..(m + 1) /\ i - 1 <= m /\ i \in 0..(m + 1)
      BY <2>1
    <3>2. d[i - 1] = c[i - 1]
      BY <3>1
    <3>3. CASE i = m + 1
      <4>1. ~(i <= m) /\ i - 1 = m
        BY <2>1, <3>3
      <4>2. d[i] = Named(c[m], p[m + 1])
        BY <3>1, <4>1
      <4> QED BY <3>2, <3>3, <4>1, <4>2
    <3>4. CASE i # m + 1
      <4>1. i \in 1..m /\ i <= m
        BY <2>1, <3>4
      <4>2. d[i] = c[i]
        BY <3>1, <4>1
      <4> QED BY <1>4, <3>2, <4>1, <4>2
    <3> QED BY <3>3, <3>4
  <2>4. Until(n - (k - 1), d)
    BY <2>1, <2>2, <2>3
  <2>5. k - 1 \in Short
    BY <2>1, <2>4
  <2> QED BY <1>3, <2>1, <2>5
<1>6. c[0] = << >> /\ \A i \in 1..n : c[i] = Named(c[i - 1], p[i])
  <2>1. n - k = n
    BY <1>1, <1>5
  <2> QED BY <1>4, <2>1
<1> DEFINE r == [i \in 0..n |-> c[i]]
<1>7. ASSUME NEW i \in 0..n
      PROVE  r[i] = IF i = 0 THEN << >> ELSE Named(r[i - 1], p[i])
  <2>1. CASE i = 0
    BY <1>6, <2>1
  <2>2. CASE i # 0
    <3>1. i \in 1..n /\ i - 1 \in 0..n
      BY <1>1, <2>2
    <3>2. r[i - 1] = c[i - 1] /\ r[i] = c[i]
      BY <3>1
    <3> QED BY <1>6, <2>2, <3>1, <3>2
  <2> QED BY <2>1, <2>2
<1>8. r = [i \in 0..n |-> IF i = 0 THEN << >> ELSE Named(r[i - 1], p[i])]
  <2> HIDE DEF r
  <2>1. r = [i \in 0..n |-> r[i]]
    BY DEF r
  <2> QED BY <1>7, <2>1
<1>9. Cuts(p, r)
  BY <1>8 DEF Cuts
<1> QED BY <1>9

LEMMA ComponentsCut ==
  ASSUME NEW U, NEW p \in Seq(U)
  PROVE  \E c : /\ components(p) = c[Len(p)] /\ c[0] = << >>
               /\ \A n \in 1..Len(p) : c[n] = Named(c[n - 1], p[n])
<1> DEFINE cur == CHOOSE c : c = [n \in 0..Len(p) |->
                       IF n = 0 THEN << >> ELSE Named(c[n - 1], p[n])]
<1>1. Cuts(p, cur)
  BY CutsSome DEF Cuts
<1>2. components(p) = cur[Len(p)]
  BY DEF components
<1> HIDE DEF cur
<1>3. \A n \in 0..Len(p) : cur[n] = IF n = 0 THEN << >> ELSE Named(cur[n - 1], p[n])
  BY <1>1 DEF Cuts
<1>4. 0 \in 0..Len(p) /\ \A n \in 1..Len(p) : n \in 0..Len(p) /\ n # 0
  OBVIOUS
<1>5. cur[0] = << >> /\ \A n \in 1..Len(p) : cur[n] = Named(cur[n - 1], p[n])
  BY <1>3, <1>4
<1> QED BY <1>2, <1>5

LEMMA ComponentsNamed ==
  ASSUME NEW U, NEW p \in Seq(U)
  PROVE  components(p) \in Seq(U)
<1>1. PICK c : /\ components(p) = c[Len(p)] /\ c[0] = << >>
               /\ \A n \in 1..Len(p) : c[n] = Named(c[n - 1], p[n])
  BY ComponentsCut
<1>2. PICK k : k = Len(p) /\ k \in Nat
  OBVIOUS
<1> DEFINE Bad == {n \in 0..k : c[n] \notin Seq(U)}
<1>3. Bad = {}
  <2> SUFFICES ASSUME Bad # {} PROVE FALSE
    OBVIOUS
  <2>1. PICK n \in Bad : \A m \in Bad : n <= m
    <3>1. Bad \subseteq 0..k /\ k \in Nat
      BY <1>2
    <3> HIDE DEF Bad
    <3> QED BY <3>1, FirstNumber
  <2>2. n # 0
    BY <1>1, EmptySeq
  <2>3. n \in 1..k /\ n - 1 \in 0..k /\ ~(n <= n - 1)
    BY <1>2, <2>2
  <2>4. c[n - 1] \in Seq(U)
    BY <2>1, <2>3
  <2>5. p[n] \in U /\ c[n] = Named(c[n - 1], p[n])
    BY <1>1, <1>2, <2>3, InSeq
  <2> QED BY <2>4, <2>5, NamedIs
<1>4. k \in 0..k
  BY <1>2
<1> QED BY <1>1, <1>2, <1>3, <1>4

\* The state of the mount in every reachable state, fresh or not.
MountWhole == TreeOK(memfs) /\ CacheOK(cache, used, Paths)

LEMMA PathsNamed ==
  ASSUME NEW p \in Paths
  PROVE  p \in Seq(STRING) /\ p # << >> /\ components(p) \in Seq(STRING)
<1>1. p \in Seq(STRING) /\ p # << >>
  BY MountAssumption
<1> QED BY <1>1, ComponentsNamed

LEMMA CachedPaths ==
  ASSUME MountWhole, NEW x \in DOMAIN cache.map
  PROVE  x \in Paths
<1>1. PICK o : LruOK(cache, o, used, Paths)
  BY DEF MountWhole, CacheOK
<1>2. used \in Seq(Paths) /\ DOMAIN cache.map = ToSet(used)
  BY <1>1, CacheLens
<1>3. PICK j \in 1..Len(used) : used[j] = x
  BY <1>2, InSeq
<1> QED BY <1>2, <1>3, InSeq

LEMMA WholeInit == MountInit => MountWhole /\ CacheFresh
<1> SUFFICES ASSUME MountInit PROVE MountWhole /\ CacheFresh
  OBVIOUS
<1>1. PICK contacts \in SUBSET Contacts, days \in SUBSET ChatDays :
         memfs = build_im_view(contacts, days)
  BY DEF MountInit
<1>2. IsFiniteSet(contacts) /\ IsFiniteSet(days)
  BY MountAssumption, FS_Subset
<1>3. TreeOK(memfs)
  BY <1>1, <1>2, ViewBuilt DEF Viewed
<1>4. cache = EmptyLru /\ used = << >>
  BY DEF MountInit
<1>5. CacheOK(cache, used, Paths) /\ DOMAIN cache.map = {}
  BY <1>4, EmptyIs
<1> QED BY <1>3, <1>5 DEF MountWhole, CacheFresh

\* What a read of a directory does to the cache: the listing it puts there is
\* fresh, and the others stay as they were.
LEMMA ReadDirStep ==
  ASSUME MountWhole, NEW p \in Paths, CachedReadDir(p)
  PROVE  /\ MountWhole'
         /\ CacheFresh => CacheFresh'
<1>2. memfs' = memfs /\ used' = Trimmed(Cons(p, Without(used, p)))
  BY Zenon DEF CachedReadDir, Cons
<1>3. CASE Cached(cache, p) /\ cache' = LruGet(cache, p) /\ missed' = missed
  <2>1. p \in DOMAIN cache.map
    BY <1>3 DEF Cached
  <2>2. /\ CacheOK(cache', used', Paths) /\ DOMAIN cache'.map = DOMAIN cache.map
        /\ \A x \in DOMAIN cache'.map : peek(cache', x) = peek(cache, x)
    BY <1>2, <1>3, <2>1, GetIs DEF MountWhole
  <2>3. CacheFresh => CacheFresh'
    <3> SUFFICES ASSUME CacheFresh, NEW x \in DOMAIN cache'.map, x \notin missed'
                 PROVE  /\ IsDir(memfs', resolve(memfs', components(x)))
                        /\ peek(cache', x) = Listing(memfs', components(x))
      BY DEF CacheFresh
    <3> QED BY <1>2, <1>3, <2>2 DEF CacheFresh
  <2> QED BY <1>2, <2>2, <2>3 DEF MountWhole
<1>4. CASE /\ ~Cached(cache, p) /\ IsDir(memfs, resolve(memfs, components(p)))
           /\ cache' = LruPut(cache, p, Listing(memfs, components(p)))
           /\ missed' = (missed \ {p}) \cap DOMAIN cache'.map
  <2>1. p \notin DOMAIN cache.map
    BY <1>4 DEF Cached
  <2>2. PICK v : v = Listing(memfs, components(p))
    OBVIOUS
  <2>3. /\ CacheOK(cache', used', Paths) /\ DOMAIN cache'.map \subseteq DOMAIN cache.map \cup {p}
        /\ \A x \in DOMAIN cache'.map : peek(cache', x) = IF x = p THEN v ELSE peek(cache, x)
    BY <1>2, <1>4, <2>1, <2>2, PutIs DEF MountWhole
  <2>4. CacheFresh => CacheFresh'
    <3> SUFFICES ASSUME CacheFresh, NEW x \in DOMAIN cache'.map, x \notin missed'
                 PROVE  /\ IsDir(memfs', resolve(memfs', components(x)))
                        /\ peek(cache', x) = Listing(memfs', components(x))
      BY DEF CacheFresh
    <3>1. CASE x = p
      BY <1>2, <1>4, <2>2, <2>3, <3>1
    <3>2. CASE x # p
      <4>1. x \in DOMAIN cache.map /\ x \notin missed
        BY <1>4, <2>3, <3>2
      <4> QED BY <1>2, <2>3, <3>2, <4>1 DEF CacheFresh
    <3> QED BY <3>1, <3>2
  <2> QED BY <1>2, <2>3, <2>4 DEF MountWhole
<1> QED BY <1>3, <1>4 DEF CachedReadDir

\* What a write does: the tree stays one, all but the parent's listing stay, and
\* the listing of the parent's spelling goes.
LEMMA WriteStep ==
  ASSUME MountWhole, NEW p \in Paths, CachedMkdir(p) \/ CachedWrite(p) \/ CachedRemove(p)
  PROVE  LET t == components(p)
         IN  /\ TreeOK(memfs') /\ Stays(memfs, memfs', Parent(memfs, t)) /\ Parent(memfs, t) # 0
             /\ t \in Seq(STRING) /\ t # << >>
             /\ invalidate_parent_of(p)
<1> DEFINE t == components(p)
<1>1. t \in Seq(STRING)
  BY PathsNamed
<1> HIDE DEF t
<1>2. TreeOK(memfs)
  BY DEF MountWhole
<1>3. CASE CachedMkdir(p)
  <2>1. CanMkdir(memfs, t) /\ memfs' = FsMkdir(memfs, t) /\ invalidate_parent_of(p)
    BY <1>3 DEF CachedMkdir, t
  <2>2. Parent(memfs, t) # 0
    BY <2>1 DEF CanMkdir, IsDir
  <2>3. t # << >>
    BY <2>2 DEF Parent
  <2>4. TreeOK(memfs') /\ Stays(memfs, memfs', Parent(memfs, t))
    BY <1>1, <1>2, <2>1, <2>2, <2>3, MkdirTree
  <2> QED BY <1>1, <2>1, <2>2, <2>3, <2>4 DEF t
<1>4. CASE CachedWrite(p)
  <2>1. CanWrite(memfs, t) /\ memfs' = FsWrite(memfs, t, <<>>) /\ invalidate_parent_of(p)
    BY <1>4 DEF CachedWrite, t
  <2>2. Parent(memfs, t) # 0
    BY <2>1 DEF CanWrite, IsDir
  <2>3. t # << >>
    BY <2>2 DEF Parent
  <2>4. TreeOK(memfs') /\ Stays(memfs, memfs', Parent(memfs, t))
    BY <1>1, <1>2, <2>1, <2>2, <2>3, WriteTree
  <2> QED BY <1>1, <2>1, <2>2, <2>3, <2>4 DEF t
<1>5. CASE CachedRemove(p)
  <2>1. CanRemove(memfs, t) /\ memfs' = FsRemove(memfs, t) /\ invalidate_parent_of(p)
    BY <1>5 DEF CachedRemove, t
  <2>2. Parent(memfs, t) # 0
    BY <2>1 DEF CanRemove, IsDir
  <2>3. t # << >>
    BY <2>2 DEF Parent
  <2>4. TreeOK(memfs') /\ Stays(memfs, memfs', Parent(memfs, t))
    BY <1>1, <1>2, <2>1, <2>2, <2>3, RemoveTree
  <2> QED BY <1>1, <2>1, <2>2, <2>3, <2>4 DEF t
<1> QED BY <1>3, <1>4, <1>5

LEMMA InvalidateStep ==
  ASSUME MountWhole, NEW p, invalidate_parent_of(p)
  PROVE  /\ CacheOK(cache', used', Paths)
         /\ DOMAIN cache'.map = DOMAIN cache.map \ {ParentSpelling(p)}
         /\ \A x \in DOMAIN cache'.map : peek(cache', x) = peek(cache, x)
BY RemoveIs DEF MountWhole, invalidate_parent_of

LEMMA FrontOfAppend ==
  ASSUME NEW U, NEW f \in Seq(U), NEW q \in Seq(U), NEW p \in Seq(U), NEW x,
         IsFront(f, p), IsAppend(p, q, x)
  PROVE  f = q
<1>1. PICK n \in Nat : n = Len(q) /\ Len(p) = n + 1 /\ n = n + 1 - 1
  BY DEF IsAppend
<1>2. Len(f) = Len(q) /\ \A j \in 1..Len(q) : f[j] = q[j]
  BY <1>1 DEF IsFront, IsAppend
<1> QED BY <1>2

\* The listing that goes is the one whose text the path continues.
LEMMA ContinuedGoes ==
  ASSUME NEW p \in Paths, NEW q \in Paths, Continues(p, q)
  PROVE  q = ParentSpelling(p)
<1>1. p \in Seq(STRING) /\ p # << >> /\ q \in Seq(STRING) /\ q # << >>
  BY PathsNamed
<1>2. PICK f \in Seq(STRING) : f = Front(p) /\ IsFront(f, p)
  BY <1>1, FrontIs
<1>3. CASE q = RootPath /\ (Len(p) = 1 \/ (Len(p) = 2 /\ p[1] = Blank))
  <2>1. CASE Len(p) = 1
    <3>1. Len(f) = 0
      BY <1>2, <2>1 DEF IsFront
    <3>2. f = << >>
      BY <3>1
    <3> QED BY <1>2, <1>3, <3>2 DEF ParentSpelling
  <2>2. CASE Len(p) = 2 /\ p[1] = Blank
    <3>1. Len(f) = 1 /\ f[1] = Blank
      BY <1>2, <2>2 DEF IsFront
    <3>2. f = << Blank >>
      BY <3>1
    <3> QED BY <1>2, <1>3, <3>2 DEF ParentSpelling
  <2> QED BY <1>3, <2>1, <2>2
<1>4. CASE q # << Blank >> /\ p = Append(q, Last(p))
  <2>1. Last(p) \in STRING
    BY <1>1, <1>2 DEF Last, IsFront
  <2>2. IsAppend(p, q, Last(p))
    BY <1>1, <1>4, <2>1, AppendIs
  <2>3. f = q
    BY <1>1, <1>2, <2>2, FrontOfAppend
  <2> QED BY <1>1, <1>2, <1>4, <2>3 DEF ParentSpelling
<1> QED BY <1>3, <1>4 DEF Continues

LEMMA WriteFresh ==
  ASSUME MountWhole, CacheFresh, NEW p \in Paths,
         CachedMkdir(p) \/ CachedWrite(p) \/ CachedRemove(p)
  PROVE  CacheFresh'
<1> DEFINE t == components(p)
<1>1. /\ TreeOK(memfs') /\ Stays(memfs, memfs', Parent(memfs, t)) /\ Parent(memfs, t) # 0
      /\ t \in Seq(STRING) /\ t # << >>
      /\ invalidate_parent_of(p)
  BY WriteStep
<1>2. /\ DOMAIN cache'.map = DOMAIN cache.map \ {ParentSpelling(p)}
      /\ \A x \in DOMAIN cache'.map : peek(cache', x) = peek(cache, x)
  BY <1>1, InvalidateStep
<1>3. \A x \in DOMAIN cache'.map :
         x \notin missed' => /\ x \notin missed
                             /\ components(x) = Front(t) => Continues(p, x)
  BY <1>1 DEF invalidate_parent_of
<1> HIDE DEF t
<1>4. TreeOK(memfs) /\ CacheOK(cache, used, Paths)
  BY DEF MountWhole
<1>5. Front(t) \in Seq(STRING)
  BY <1>1, FrontIs
<1>6. Parent(memfs, t) = resolve(memfs, Front(t))
  BY <1>1 DEF Parent
<1> SUFFICES ASSUME NEW x \in DOMAIN cache'.map, x \notin missed'
             PROVE  /\ IsDir(memfs', resolve(memfs', components(x)))
                    /\ peek(cache', x) = Listing(memfs', components(x))
  BY DEF CacheFresh
<1>7. x \in DOMAIN cache.map /\ x # ParentSpelling(p) /\ peek(cache', x) = peek(cache, x)
  BY <1>2
<1>8. x \notin missed
  BY <1>3
<1>9. IsDir(memfs, resolve(memfs, components(x))) /\ peek(cache, x) = Listing(memfs, components(x))
  BY <1>7, <1>8 DEF CacheFresh
<1>10. PICK c \in Seq(STRING) : c = components(x) /\ c # Front(t)
  <2>1. x \in Paths
    BY <1>7, CachedPaths
  <2>2. components(x) \in Seq(STRING)
    BY <2>1, PathsNamed
  <2>3. components(x) # Front(t)
    <3> SUFFICES ASSUME components(x) = Front(t) PROVE FALSE
      OBVIOUS
    <3>1. Continues(p, x)
      BY <1>3
    <3> QED BY <1>7, <2>1, <3>1, ContinuedGoes
  <2> QED BY <2>2, <2>3
<1>11. resolve(memfs, c) # Parent(memfs, t)
  BY <1>1, <1>4, <1>5, <1>6, <1>10, ResolveOne
<1>12. IsDir(memfs, resolve(memfs, c))
  BY <1>9, <1>10
<1>13. IsDir(memfs', resolve(memfs', c))
  BY <1>1, <1>4, <1>12, StaysResolves
<1>14. Listing(memfs', c) = Listing(memfs, c)
  BY <1>1, <1>4, <1>11, <1>12, StaysListed
<1> QED BY <1>7, <1>9, <1>10, <1>13, <1>14

LEMMA InvalidateAllStep ==
  ASSUME MountWhole, InvalidateAll
  PROVE  MountWhole' /\ CacheFresh'
<1>1. memfs' = memfs /\ cache' = EmptyLru /\ used' = << >>
  BY DEF InvalidateAll
<1>2. CacheOK(cache', used', Paths) /\ DOMAIN cache'.map = {}
  BY <1>1, EmptyIs
<1> QED BY <1>1, <1>2 DEF MountWhole, CacheFresh

LEMMA MountNextWhole == MountWhole /\ [MountNext]_mountVars => MountWhole'
<1> SUFFICES ASSUME MountWhole, [MountNext]_mountVars PROVE MountWhole'
  OBVIOUS
<1>1. ASSUME NEW p \in Paths, CachedReadDir(p) PROVE MountWhole'
  BY <1>1, ReadDirStep
<1>2. ASSUME NEW p \in Paths, CachedMkdir(p) \/ CachedWrite(p) \/ CachedRemove(p)
      PROVE  MountWhole'
  <2>1. TreeOK(memfs') /\ invalidate_parent_of(p)
    BY <1>2, WriteStep
  <2> QED BY <2>1, InvalidateStep DEF MountWhole
<1>3. CASE InvalidateAll
  BY <1>3, InvalidateAllStep
<1>4. CASE UNCHANGED mountVars
  BY <1>4 DEF mountVars, MountWhole
<1> QED BY <1>1, <1>2, <1>3, <1>4 DEF MountNext

LEMMA MountNextFresh == MountWhole /\ CacheFresh /\ [MountNext]_mountVars => CacheFresh'
<1> SUFFICES ASSUME MountWhole, CacheFresh, [MountNext]_mountVars PROVE CacheFresh'
  OBVIOUS
<1>1. ASSUME NEW p \in Paths, CachedReadDir(p) PROVE CacheFresh'
  BY <1>1, ReadDirStep
<1>2. ASSUME NEW p \in Paths, CachedMkdir(p) \/ CachedWrite(p) \/ CachedRemove(p)
      PROVE  CacheFresh'
  BY <1>2, WriteFresh
<1>3. CASE InvalidateAll
  BY <1>3, InvalidateAllStep
<1>4. CASE UNCHANGED mountVars
  BY <1>4 DEF mountVars, CacheFresh
<1> QED BY <1>1, <1>2, <1>3, <1>4 DEF MountNext

LEMMA WholeSound == MountWhole => LruList /\ TreeSound
<1> SUFFICES ASSUME MountWhole PROVE LruList /\ TreeSound
  OBVIOUS
<1>1. LruList
  BY CacheIsList DEF MountWhole
<1>2. TreeSound
  <2>1. EntriesOK(memfs)
    BY DEF MountWhole, TreeOK
  <2> DEFINE Entries == UNION {{<<d, n>> : n \in DOMAIN memfs.nodes[d].children} :
                               d \in DOMAIN memfs.nodes}
             To(e) == memfs.nodes[e[1]].children[e[2]]
  <2>2. ASSUME NEW e \in Entries
        PROVE  e = << e[1], e[2] >> /\ Leads(memfs, e[1], e[2])
    BY DEF Leads
  <2>3. \A e \in Entries : To(e) \in DOMAIN memfs.nodes
    BY <2>1, <2>2 DEF EntriesOK
  <2>4. ASSUME NEW e \in Entries, NEW f \in Entries, To(e) = To(f) PROVE e = f
    <3>1. Leads(memfs, e[1], e[2]) /\ Leads(memfs, f[1], f[2])
      BY <2>2
    <3>2. e[1] = f[1] /\ e[2] = f[2]
      BY <2>1, <2>4, <3>1 DEF EntriesOK
    <3>3. e = << e[1], e[2] >> /\ f = << f[1], f[2] >>
      BY <2>2
    <3> QED BY <3>2, <3>3
  <2> QED BY <2>3, <2>4 DEF TreeSound
<1> QED BY <1>1, <1>2

\* However callers spell paths, with slashes at the end, doubled or none in front, a
\* listing served from the cache is the listing of the directory as it is, unless its
\* directory was written since through a path that does not continue the text it is
\* cached under (invalidate_parent_of, dir_cache.rs); the cache stays one list in its
\* slots, with no more keys than its capacity, and the tree of inodes sound: unlink,
\* push_front, put and remove of lru.rs leave no link, slot or map entry behind, and
\* no operation of memfs.rs an entry that leads nowhere.
THEOREM MountStaysSound == MountSpec => []MountSound
<1>1. MountInit => MountWhole /\ CacheFresh
  BY WholeInit
<1>2. MountWhole /\ CacheFresh /\ [MountNext]_mountVars => (MountWhole /\ CacheFresh)'
  BY MountNextWhole, MountNextFresh
<1>3. MountWhole /\ CacheFresh => MountSound
  BY WholeSound DEF MountSound
<1> QED BY <1>1, <1>2, <1>3, PTL DEF MountSpec

\* "/" or a slash before every component, as the callers in the repository spell
\* paths.
Plain(p) ==
  \/ p = RootPath
  \/ /\ components(p) # << >> /\ Len(p) = Len(components(p)) + 1 /\ p[1] = Blank
     /\ \A i \in 1..Len(components(p)) : p[i + 1] = components(p)[i]

LEMMA RootParts == components(RootPath) = << >> /\ Len(RootPath) = 2
<1>1. RootPath \in Seq({Blank}) /\ Len(RootPath) = 2
  BY DEF RootPath
<1>2. RootPath[1] = Blank /\ RootPath[2] = Blank
  BY DEF RootPath
<1>3. PICK c : /\ components(RootPath) = c[2] /\ c[0] = << >>
               /\ \A n \in 1..2 : c[n] = Named(c[n - 1], RootPath[n])
  <2>1. PICK c : /\ components(RootPath) = c[Len(RootPath)] /\ c[0] = << >>
                 /\ \A n \in 1..Len(RootPath) : c[n] = Named(c[n - 1], RootPath[n])
    BY <1>1, ComponentsCut
  <2> QED BY <1>1, <2>1
<1>4. c[1] = Named(c[0], RootPath[1]) /\ c[2] = Named(c[1], RootPath[2])
  <2>1. c[1] = Named(c[1 - 1], RootPath[1]) /\ c[2] = Named(c[2 - 1], RootPath[2])
    BY <1>3
  <2>2. 1 - 1 = 0 /\ 2 - 1 = 1
    OBVIOUS
  <2> QED BY <2>1, <2>2
<1>5. c[2] = << >>
  BY <1>2, <1>3, <1>4 DEF Named
<1> QED BY <1>1, <1>3, <1>5

\* A plain path continues the plain spelling of its directory.
LEMMA PlainContinues ==
  ASSUME NEW p \in Seq(STRING), NEW q \in Seq(STRING), Plain(p), Plain(q),
         components(p) # << >>, components(q) = Front(components(p))
  PROVE  Continues(p, q)
<1>1. PICK c \in Seq(STRING) : c = components(p) /\ c # << >>
  BY ComponentsNamed
<1>2. PICK n \in Nat : n = Len(c) /\ n # 0
  BY <1>1
<1>3. /\ p # RootPath /\ Len(p) = n + 1 /\ p[1] = Blank
      /\ \A i \in 1..n : p[i + 1] = c[i]
  BY <1>1, <1>2, RootParts DEF Plain
<1>4. PICK f \in Seq(STRING) : /\ f = components(q) /\ Len(f) = n - 1
                               /\ \A i \in 1..(n - 1) : f[i] = c[i]
  <2>1. Front(c) \in Seq(STRING) /\ IsFront(Front(c), c)
    BY <1>1, FrontIs
  <2> QED BY <1>1, <1>2, <2>1 DEF IsFront
<1>5. CASE n = 1
  <2>1. f = << >>
    BY <1>4, <1>5
  <2>2. q = RootPath
    BY <1>4, <2>1 DEF Plain
  <2>3. Len(p) = 2
    BY <1>3, <1>5
  <2> QED BY <1>3, <2>2, <2>3 DEF Continues
<1>6. CASE n # 1
  <2>1. f # << >> /\ n > 1
    BY <1>2, <1>4, <1>6
  <2>2. /\ Len(q) = n /\ q[1] = Blank
        /\ \A i \in 1..(n - 1) : q[i + 1] = f[i]
    BY <1>2, <1>4, <2>1, RootParts DEF Plain
  <2>3. ASSUME NEW j \in 1..n PROVE p[j] = q[j]
    <3>1. CASE j = 1
      BY <1>3, <2>2, <3>1
    <3>2. CASE j # 1
      <4>1. PICK i \in 1..(n - 1) : j = i + 1 /\ i \in 1..n
        BY <1>2, <3>2
      <4> QED BY <1>3, <1>4, <2>2, <4>1
    <3> QED BY <3>1, <3>2
  <2>4. p = Append(q, Last(p))
    <3>1. Last(p) = p[n + 1] /\ Last(p) \in STRING
      BY <1>2, <1>3 DEF Last
    <3>2. Append(q, Last(p)) \in Seq(STRING) /\ IsAppend(Append(q, Last(p)), q, Last(p))
      BY <3>1, AppendIs
    <3>3. PICK a \in Seq(STRING) : a = Append(q, Last(p))
      BY <3>2
    <3>4. Len(a) = n + 1 /\ \A j \in 1..(n + 1) : a[j] = p[j]
      BY <1>2, <2>2, <2>3, <3>1, <3>2, <3>3 DEF IsAppend
    <3>5. a = p
      BY <1>3, <3>4
    <3> QED BY <3>3, <3>5
  <2>5. q # << Blank >>
    <3>1. Len(<< Blank >>) = 1
      OBVIOUS
    <3> QED BY <1>6, <2>2, <3>1
  <2> QED BY <2>4, <2>5 DEF Continues
<1> QED BY <1>5, <1>6

\* When callers spell paths plainly, as all in the repository do, no listing is
\* ever missed: with MountStaysSound, every listing served is then the listing of
\* the directory as it is.
THEOREM PlainNeverMissed ==
  ASSUME \A p \in Paths : Plain(p)
  PROVE  MountSpec => [](missed = {})
<1>1. MountInit => MountWhole /\ missed = {}
  BY WholeInit DEF MountInit
<1>2. MountWhole /\ missed = {} /\ [MountNext]_mountVars => (MountWhole /\ missed = {})'
  <2> SUFFICES ASSUME MountWhole, missed = {}, [MountNext]_mountVars
               PROVE  MountWhole' /\ missed' = {}
    OBVIOUS
  <2>1. MountWhole'
    BY MountNextWhole
  <2>2. ASSUME NEW p \in Paths, CachedReadDir(p) PROVE missed' = {}
    BY <2>2 DEF CachedReadDir
  <2>3. ASSUME NEW p \in Paths, CachedMkdir(p) \/ CachedWrite(p) \/ CachedRemove(p)
        PROVE  missed' = {}
    <3>1. invalidate_parent_of(p) /\ components(p) # << >>
      BY <2>3, WriteStep
    <3>2. DOMAIN cache'.map \subseteq DOMAIN cache.map
      BY <3>1, InvalidateStep
    <3>3. ASSUME NEW q \in DOMAIN cache.map, components(q) = Front(components(p))
          PROVE  Continues(p, q)
      <4>1. q \in Paths
        BY CachedPaths
      <4>2. p \in Seq(STRING) /\ q \in Seq(STRING) /\ Plain(p) /\ Plain(q)
        BY <4>1, PathsNamed
      <4> QED BY <3>1, <3>3, <4>2, PlainContinues
    <3> QED BY <3>1, <3>2, <3>3 DEF invalidate_parent_of
  <2>4. CASE InvalidateAll
    BY <2>1, <2>4 DEF InvalidateAll
  <2>5. CASE UNCHANGED mountVars
    BY <2>1, <2>5 DEF mountVars
  <2> QED BY <2>1, <2>2, <2>3, <2>4, <2>5 DEF MountNext
<1> QED BY <1>1, <1>2, PTL DEF MountSpec
=============================================================================
