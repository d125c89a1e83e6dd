------------------------------- MODULE Outbox -------------------------------
(***************************************************************************)
(* The retransmission mailbox of im-client (crates/im-client/src/outbox.rs *)
(* driven by message_loop of client.rs) over the local store of im-storage *)
(* (crates/im-storage/src/store.rs), and what the chat state (chat.rs)     *)
(* shows of it. A put or delete of the engine is one atomic, durable step  *)
(* (module Engine); the process may end between any two of them.           *)
(***************************************************************************)
EXTENDS Naturals

CONSTANTS
  MaxMsgs,            \* bound: client_msg_ids given
  MaxConnects,        \* bound: connections established
  MaxCrashes,         \* bound: ends of the process
  RETRY_MAX_ATTEMPTS  \* retry_max_attempts, 8 in the code

ASSUME OutboxAssumption ==
  /\ MaxMsgs \in Nat /\ MaxConnects \in Nat /\ MaxCrashes \in Nat
  /\ RETRY_MAX_ATTEMPTS \in Nat \ {0}

Ids == 1..MaxMsgs

VARIABLES
  seq,           \* disk: KEY_CLIENT_SEQ
  pending,       \* disk: ids of the entries of the retry table
  disk_attempts, \* disk: attempts of an entry
  history,       \* disk: confirmed messages
  running, connected,
  inflight,      \* ids in Outbox.inflight
  attempts,      \* Inflight.attempts
  job,           \* what message_loop is in the middle of
  status,        \* SendStatus of the own messages in the chat state
  wire,          \* messages sent on this connection, which may be confirmed
  connects, crashes,
  minted,        \* history: minted[n]: messages given the id n
  sends,         \* history: sends[n]: times n was sent
  server_has,    \* history: messages whose confirmation has arrived
  gave_up        \* history: messages abandoned

disk == <<seq, pending, disk_attempts, history>>
vars == <<disk, running, connected, inflight, attempts, job, status, wire,
          connects, crashes, minted, sends, server_has, gave_up>>

Idle == [kind |-> "idle"]
Sending(S) == [kind |-> "send", ids |-> S]

Init ==
  /\ seq = 0 /\ pending = {} /\ history = {}
  /\ disk_attempts = [n \in Ids |-> 0]
  /\ running = TRUE /\ connected = FALSE
  /\ inflight = {}
  /\ attempts = [n \in Ids |-> 0]
  /\ job = Idle
  /\ status = [n \in Ids |-> "none"]
  /\ wire = {}
  /\ connects = 0 /\ crashes = 0
  /\ minted = [n \in Ids |-> 0]
  /\ sends = [n \in Ids |-> 0]
  /\ server_has = {} /\ gave_up = {}

(***************************************************************************)
(* The retry table of the store: the entries and their attempts; attempts  *)
(* are updated where there is an entry.                                    *)
(***************************************************************************)
pending_all == [n \in pending |-> disk_attempts[n]]

pending_set_attempts(n, a) ==
  disk_attempts' = IF n \in pending THEN [disk_attempts EXCEPT ![n] = a] ELSE disk_attempts

\* What is sent again on a new connection.
resends == inflight

(***************************************************************************)
(* The connection. A new one first sends everything in flight (resends,    *)
(* send_batch); attempts stay as they are.                                 *)
(***************************************************************************)
Connect ==
  /\ running /\ ~connected
  /\ connects < MaxConnects /\ connects' = connects + 1
  /\ connected' = TRUE
  /\ job' = Sending(resends)
  /\ UNCHANGED <<disk, running, inflight, attempts, status, wire, crashes,
                 minted, sends, server_has, gave_up>>

\* The connection is lost, with the confirmations on their way; a send in
\* progress ends the loop.
Disconnect ==
  /\ connected /\ job.kind \in {"idle", "send"}
  /\ connected' = FALSE
  /\ job' = Idle
  /\ wire' = {}
  /\ UNCHANGED <<disk, running, inflight, attempts, status, connects, crashes,
                 minted, sends, server_has, gave_up>>

\* handle.send of the next message of a batch, in order of ids.
SendNext(n) ==
  /\ job.kind = "send"
  /\ n \in job.ids /\ \A m \in job.ids : n <= m
  /\ sends' = [sends EXCEPT ![n] = @ + 1]
  /\ wire' = wire \cup {n}
  /\ job' = Sending(job.ids \ {n})
  /\ UNCHANGED <<disk, running, connected, inflight, attempts, status, connects,
                 crashes, minted, server_has, gave_up>>

BatchSent ==
  /\ job = Sending({})
  /\ job' = Idle
  /\ UNCHANGED <<disk, running, connected, inflight, attempts, status, wire,
                 connects, crashes, minted, sends, server_has, gave_up>>

Free == connected /\ job = Idle

(***************************************************************************)
(* SendMsg: enqueue_outgoing persists the counter, then the entry; then    *)
(* the message is in flight, shown as being sent, and goes out.            *)
(***************************************************************************)
\* A counter kept in memory only.
EnqueueSeq_NotStored ==
  /\ Free
  /\ seq < MaxMsgs
  /\ job' = [kind |-> "enqueue", id |-> seq + 1]
  /\ UNCHANGED <<disk, running, connected, inflight, attempts, status, wire,
                 connects, crashes, minted, sends, server_has, gave_up>>

\* next_client_msg_id
EnqueueSeq ==
  /\ Free
  /\ seq < MaxMsgs /\ seq' = seq + 1
  /\ job' = [kind |-> "enqueue", id |-> seq + 1]
  /\ UNCHANGED <<pending, disk_attempts, history, running, connected, inflight,
                 attempts, status, wire, connects, crashes, minted, sends,
                 server_has, gave_up>>

EnqueuePending ==
  /\ job.kind = "enqueue"
  /\ LET n == job.id IN
       /\ pending' = pending \cup {n}
       /\ disk_attempts' = [disk_attempts EXCEPT ![n] = 0]
       /\ inflight' = inflight \cup {n}
       /\ attempts' = [attempts EXCEPT ![n] = 1]
       /\ minted' = [minted EXCEPT ![n] = @ + 1]
       /\ status' = [status EXCEPT ![n] = "sending"]
       /\ job' = Sending({n})
  /\ UNCHANGED <<seq, history, running, connected, wire, connects, crashes,
                 sends, server_has, gave_up>>

(***************************************************************************)
(* MsgAck: the entry is deleted, then the message is stored; the event Ack *)
(* follows in either case.                                                 *)
(***************************************************************************)
\* A confirmation taken for all earlier messages.
AckDelete_Cumulative(n) ==
  /\ Free
  /\ n \in wire /\ n \in inflight
  /\ server_has' = server_has \cup {n}
  /\ inflight' = {m \in inflight : m > n}
  /\ pending' = {m \in pending : m > n}
  /\ job' = [kind |-> "ack", id |-> n]
  /\ UNCHANGED <<seq, disk_attempts, history, running, connected, attempts,
                 status, wire, connects, crashes, minted, sends, gave_up>>

\* ack_outgoing, its delete.
AckDelete(n) ==
  /\ Free
  /\ n \in wire /\ n \in inflight
  /\ server_has' = server_has \cup {n}
  /\ inflight' = inflight \ {n}
  /\ pending' = pending \ {n}
  /\ job' = [kind |-> "ack", id |-> n]
  /\ UNCHANGED <<seq, disk_attempts, history, running, connected, attempts,
                 status, wire, connects, crashes, minted, sends, gave_up>>

\* The chat state marks the entry it finds; after a restart there is none.
Shown(n, s) == IF status[n] = "none" THEN status ELSE [status EXCEPT ![n] = s]

\* A confirmed message that is not kept.
AckPut_NotStored ==
  /\ job.kind = "ack"
  /\ status' = Shown(job.id, "delivered")
  /\ job' = Idle
  /\ UNCHANGED <<disk, running, connected, inflight, attempts, wire, connects,
                 crashes, minted, sends, server_has, gave_up>>

\* ack_outgoing, its put, and the event.
AckPut ==
  /\ job.kind = "ack"
  /\ history' = history \cup {job.id}
  /\ status' = Shown(job.id, "delivered")
  /\ job' = Idle
  /\ UNCHANGED <<seq, pending, disk_attempts, running, connected, inflight,
                 attempts, wire, connects, crashes, minted, sends, server_has, gave_up>>

\* Outbox::ack finds no entry: nothing is stored, the event is raised.
LateAck(n) ==
  /\ Free
  /\ n \in wire /\ n \notin inflight
  /\ server_has' = server_has \cup {n}
  /\ status' = Shown(n, "delivered")
  /\ UNCHANGED <<disk, running, connected, inflight, attempts, job, wire,
                 connects, crashes, minted, sends, gave_up>>

(***************************************************************************)
(* The timer, Outbox::due, for a message whose deadline has passed.        *)
(***************************************************************************)
\* Another attempt, persisted before it is made.
DueResend(n) ==
  /\ Free /\ n \in inflight
  /\ attempts[n] + 1 <= RETRY_MAX_ATTEMPTS
  /\ attempts' = [attempts EXCEPT ![n] = @ + 1]
  /\ pending_set_attempts(n, attempts[n] + 1)
  /\ job' = Sending({n})
  /\ UNCHANGED <<seq, pending, history, running, connected, inflight, status,
                 wire, connects, crashes, minted, sends, server_has, gave_up>>

\* An abandoned message that stays in the retry table.
DueGiveUp_KeepEntry(n) ==
  /\ Free /\ n \in inflight
  /\ attempts[n] + 1 > RETRY_MAX_ATTEMPTS
  /\ inflight' = inflight \ {n}
  /\ gave_up' = gave_up \cup {n}
  /\ status' = Shown(n, "failed")
  /\ UNCHANGED <<disk, running, connected, attempts, job, wire, connects,
                 crashes, minted, sends, server_has>>

\* drop_outgoing, then the event SendFailed.
DueGiveUp(n) ==
  /\ Free /\ n \in inflight
  /\ attempts[n] + 1 > RETRY_MAX_ATTEMPTS
  /\ inflight' = inflight \ {n}
  /\ pending' = pending \ {n}
  /\ gave_up' = gave_up \cup {n}
  /\ status' = Shown(n, "failed")
  /\ UNCHANGED <<seq, disk_attempts, history, running, connected, attempts, job,
                 wire, connects, crashes, minted, sends, server_has>>

(***************************************************************************)
(* The process ends (a crash, a failed write, the shutdown) and starts     *)
(* again with what is on disk (Outbox::load).                              *)
(***************************************************************************)
Crash ==
  /\ running
  /\ crashes < MaxCrashes /\ crashes' = crashes + 1
  /\ running' = FALSE /\ connected' = FALSE
  /\ inflight' = {}
  /\ attempts' = [n \in Ids |-> 0]
  /\ job' = Idle
  /\ status' = [n \in Ids |-> "none"]
  /\ wire' = {}
  /\ UNCHANGED <<disk, connects, minted, sends, server_has, gave_up>>

load ==
  /\ ~running
  /\ running' = TRUE
  /\ inflight' = DOMAIN pending_all
  /\ attempts' = [n \in Ids |-> IF n \in pending THEN pending_all[n] ELSE 0]
  /\ UNCHANGED <<disk, connected, job, status, wire, connects, crashes, minted,
                 sends, server_has, gave_up>>

Next ==
  \/ Connect \/ Disconnect \/ BatchSent \/ EnqueueSeq \/ EnqueuePending
  \/ AckPut \/ Crash \/ load
  \/ \E n \in Ids : SendNext(n) \/ AckDelete(n) \/ LateAck(n)
                      \/ DueResend(n) \/ DueGiveUp(n)

Spec == Init /\ [][Next]_vars
-----------------------------------------------------------------------------
TypeOK ==
  /\ seq \in 0..MaxMsgs
  /\ pending \subseteq Ids /\ history \subseteq Ids /\ inflight \subseteq Ids
  /\ disk_attempts \in [Ids -> 0..RETRY_MAX_ATTEMPTS]
  /\ attempts \in [Ids -> 0..RETRY_MAX_ATTEMPTS]
  /\ running \in BOOLEAN /\ connected \in BOOLEAN
  /\ job \in {Idle} \cup [kind : {"enqueue", "ack"}, id : Ids]
              \cup [kind : {"send"}, ids : SUBSET Ids]
  /\ status \in [Ids -> {"none", "sending", "delivered", "failed"}]
  /\ wire \subseteq Ids
  /\ connects \in Nat /\ crashes \in Nat
  /\ minted \in [Ids -> Nat] /\ sends \in [Ids -> Nat]
  /\ server_has \subseteq Ids /\ gave_up \subseteq Ids

(***************************************************************************)
(* An id is given to one message only, across crashes at any point of      *)
(* enqueue_outgoing: the recipient deduplicates by it, so a second message *)
(* under the same id would be thrown away.                                 *)
(***************************************************************************)
NeverReused == \A n \in Ids : minted[n] <= 1

(***************************************************************************)
(* A message leaves the retry table only when the server has confirmed it  *)
(* or its attempts are exhausted, whatever crashes, reconnections and      *)
(* confirmations of other messages happen.                                 *)
(***************************************************************************)
KeptUntilSettled ==
  \A n \in Ids : minted[n] > 0 /\ n \notin pending => n \in server_has \cup gave_up

(***************************************************************************)
(* A message that was confirmed or given up is never sent again, not even  *)
(* after a restart (drop_outgoing: "otherwise it would be sent again after *)
(* a restart"): one that is about to be sent is still in the retry table.  *)
(***************************************************************************)
SettledNotResent ==
  [][\A n \in Ids : sends'[n] > sends[n] => n \notin server_has \cup gave_up]_vars

(***************************************************************************)
(* A message the user sees as delivered is in the stored history, unless   *)
(* it had been given up before its confirmation came.                      *)
(***************************************************************************)
DeliveredIsStored ==
  \A n \in Ids : status[n] = "delivered" => n \in history \cup gave_up
=============================================================================
