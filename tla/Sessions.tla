------------------------------ MODULE Sessions ------------------------------
(***************************************************************************)
(* The session core of im-server (crates/im-server/src/session.rs and      *)
(* router.rs): the routing table, the offline queues and one session task  *)
(* per TCP connection. Every await of a handler is a point where other     *)
(* tasks run, so a handler is the sequence of its steps between awaits.     *)
(*                                                                         *)
(* A connection is seen through two channels: up[c] holds the frames the   *)
(* session task has yet to take, down[c] those accepted by the outbound    *)
(* channel that the client has not read. What clients send is left open    *)
(* here; module Delivery closes it with the client of im-client.           *)
(***************************************************************************)
EXTENDS Integers, Sequences, FiniteSets

CONSTANTS
  Users,
  MaxConn,      \* bound: connections accepted in the life of the server
  MaxId,        \* bound: ids the generator hands out
  MaxFrames,    \* bound: frames sent by clients
  ClientFrames, \* frames the clients of this module may send
  MAX_OFFLINE,  \* max_offline_per_user, 1024 in the code
  SYNC_BATCH,   \* sync_batch_size, 100 in the code
  CHANNEL,      \* capacity of an outbound channel, 64 in the code
  IdMayFail,    \* whether next_id may return None (clock moved backwards)
  NoUser, NoConn

\* Frames a client sends, as far as the session task tells them apart.
HandshakeFrame(u, valid) == [cmd |-> "Handshake", user |-> u, valid |-> valid]
MsgFrame(to, cmid) == [cmd |-> "Msg", to |-> to, cmid |-> cmid]
SyncReqFrame(since) == [cmd |-> "SyncReq", since |-> since]

UpFrames ==
  [cmd : {"Handshake"}, user : Users, valid : BOOLEAN]
    \cup [cmd : {"Msg"}, to : Users, cmid : Nat]
    \cup [cmd : {"SyncReq"}, since : Nat]

ASSUME SessionsAssumption ==
  /\ ClientFrames \subseteq UpFrames
  /\ NoUser \notin Users
  /\ MaxConn \in Nat
  /\ NoConn \notin 1..MaxConn
  /\ MaxId \in Nat /\ MaxFrames \in Nat
  /\ MAX_OFFLINE \in Nat \ {0}
  /\ SYNC_BATCH \in Nat \ {0}
  /\ CHANNEL \in Nat \ {0}
  /\ IdMayFail \in BOOLEAN

VARIABLES
  conn_seq,   \* connections accepted so far: their ids are 1..conn_seq
  reader,     \* reader[c]: the read loop of the gateway, "open" or "closed"
  writer,     \* writer[c]: its write actor; "closed" closes the outbound channel
  task,       \* task[c]: session task "none", "live" or "ended"
  user,       \* SessionState.user
  reply_seq,  \* SessionState.send_seq
  handle_seq, \* SessionHandle.send_seq of the connection
  job,        \* what the session task is in the middle of
  router,     \* routing table: user -> connection
  offline,    \* offline queues
  last_id,    \* last id handed out by the generator (ids increase: Snowflake)
  up, down,   \* the two directions of a connection
  fed,        \* frames sent by clients so far
  placed,     \* history: messages deliver has put into a channel or a queue
  acked       \* history: messages whose MsgAck was accepted for sending

wires == <<reader, writer, up, down>>
vars == <<conn_seq, reader, writer, task, user, reply_seq, handle_seq, job,
          router, offline, last_id, up, down, fed, placed, acked>>

Conns == 1..MaxConn
Idle == [kind |-> "idle"]

Init ==
  /\ conn_seq = 0
  /\ reader = [c \in Conns |-> "open"]
  /\ writer = [c \in Conns |-> "open"]
  /\ task = [c \in Conns |-> "none"]
  /\ user = [c \in Conns |-> NoUser]
  /\ reply_seq = [c \in Conns |-> 0]
  /\ handle_seq = [c \in Conns |-> 0]
  /\ job = [c \in Conns |-> Idle]
  /\ router = [u \in Users |-> NoConn]
  /\ offline = [u \in Users |-> << >>]
  /\ last_id = 0
  /\ up = [c \in Conns |-> << >>]
  /\ down = [c \in Conns |-> << >>]
  /\ fed = 0
  /\ placed = {}
  /\ acked = {}

(***************************************************************************)
(* serve: a new connection gets the next id and a session task.            *)
(***************************************************************************)
AcceptConn ==
  /\ conn_seq < MaxConn
  /\ conn_seq' = conn_seq + 1
  /\ task' = [task EXCEPT ![conn_seq + 1] = "live"]

Accept ==
  /\ AcceptConn
  /\ UNCHANGED <<wires, user, reply_seq, handle_seq, job, router, offline,
                 last_id, fed, placed, acked>>

\* A login that replaces the entry of a session that is still there.
register_Replace(u, c) ==
  /\ router' = [router EXCEPT ![u] = c]
  /\ handle_seq' = [handle_seq EXCEPT ![c] = 0]

\* The operations of the table, each under the lock of a shard.
Router_register(u, c) ==
  /\ router[u] = NoConn
  /\ router' = [router EXCEPT ![u] = c]

Router_remove_if(u, c) ==
  router' = IF router[u] = c THEN [router EXCEPT ![u] = NoConn] ELSE router

Router_get(u) == router[u]

\* A new handle counts from 0.
register(u, c) ==
  /\ Router_register(u, c)
  /\ handle_seq' = [handle_seq EXCEPT ![c] = 0]

\* Only the registering connection removes the entry.
unregister(u, c) == Router_remove_if(u, c)

\* A queue filled from the wrong end.
store_offline_Front(q, m) ==
  <<m>> \o (IF Len(q) >= MAX_OFFLINE THEN SubSeq(q, 1, Len(q) - 1) ELSE q)

\* store_offline: a full queue loses its oldest message.
store_offline(q, m) ==
  Append(IF Len(q) >= MAX_OFFLINE THEN Tail(q) ELSE q, m)

\* A batch that is read without being removed.
SyncScan_Peek(q, since) ==
  <<SelectSeq(q, LAMBDA m : m.id > since), q>>

\* The position in I that has n positions of I up to it, itself included.
Rank(I, i) == Cardinality({j \in I : j <= i})
Nth(I, n) == CHOOSE i \in I : Rank(I, i) = n

\* sync_since, as <<taken, rest>>: the loop pops from the front what the cursor
\* covers and takes up to a batch of the others; it stops before the first
\* message past the cursor that does not fit.
SyncScan(q, since) ==
  LET past == {i \in 1..Len(q) : q[i].id > since}
      all == Cardinality(past) <= SYNC_BATCH
      batch == IF all THEN Cardinality(past) ELSE SYNC_BATCH
      popped == IF all THEN Len(q) ELSE Nth(past, SYNC_BATCH + 1) - 1
  IN  <<[n \in 1..batch |-> q[Nth(past, n)]], SubSeq(q, popped + 1, Len(q))>>

\* The session task of c is free and has taken frame f from its channel.
Takes(c, cmd) ==
  /\ task[c] = "live"
  /\ job[c] = Idle
  /\ up[c] # << >>
  /\ Head(up[c]).cmd = cmd
  /\ up' = [up EXCEPT ![c] = Tail(@)]

Replying(frame) == [kind |-> "reply", frame |-> frame]
HandshakeAck(accepted) == Replying([cmd |-> "HandshakeAck", accepted |-> accepted])

(***************************************************************************)
(* handle_handshake up to its reply: a second login, bad credentials, no   *)
(* id or a user already online are refused; otherwise the connection is    *)
(* registered before the acknowledgement is sent.                          *)
(***************************************************************************)
HandshakeRefused(c) ==
  /\ Takes(c, "Handshake")
  /\ LET f == Head(up[c]) IN
       \/ user[c] # NoUser /\ last_id' = last_id                 \* already authenticated
       \/ user[c] = NoUser /\ ~f.valid /\ last_id' = last_id     \* bad credentials
       \/ user[c] = NoUser /\ f.valid /\ IdMayFail /\ last_id' = last_id
       \/ /\ user[c] = NoUser /\ f.valid                         \* already online
          /\ router[f.user] # NoConn
          /\ last_id < MaxId /\ last_id' = last_id + 1
  /\ job' = [job EXCEPT ![c] = HandshakeAck(FALSE)]
  /\ UNCHANGED <<conn_seq, reader, writer, task, user, reply_seq, handle_seq,
                 router, offline, down, fed, placed, acked>>

HandshakeAccepted(c) ==
  /\ Takes(c, "Handshake")
  /\ user[c] = NoUser
  /\ Head(up[c]).valid
  /\ last_id < MaxId /\ last_id' = last_id + 1
  /\ register(Head(up[c]).user, c)
  /\ user' = [user EXCEPT ![c] = Head(up[c]).user]
  /\ job' = [job EXCEPT ![c] = HandshakeAck(TRUE)]
  /\ UNCHANGED <<conn_seq, reader, writer, task, reply_seq, offline, down, fed,
                 placed, acked>>

(***************************************************************************)
(* handle_msg: an unauthenticated sender and a failed id generator drop    *)
(* the message; otherwise it gets the sender's identity and the next id.   *)
(***************************************************************************)
MsgDropped(c) ==
  /\ Takes(c, "Msg")
  /\ user[c] = NoUser \/ IdMayFail
  /\ UNCHANGED <<conn_seq, reader, writer, task, user, reply_seq, handle_seq, job,
                 router, offline, last_id, down, fed, placed, acked>>

MsgNumbered(c) ==
  /\ Takes(c, "Msg")
  /\ user[c] # NoUser
  /\ last_id < MaxId /\ last_id' = last_id + 1
  /\ LET f == Head(up[c]) IN
       job' = [job EXCEPT ![c] =
                 [kind |-> "route",
                  msg |-> [from |-> user[c], to |-> f.to, cmid |-> f.cmid,
                           id |-> last_id + 1]]]
  /\ UNCHANGED <<conn_seq, reader, writer, task, user, reply_seq, handle_seq,
                 router, offline, down, fed, placed, acked>>

\* The acknowledgement that ends handle_msg.
MsgAck(m) == Replying([cmd |-> "MsgAck", msg |-> m])

\* deliver, first step: look the recipient up. Online: take a sequence number
\* of its handle and go on to send; offline: go on to the offline queue. The
\* table is not locked afterwards.
DeliverLookup(c) ==
  /\ task[c] = "live" /\ job[c].kind = "route"
  /\ LET m == job[c].msg
         target == Router_get(m.to)
     IN  \/ /\ target # NoConn
            /\ handle_seq' = [handle_seq EXCEPT ![target] = @ + 1]
            /\ job' = [job EXCEPT ![c] = [kind |-> "send", msg |-> m,
                         target |-> target, seq |-> handle_seq[target] + 1]]
         \/ /\ target = NoConn
            /\ job' = [job EXCEPT ![c] = [kind |-> "store", msg |-> m]]
            /\ UNCHANGED handle_seq
  /\ UNCHANGED <<conn_seq, wires, task, user, reply_seq, router, offline,
                 last_id, fed, placed, acked>>

\* A send to a dying connection that is taken for delivered.
DeliverSend_IgnoreClosed(c) ==
  /\ task[c] = "live" /\ job[c].kind = "send"
  /\ LET m == job[c].msg
         target == job[c].target
     IN  \/ /\ writer[target] = "open"
            /\ Len(down[target]) < CHANNEL
            /\ down' = [down EXCEPT ![target] =
                          Append(@, [seq |-> job[c].seq, body |-> [cmd |-> "Msg", msg |-> m]])]
            /\ placed' = placed \cup {m}
         \/ /\ writer[target] = "closed"
            /\ UNCHANGED <<down, placed>>
  /\ job' = [job EXCEPT ![c] = MsgAck(job[c].msg)]
  /\ UNCHANGED <<conn_seq, reader, writer, task, user, reply_seq, handle_seq,
                 router, offline, last_id, up, fed, acked>>

\* deliver, second step: the channel of the recipient takes the frame once it
\* has room; a closed channel sends the message to the offline queue.
DeliverSend(c) ==
  /\ task[c] = "live" /\ job[c].kind = "send"
  /\ LET m == job[c].msg
         target == job[c].target
     IN  \/ /\ writer[target] = "open"
            /\ Len(down[target]) < CHANNEL
            /\ down' = [down EXCEPT ![target] =
                          Append(@, [seq |-> job[c].seq, body |-> [cmd |-> "Msg", msg |-> m]])]
            /\ placed' = placed \cup {m}
            /\ job' = [job EXCEPT ![c] = MsgAck(m)]
         \/ /\ writer[target] = "closed"
            /\ job' = [job EXCEPT ![c] = [kind |-> "store", msg |-> m]]
            /\ UNCHANGED <<down, placed>>
  /\ UNCHANGED <<conn_seq, reader, writer, task, user, reply_seq, handle_seq,
                 router, offline, last_id, up, fed, acked>>

\* deliver, last step: store_offline, under the lock of the offline table.
DeliverStore(c) ==
  /\ task[c] = "live" /\ job[c].kind = "store"
  /\ LET m == job[c].msg IN
       /\ offline' = [offline EXCEPT ![m.to] = store_offline(@, m)]
       /\ placed' = placed \cup {m}
       /\ job' = [job EXCEPT ![c] = MsgAck(m)]
  /\ UNCHANGED <<conn_seq, wires, task, user, reply_seq, handle_seq, router,
                 last_id, fed, acked>>

(***************************************************************************)
(* handle_sync: the batch leaves the offline queue before it is sent.      *)
(***************************************************************************)
SyncIgnored(c) ==
  /\ Takes(c, "SyncReq")
  /\ user[c] = NoUser
  /\ UNCHANGED <<conn_seq, reader, writer, task, user, reply_seq, handle_seq, job,
                 router, offline, last_id, down, fed, placed, acked>>

SyncTaken(c) ==
  /\ Takes(c, "SyncReq")
  /\ user[c] # NoUser
  /\ LET r == SyncScan(offline[user[c]], Head(up[c]).since) IN
       /\ offline' = [offline EXCEPT ![user[c]] = r[2]]
       /\ job' = [job EXCEPT ![c] = Replying([cmd |-> "SyncResp", messages |-> r[1]])]
  /\ UNCHANGED <<conn_seq, reader, writer, task, user, reply_seq, handle_seq,
                 router, last_id, down, fed, placed, acked>>

\* A reply that waits for room although the write actor has gone.
Reply_AwaitRoom(c) ==
  /\ task[c] = "live" /\ job[c].kind = "reply"
  /\ Len(down[c]) < CHANNEL
  /\ LET f == job[c].frame IN
       /\ down' = [down EXCEPT ![c] = Append(@, [seq |-> reply_seq[c] + 1, body |-> f])]
       /\ acked' = IF f.cmd = "MsgAck" THEN acked \cup {f.msg} ELSE acked
  /\ reply_seq' = [reply_seq EXCEPT ![c] = @ + 1]
  /\ job' = [job EXCEPT ![c] = Idle]
  /\ UNCHANGED <<conn_seq, reader, writer, task, user, handle_seq, router, offline,
                 last_id, up, fed, placed>>

(***************************************************************************)
(* reply: the session task's own sequence numbers; a closed channel loses  *)
(* the reply.                                                              *)
(***************************************************************************)
Reply(c) ==
  /\ task[c] = "live" /\ job[c].kind = "reply"
  /\ LET f == job[c].frame IN
       \/ /\ writer[c] = "open"
          /\ Len(down[c]) < CHANNEL
          /\ down' = [down EXCEPT ![c] = Append(@, [seq |-> reply_seq[c] + 1, body |-> f])]
          /\ acked' = IF f.cmd = "MsgAck" THEN acked \cup {f.msg} ELSE acked
       \/ /\ writer[c] = "closed"
          /\ UNCHANGED <<down, acked>>
  /\ reply_seq' = [reply_seq EXCEPT ![c] = @ + 1]
  /\ job' = [job EXCEPT ![c] = Idle]
  /\ UNCHANGED <<conn_seq, reader, writer, task, user, handle_seq, router, offline,
                 last_id, up, fed, placed>>

(***************************************************************************)
(* The end of a connection. The read loop meets the end of the stream, an  *)
(* error, the idle limit or the shutdown signal: frames that had not       *)
(* reached the session channel are lost, and the session task works off    *)
(* the others before it unregisters. The write actor ends when a write     *)
(* fails, or after the read loop once it has drained its channel; until    *)
(* then the channel accepts frames, whoever holds its sender. What it      *)
(* accepted stays in down[c]: whether the client still reads it is the     *)
(* client's and the network's matter.                                      *)
(***************************************************************************)
ReaderExit(c) ==
  /\ task[c] = "live" /\ reader[c] = "open"
  /\ reader' = [reader EXCEPT ![c] = "closed"]
  /\ \E k \in 0..Len(up[c]) : up' = [up EXCEPT ![c] = SubSeq(@, 1, k)]
  /\ UNCHANGED <<conn_seq, writer, task, user, reply_seq, handle_seq, job,
                 router, offline, last_id, down, fed, placed, acked>>

WriterExit(c) ==
  /\ task[c] # "none" /\ writer[c] = "open"
  /\ writer' = [writer EXCEPT ![c] = "closed"]
  /\ UNCHANGED <<conn_seq, reader, task, user, reply_seq, handle_seq, job,
                 router, offline, last_id, up, down, fed, placed, acked>>

SessionEnd(c) ==
  /\ task[c] = "live" /\ reader[c] = "closed"
  /\ up[c] = << >> /\ job[c] = Idle
  /\ task' = [task EXCEPT ![c] = "ended"]
  /\ IF user[c] # NoUser THEN unregister(user[c], c) ELSE UNCHANGED router
  /\ UNCHANGED <<conn_seq, wires, user, reply_seq, handle_seq, job, offline,
                 last_id, fed, placed, acked>>

SessionStep(c) ==
  \/ HandshakeRefused(c) \/ HandshakeAccepted(c)
  \/ MsgDropped(c) \/ MsgNumbered(c) \/ DeliverLookup(c)
  \/ DeliverSend(c) \/ DeliverStore(c)
  \/ SyncIgnored(c) \/ SyncTaken(c) \/ Reply(c) \/ SessionEnd(c)

(***************************************************************************)
(* Clients, left open: any of ClientFrames at any time, any reading.       *)
(***************************************************************************)
ClientSend(c, f) ==
  /\ task[c] = "live" /\ reader[c] = "open"
  /\ fed < MaxFrames
  /\ fed' = fed + 1
  /\ up' = [up EXCEPT ![c] = Append(@, f)]
  /\ UNCHANGED <<conn_seq, reader, writer, task, user, reply_seq, handle_seq, job,
                 router, offline, last_id, down, placed, acked>>

\* The writer takes a frame from the channel and writes it to the stream.
ClientRead(c) ==
  /\ down[c] # << >>
  /\ down' = [down EXCEPT ![c] = Tail(@)]
  /\ UNCHANGED <<conn_seq, reader, writer, task, user, reply_seq, handle_seq, job,
                 router, offline, last_id, up, fed, placed, acked>>

ServerNext ==
  \/ Accept
  \/ \E c \in Conns : SessionStep(c) \/ ReaderExit(c) \/ WriterExit(c)

Next ==
  \/ ServerNext
  \/ \E c \in Conns : ClientRead(c) \/ \E f \in ClientFrames : ClientSend(c, f)

Spec == Init /\ [][Next]_vars

-----------------------------------------------------------------------------
Msgs == [from : Users, to : Users, cmid : Nat, id : 1..MaxId]

Bodies ==
  [cmd : {"HandshakeAck"}, accepted : BOOLEAN]
    \cup [cmd : {"Msg", "MsgAck"}, msg : Msgs]
    \cup [cmd : {"SyncResp"}, messages : Seq(Msgs)]

TypeOK ==
  /\ conn_seq \in 0..MaxConn
  /\ reader \in [Conns -> {"open", "closed"}]
  /\ writer \in [Conns -> {"open", "closed"}]
  /\ task \in [Conns -> {"none", "live", "ended"}]
  /\ user \in [Conns -> Users \cup {NoUser}]
  /\ reply_seq \in [Conns -> Nat]
  /\ handle_seq \in [Conns -> Nat]
  /\ job \in [Conns -> {Idle} \cup [kind : {"route", "store"}, msg : Msgs]
                    \cup [kind : {"send"}, msg : Msgs, target : Conns, seq : Nat]
                    \cup [kind : {"reply"}, frame : Bodies]]
  /\ router \in [Users -> Conns \cup {NoConn}]
  /\ offline \in [Users -> Seq(Msgs)]
  /\ \A u \in Users : Len(offline[u]) <= MAX_OFFLINE
  /\ last_id \in 0..MaxId
  /\ up \in [Conns -> Seq(UpFrames)]
  /\ down \in [Conns -> Seq([seq : Nat, body : Bodies])]
  /\ fed \in Nat
  /\ placed \subseteq Msgs
  /\ acked \subseteq Msgs

(***************************************************************************)
(* The routing table and the session tasks agree, however a reconnection   *)
(* interleaves with the end of the previous connection: a user's entry is  *)
(* a live session of that user, and a live session that has logged in is   *)
(* the user's entry (no cleanup of an old connection removes a newer one,  *)
(* no session outlives its entry, no user has two live sessions).          *)
(***************************************************************************)
RouterMatchesSessions ==
  /\ \A u \in Users : router[u] # NoConn =>
       task[router[u]] = "live" /\ user[router[u]] = u
  /\ \A c \in Conns : task[c] = "live" /\ user[c] # NoUser => router[user[c]] = c

(***************************************************************************)
(* A message is acknowledged to its sender only after deliver has put it   *)
(* into the recipient's channel or offline queue (the ack means "taken     *)
(* over by the server").                                                   *)
(***************************************************************************)
AckAfterCustody == acked \subseteq placed

(***************************************************************************)
(* The messages of one sender keep their order, in the offline queue and   *)
(* among the live messages of a connection, across reconnections of the    *)
(* sender and failed sends that degrade to the queue: they are handled one *)
(* by one by the only session the sender has. (Between senders there is no *)
(* such order: numbering and storing are not one step.)                    *)
(***************************************************************************)
Ordered(ms) ==
  \A i, j \in 1..Len(ms) : i < j /\ ms[i].from = ms[j].from => ms[i].id < ms[j].id
SenderOrder ==
  /\ \A u \in Users : Ordered(offline[u])
  /\ \A c \in Conns :
       \A i, j \in 1..Len(down[c]) :
         LET b == down[c][i].body
             d == down[c][j].body
         IN  i < j /\ b.cmd = "Msg" /\ d.cmd = "Msg" /\ b.msg.from = d.msg.from
               => b.msg.id < d.msg.id

(***************************************************************************)
(* A user whose connection has died can log in again: once the read loop   *)
(* of a connection has ended its session task works off what it holds,     *)
(* even if that waits for room in another connection's channel, and frees  *)
(* the routing entry.                                                      *)
(***************************************************************************)
DeadSessionsEnd ==
  \A c \in Conns : (task[c] = "live" /\ reader[c] = "closed") ~> (task[c] = "ended")

\* Where a message can be: in an offline queue, in a channel on its own or in a
\* sync response, or in the reply a task is about to send.
OfflineIds(u) == {offline[u][i].id : i \in 1..Len(offline[u])}
BodyIds(b) ==
  IF b.cmd = "Msg" THEN {b.msg.id}
  ELSE IF b.cmd = "SyncResp" THEN {b.messages[i].id : i \in 1..Len(b.messages)}
  ELSE {}
DownIds(c) == UNION {BodyIds(down[c][i].body) : i \in 1..Len(down[c])}
PendingIds(c) == IF job[c].kind = "reply" THEN BodyIds(job[c].frame) ELSE {}

(***************************************************************************)
(* A numbered message is in one place at a time: the degradation of a      *)
(* failed send to the offline queue and the removal of a sync batch never  *)
(* leave a second copy behind.                                             *)
(***************************************************************************)
SingleCustody ==
  /\ \A u \in Users : \A c \in Conns :
       OfflineIds(u) \cap (DownIds(c) \cup PendingIds(c)) = {}
  /\ \A c, d \in Conns :
       /\ c # d => DownIds(c) \cap DownIds(d) = {}
       /\ DownIds(c) \cap PendingIds(d) = {}
  /\ \A u \in Users : Cardinality(OfflineIds(u)) = Len(offline[u])
=============================================================================
