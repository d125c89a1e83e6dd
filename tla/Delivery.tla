------------------------------ MODULE Delivery ------------------------------
(***************************************************************************)
(* The session core closed with the client of im-client                    *)
(* (crates/im-client/src/client.rs, outbox.rs, dedup.rs): one client per   *)
(* user that connects, logs in, pulls its offline messages once, sends its *)
(* unconfirmed messages again and then exchanges messages, over            *)
(* connections that may break at any time.                                 *)
(***************************************************************************)
EXTENDS Sessions, SequencesExt

CONSTANTS
  Sends,              \* bound: messages to be sent, a set of <<from, to>>
  MaxSends,           \* bound: messages a user sends
  MaxFaults,          \* bound: broken connections, handshake timeouts, restarts of clients
  DEDUP_CAPACITY,     \* 1024 in the code
  RETRY_MAX_ATTEMPTS  \* sends of a message, the first included

ASSUME DeliveryAssumption ==
  /\ Sends \subseteq Users \X Users
  /\ MaxSends \in Nat /\ MaxFaults \in Nat
  /\ DEDUP_CAPACITY \in Nat \ {0}
  /\ RETRY_MAX_ATTEMPTS \in Nat \ {0}

VARIABLES
  phase,     \* phase[u]: "offline" (backing off), "handshake", "loop", "stopped"
  link,      \* link[u]: the connection of client u
  cut,       \* cut[c]: the connection is broken, its ends are yet to notice
  outbox,    \* outbox[u]: unconfirmed messages, on disk and in memory
  cmid_seq,  \* cmid_seq[u]: last client_msg_id given
  inbox,     \* inbox[u]: sync cursor, deduplication window, messages shown
  confirmed, \* history: <<from, cmid>> confirmed to their sender
  faults,    \* faults so far
  restarted  \* history: clients whose process was restarted

clientVars == <<phase, link, cut, outbox, cmid_seq, inbox, confirmed, faults, restarted>>
dvars == <<vars, clientVars>>
serverRest == <<reader, writer, user, reply_seq, handle_seq, job, router,
                offline, last_id, fed, placed, acked>>

DInit ==
  /\ Init
  /\ phase = [u \in Users |-> "offline"]
  /\ link = [u \in Users |-> NoConn]
  /\ cut = [c \in Conns |-> FALSE]
  /\ outbox = [u \in Users |-> << >>]
  /\ cmid_seq = [u \in Users |-> 0]
  /\ inbox = [u \in Users |-> [cursor |-> 0, seen |-> << >>, shown |-> << >>]]
  /\ confirmed = {}
  /\ faults = 0
  /\ restarted = {}

Key(m) == <<m.from, m.cmid>>

\* DedupWindow::admit forgets the oldest key when the window is full.
admit(keys, k) ==
  Append(IF Len(keys) = DEDUP_CAPACITY THEN Tail(keys) ELSE keys, k)

\* The cursor is set only when the id is greater: ingest compares, the store
\* overwrites what it has.
CursorAfter(cursor, id) == IF id > cursor THEN id ELSE cursor

\* Deduplication by the server's id, which changes with every resend.
Ingest_ByMsgId(box, m) ==
  IF \E i \in 1..Len(box.seen) : box.seen[i] = <<m.from, m.id>> THEN box
  ELSE [cursor |-> IF m.id > box.cursor THEN m.id ELSE box.cursor,
        seen |-> Append(box.seen, <<m.from, m.id>>),
        shown |-> Append(box.shown, Key(m))]

\* LocalState::ingest: deduplicate, store, advance the cursor, show.
Ingest(box, m) ==
  IF \E i \in 1..Len(box.seen) : box.seen[i] = Key(m) THEN box
  ELSE [cursor |-> CursorAfter(box.cursor, m.id),
        seen |-> admit(box.seen, Key(m)),
        shown |-> Append(box.shown, Key(m))]

\* The state once the first n messages of a batch are taken is done[n].
Ingested(box, ms) ==
  LET done[n \in 0..Len(ms)] == IF n = 0 THEN box ELSE Ingest(done[n - 1], ms[n])
  IN  done[Len(ms)]

\* A batch whose first message is passed over.
IngestAll_FromSecond(box, ms) == Ingested(box, SubSeq(ms, 2, Len(ms)))

\* ingest_batch
IngestAll(box, ms) == Ingested(box, ms)

\* The messages of an outbox as frames.
Resends(box) == [i \in 1..Len(box) |-> MsgFrame(box[i].to, box[i].cmid)]

(***************************************************************************)
(* connect_once: the connection and the Handshake.                         *)
(***************************************************************************)
Connect(u) ==
  /\ phase[u] = "offline"
  /\ AcceptConn
  /\ link' = [link EXCEPT ![u] = conn_seq + 1]
  /\ phase' = [phase EXCEPT ![u] = "handshake"]
  /\ up' = [up EXCEPT ![conn_seq + 1] = <<HandshakeFrame(u, TRUE)>>]
  /\ UNCHANGED <<serverRest, down, cut, outbox, cmid_seq, inbox, confirmed,
                 faults, restarted>>

\* The client gives up its connection (finish_gateway).
Leave(u, next) ==
  /\ phase' = [phase EXCEPT ![u] = next]
  /\ link' = [link EXCEPT ![u] = NoConn]
  /\ cut' = [cut EXCEPT ![link[u]] = TRUE]

\* The next frame of the connection of u.
Reads(u) ==
  /\ link[u] # NoConn
  /\ down[link[u]] # << >>
  /\ down' = [down EXCEPT ![link[u]] = Tail(@)]
FrameBody(u) == Head(down[link[u]]).body

\* A reconnection that leaves the unconfirmed messages to their timers.
FirstFrame_NoResend(u) ==
  /\ phase[u] = "handshake"
  /\ Reads(u)
  /\ LET b == FrameBody(u) IN
       \/ /\ b.cmd = "HandshakeAck" /\ b.accepted
          /\ phase' = [phase EXCEPT ![u] = "loop"]
          /\ up' = [up EXCEPT ![link[u]] = Append(@, SyncReqFrame(inbox[u].cursor))]
          /\ UNCHANGED <<link, cut>>
       \/ /\ ~(b.cmd = "HandshakeAck" /\ b.accepted)
          /\ Leave(u, IF b.cmd = "HandshakeAck" THEN "stopped" ELSE "offline")
          /\ UNCHANGED up
  /\ UNCHANGED <<conn_seq, task, serverRest, outbox, cmid_seq, inbox,
                 confirmed, faults, restarted>>

\* connect_once: the first frame decides. Accepted: pull offline messages and
\* send all unconfirmed messages again (message_loop). Refused: stop for good.
\* Any other frame is a failed handshake.
FirstFrame(u) ==
  /\ phase[u] = "handshake"
  /\ Reads(u)
  /\ LET b == FrameBody(u) IN
       \/ /\ b.cmd = "HandshakeAck" /\ b.accepted
          /\ phase' = [phase EXCEPT ![u] = "loop"]
          /\ up' = [up EXCEPT ![link[u]] =
                      Append(@, SyncReqFrame(inbox[u].cursor)) \o Resends(outbox[u])]
          /\ UNCHANGED <<link, cut>>
       \/ /\ b.cmd = "HandshakeAck" /\ ~b.accepted
          /\ Leave(u, "stopped")
          /\ UNCHANGED up
       \/ /\ b.cmd # "HandshakeAck"
          /\ Leave(u, "offline")
          /\ UNCHANGED up
  /\ UNCHANGED <<conn_seq, task, serverRest, outbox, cmid_seq, inbox,
                 confirmed, faults, restarted>>

Fault == faults < MaxFaults /\ faults' = faults + 1

\* The Handshake is not answered in time.
HandshakeTimeout(u) ==
  /\ phase[u] = "handshake"
  /\ Fault
  /\ Leave(u, "offline")
  /\ UNCHANGED <<vars, outbox, cmid_seq, inbox, confirmed, restarted>>

\* A connection breaks: network failure, idle limit, or the server shutting down.
Break(c) ==
  /\ task[c] = "live" /\ ~cut[c]
  /\ Fault
  /\ cut' = [cut EXCEPT ![c] = TRUE]
  /\ UNCHANGED <<vars, phase, link, outbox, cmid_seq, inbox, confirmed, restarted>>

\* The client's gateway meets the break: Outcome::Disconnected.
LinkLost(u) ==
  /\ link[u] # NoConn /\ cut[link[u]]
  /\ Leave(u, "offline")
  /\ UNCHANGED <<vars, outbox, cmid_seq, inbox, confirmed, faults, restarted>>

(***************************************************************************)
(* message_loop                                                            *)
(***************************************************************************)
\* Commands: the message is in the outbox before it is on the wire.
Send(u, to) ==
  /\ phase[u] = "loop"
  /\ cmid_seq[u] < MaxSends
  /\ LET n == cmid_seq[u] + 1 IN
       /\ cmid_seq' = [cmid_seq EXCEPT ![u] = n]
       /\ outbox' = [outbox EXCEPT ![u] =
                       Append(@, [cmid |-> n, to |-> to, attempts |-> 1])]
       /\ up' = [up EXCEPT ![link[u]] = Append(@, MsgFrame(to, n))]
  /\ UNCHANGED <<conn_seq, task, serverRest, down, phase, link, cut, inbox,
                 confirmed, faults, restarted>>

\* Outbox::due for the i-th message: give up after the last attempt, else send
\* it again.
Due(u, i) ==
  /\ phase[u] = "loop"
  /\ LET e == outbox[u][i] IN
       \/ /\ e.attempts + 1 > RETRY_MAX_ATTEMPTS
          /\ outbox' = [outbox EXCEPT ![u] = RemoveAt(@, i)]
          /\ UNCHANGED up
       \/ /\ e.attempts + 1 <= RETRY_MAX_ATTEMPTS
          /\ outbox' = [outbox EXCEPT ![u][i].attempts = @ + 1]
          /\ up' = [up EXCEPT ![link[u]] = Append(@, MsgFrame(e.to, e.cmid))]
  /\ UNCHANGED <<conn_seq, task, serverRest, down, phase, link, cut, cmid_seq,
                 inbox, confirmed, faults, restarted>>

ReceiveMsg(u) ==
  /\ phase[u] = "loop"
  /\ Reads(u)
  /\ LET b == FrameBody(u) IN
       \/ /\ b.cmd = "Msg"
          /\ inbox' = [inbox EXCEPT ![u] = Ingest(@, b.msg)]
       \/ /\ b.cmd = "SyncResp"
          /\ inbox' = [inbox EXCEPT ![u] = IngestAll(@, b.messages)]
  /\ UNCHANGED <<conn_seq, task, serverRest, up, phase, link, cut, outbox,
                 cmid_seq, confirmed, faults, restarted>>

\* Outbox::ack: the first entry with the client_msg_id; a late second
\* confirmation finds none.
ReceiveAck(u) ==
  /\ phase[u] = "loop"
  /\ Reads(u)
  /\ FrameBody(u).cmd = "MsgAck"
  /\ LET id == FrameBody(u).msg.cmid
         Pending(i) == outbox[u][i].cmid = id
     IN  \/ \E i \in 1..Len(outbox[u]) :
              /\ Pending(i) /\ \A j \in 1..(i - 1) : ~Pending(j)
              /\ outbox' = [outbox EXCEPT ![u] = RemoveAt(@, i)]
              /\ confirmed' = confirmed \cup {<<u, id>>}
         \/ /\ \A i \in 1..Len(outbox[u]) : ~Pending(i)
            /\ UNCHANGED <<outbox, confirmed>>
  /\ UNCHANGED <<conn_seq, task, serverRest, up, phase, link, cut, cmid_seq,
                 inbox, faults, restarted>>

(***************************************************************************)
(* The process ends and starts again: the outbox and the cursor come from  *)
(* disk (LocalState::open), the deduplication window starts empty. The     *)
(* disk holds the attempts of the last retransmission, 0 before the first. *)
(***************************************************************************)
Reloaded(box) ==
  [i \in 1..Len(box) |->
     [box[i] EXCEPT !.attempts = IF @ = 1 THEN 0 ELSE @]]

Restart(u) ==
  /\ Fault
  /\ restarted' = restarted \cup {u}
  /\ phase' = [phase EXCEPT ![u] = "offline"]
  /\ link' = [link EXCEPT ![u] = NoConn]
  /\ cut' = IF link[u] = NoConn THEN cut ELSE [cut EXCEPT ![link[u]] = TRUE]
  /\ inbox' = [inbox EXCEPT ![u].seen = << >>]
  /\ outbox' = [outbox EXCEPT ![u] = Reloaded(@)]
  /\ UNCHANGED <<vars, cmid_seq, confirmed>>

\* The ends of a broken connection at the server.
ServerNotices(c) ==
  /\ cut[c]
  /\ ReaderExit(c) \/ WriterExit(c)
  /\ UNCHANGED clientVars

ServerStep(c) == SessionStep(c) /\ UNCHANGED clientVars

ClientStep(u) ==
  \/ FirstFrame(u) \/ LinkLost(u) \/ ReceiveMsg(u) \/ ReceiveAck(u)

DNext ==
  \/ \E c \in Conns : ServerStep(c) \/ ServerNotices(c) \/ Break(c)
  \/ \E u \in Users :
       \/ Connect(u) \/ ClientStep(u) \/ HandshakeTimeout(u) \/ Restart(u)
       \/ \E i \in 1..Len(outbox[u]) : Due(u, i)
  \/ \E s \in Sends : Send(s[1], s[2])

DSpec == DInit /\ [][DNext]_dvars

\* The runtime polls every task that can proceed, clients connect again after
\* their back-off, and a broken connection is noticed (end of stream or the idle
\* limit). Timers and sends may or may not come.
DFairSpec ==
  /\ DSpec
  /\ \A c \in Conns : WF_dvars(ServerStep(c)) /\ WF_dvars(ServerNotices(c))
  /\ \A u \in Users : WF_dvars(Connect(u)) /\ WF_dvars(ClientStep(u))
-----------------------------------------------------------------------------
Sent == UNION {{<<u, n>> : n \in 1..cmid_seq[u]} : u \in Users}
Shown(u) == {inbox[u].shown[i] : i \in 1..Len(inbox[u].shown)}
Unconfirmed(u) == {outbox[u][i].cmid : i \in 1..Len(outbox[u])}

(***************************************************************************)
(* Exactly once for the user: a message is shown at most once although it  *)
(* can come as a live message, in a sync batch and again with every        *)
(* resend, each time under another msg_id, as long as the recipient's      *)
(* process lives (its deduplication window is in memory).                  *)
(***************************************************************************)
ShownOnce ==
  \A u \in Users \ restarted : \A i, j \in 1..Len(inbox[u].shown) :
    i # j => inbox[u].shown[i] # inbox[u].shown[j]

\* Message k is on its way to u or waits for u at the server: in the offline
\* queue, or in a channel or a task of the connection u is on.
InBody(k, b) ==
  \/ b.cmd = "Msg" /\ Key(b.msg) = k
  \/ b.cmd = "SyncResp" /\ \E i \in 1..Len(b.messages) : Key(b.messages[i]) = k
OnItsWay(k, u) ==
  \/ \E i \in 1..Len(offline[u]) : Key(offline[u][i]) = k
  \/ link[u] # NoConn /\ \E i \in 1..Len(down[link[u]]) : InBody(k, down[link[u]][i].body)
  \/ \E c \in Conns :
       \/ job[c].kind = "reply" /\ user[c] = u /\ link[u] = c /\ InBody(k, job[c].frame)
       \/ job[c].kind \in {"route", "store"} /\ Key(job[c].msg) = k
       \/ job[c].kind = "send" /\ Key(job[c].msg) = k

(***************************************************************************)
(* session.rs, push_event: "messages: not lost. Offline degradation plus   *)
(* delivery after reconnection (at least once)". A confirmed message has   *)
(* been shown to its recipient or can still reach it.                      *)
(***************************************************************************)
ConfirmedKept ==
  \A m \in placed : Key(m) \in confirmed =>
    Key(m) \in Shown(m.to) \/ OnItsWay(Key(m), m.to)

(***************************************************************************)
(* As long as the recipient's client has not lost a connection, the        *)
(* handover between the offline queue, the sync batch and live delivery    *)
(* loses nothing.                                                          *)
(***************************************************************************)
KeptWhileConnected ==
  \A m \in placed : (Key(m) \in confirmed /\ \A c \in Conns : user[c] = m.to => ~cut[c]) =>
    Key(m) \in Shown(m.to) \/ OnItsWay(Key(m), m.to)

(***************************************************************************)
(* Every message a client has taken on leaves its outbox, unless the       *)
(* client is off line for good or stopped (no connection left in the       *)
(* model). Only users who send have one.                                   *)
(***************************************************************************)
OutboxDrains ==
  \A u \in {s[1] : s \in Sends} : \A n \in 1..MaxSends :
    (n \in Unconfirmed(u)) ~> (n \notin Unconfirmed(u) \/ phase[u] \in {"offline", "stopped"})
=============================================================================
