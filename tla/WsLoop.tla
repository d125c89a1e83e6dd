------------------------------- MODULE WsLoop -------------------------------
(***************************************************************************)
(* The WebSocket endpoint (web/ws.rs): one task per connection that both   *)
(* drains its outbound channel and dispatches what the browser sends, the  *)
(* server-side events of the REST layer (Sessions::push_event) and the     *)
(* copies of a group fan-out (Sessions::fanout_one).                       *)
(*                                                                         *)
(* A dispatch that awaits a channel, and a write that awaits the browser,  *)
(* keep their task from everything else, so a task is in its select, busy  *)
(* with one job, in a write, or closing.  A channel is how many envelopes  *)
(* it holds.  The tables behind the gates are modules Friends and Groups:  *)
(* here a gate opens or not.                                               *)
(***************************************************************************)
EXTENDS Naturals

CONSTANTS WsUsers,    \* users that connect
          Sockets,    \* connections in the life of the server
          Pushers,    \* REST handlers that push an event
          OutboundCapacity,  \* OUTBOUND_CAPACITY, 64 in the code
          MaxTexts,   \* bound: texts the browsers send
          MaxPushes,  \* bound: events and group copies from elsewhere
          Nobody

ASSUME WsAssumption == /\ OutboundCapacity \in Nat \ {0}
                       /\ {MaxTexts, MaxPushes} \subseteq Nat
                       /\ Nobody \notin WsUsers \cup Sockets

VARIABLES wroute,   \* routing table: user -> connection
          sock,     \* sock[c]: [at, user, accepted, job, deaf]
          chan,     \* chan[c]: envelopes in the outbound channel
          push,     \* push[p]: the connection a REST handler waits for
          queued,   \* users whose offline queue holds messages
          texts, pushes   \* used up of the two bounds

wsVars == <<wroute, sock, chan, push, queued, texts, pushes>>

NoJob == [kind |-> "none", to |-> Nobody, cmd |-> "none"]

WsInit ==
    /\ wroute = [u \in WsUsers |-> Nobody]
    /\ sock = [c \in Sockets |-> [at |-> "free", user |-> Nobody, accepted |-> FALSE,
                                  job |-> NoJob, deaf |-> FALSE]]
    /\ chan = [c \in Sockets |-> 0]
    /\ push = [p \in Pushers |-> Nobody]
    /\ queued = {}
    /\ texts = 0
    /\ pushes = 0

Full(c) == chan[c] >= OutboundCapacity
Gone(c) == sock[c].at = "gone"

\* The envelope a frame becomes. Frames of the transport do not go out.
frame_to_envelope(cmd) ==
    CASE cmd = "HandshakeAck" -> "welcome"
      [] cmd = "Msg" -> "msg"
      [] cmd = "MsgAck" -> "msg_ack"
      [] cmd = "SyncResp" -> "sync_resp"
      [] OTHER -> "none"

\* The channel of c with a frame; the sink takes every frame it does not send.
Put(c, cmd) == [chan EXCEPT ![c] = IF frame_to_envelope(cmd) = "none" THEN @ ELSE @ + 1]

\* The channel of c with an event, or an error: text that is an envelope already.
PutText(c) == [chan EXCEPT ![c] = @ + 1]

\* tx.try_send: a full channel drops the envelope.
TrySendText(c) == IF Full(c) THEN chan ELSE PutText(c)
TrySend(c, cmd) == IF Full(c) THEN chan ELSE Put(c, cmd)

Answering(cmd) == [kind |-> "reply", to |-> Nobody, cmd |-> cmd]

\* ws_handler let the token in: handle_socket registers (whatever the id
\* generator says) and goes on to reply with the welcome. From here on others
\* put envelopes into the channel.
Welcome(c, u) ==
    \E id \in BOOLEAN :
       /\ sock[c].at = "free"
       /\ sock' = [sock EXCEPT ![c].at = "busy", ![c].user = u,
                               ![c].job = Answering("HandshakeAck"),
                               ![c].accepted = id /\ wroute[u] = Nobody]
       /\ wroute' = IF wroute[u] = Nobody THEN [wroute EXCEPT ![u] = c] ELSE wroute
       /\ UNCHANGED <<chan, push, queued, texts, pushes>>

\* Mutant of Unregister: a refused connection is not cleaned up.
Unregister_AcceptedOnly(c) ==
    LET u == sock[c].user
    IN wroute' = IF sock[c].accepted /\ wroute[u] = c THEN [wroute EXCEPT ![u] = Nobody]
                 ELSE wroute

\* Sessions::unregister: only the connection that registered.
Unregister(c) ==
    LET u == sock[c].user
    IN wroute' = IF wroute[u] = c THEN [wroute EXCEPT ![u] = Nobody] ELSE wroute

\* The loop breaks: the route is removed, and a Close goes out.  The channel is
\* still open and keeps what it holds.  On a broken socket that send fails at once.
LoopEnds(c, broken) ==
    /\ Unregister(c)
    /\ sock' = [sock EXCEPT ![c].at = "closing", ![c].deaf = @ /\ ~broken]
    /\ UNCHANGED chan

\* The send of the Close comes back, whatever came of it: handle_socket returns
\* and the channel goes with its receiver.
CloseSent(c) ==
    /\ sock[c].at = "closing"
    /\ sock' = [sock EXCEPT ![c].at = "gone"]
    /\ chan' = [chan EXCEPT ![c] = 0]
    /\ UNCHANGED <<wroute, push, queued, texts, pushes>>

Selecting(c) == sock[c].at = "select"
InLoop(c) == sock[c].at \in {"select", "busy", "write"}

\* First branch of the select: one envelope goes to the browser ...
Drain(c) ==
    /\ Selecting(c) /\ chan[c] > 0
    /\ chan' = [chan EXCEPT ![c] = @ - 1]
    /\ sock' = [sock EXCEPT ![c].at = "write"]
    /\ UNCHANGED <<wroute, push, queued, texts, pushes>>

\* ... and the write comes back once the socket took it, or fails.  Nothing limits
\* the time it may take, and what the browser sends is not read meanwhile.
Written(c) ==
    /\ sock[c].at = "write"
    /\ \/ sock' = [sock EXCEPT ![c].at = "select"] /\ UNCHANGED <<wroute, chan>>
       \/ LoopEnds(c, TRUE)
    /\ UNCHANGED <<push, queued, texts, pushes>>

\* From now on the browser takes no byte: what still fits the socket goes out,
\* then a write waits until the connection breaks, if ever.
BrowserStalls(c) ==
    /\ InLoop(c) /\ ~sock[c].deaf
    /\ sock' = [sock EXCEPT ![c].deaf = TRUE]
    /\ UNCHANGED <<wroute, chan, push, queued, texts, pushes>>

\* Second branch: end of the stream, an error or a Close frame.
InboundEnd(c) ==
    /\ Selecting(c)
    /\ LoopEnds(c, FALSE)
    /\ UNCHANGED <<push, queued, texts, pushes>>

Text(c) ==
    /\ Selecting(c)
    /\ texts < MaxTexts
    /\ texts' = texts + 1

\* A refused client that goes on talking is cut off.
TextRefused(c) ==
    /\ Text(c) /\ ~sock[c].accepted
    /\ LoopEnds(c, FALSE)
    /\ UNCHANGED <<push, queued, pushes>>

\* Everything answered on the spot through try_send: WebSocket pings (of a
\* refused client too), the pings of the protocol, envelopes that do not parse,
\* unknown types, payloads without their fields, and the gates not_member and
\* not_friend.
TextAnswered(c) ==
    /\ Text(c)
    /\ chan' = TrySendText(c)
    /\ UNCHANGED <<wroute, sock, push, queued, pushes>>

Busy(c, job) == sock' = [sock EXCEPT ![c].at = "busy", ![c].job = job]

\* handle_signal past the gate: push_event to the peer, or peer_offline.
TextSignal(c, u) ==
    LET d == wroute[u]
    IN /\ Text(c) /\ sock[c].accepted
       /\ \/ /\ d = Nobody
             /\ chan' = TrySendText(c)
             /\ UNCHANGED sock
          \/ /\ d # Nobody
             /\ Busy(c, [kind |-> "event", to |-> d, cmd |-> "none"])
             /\ UNCHANGED chan
       /\ UNCHANGED <<wroute, push, queued, pushes>>

\* A message past the gate and the window: deliver it (a group's hub takes it
\* without waiting), then acknowledge.  Without an id it is dropped.
TextMsg(c, u) ==
    LET d == wroute[u]
    IN /\ Text(c) /\ sock[c].accepted
       /\ \/ /\ Busy(c, Answering("MsgAck"))
             /\ UNCHANGED queued
          \/ /\ d = Nobody
             /\ queued' = queued \cup {u}
             /\ Busy(c, Answering("MsgAck"))
          \/ /\ d # Nobody
             /\ Busy(c, [kind |-> "msg", to |-> d, cmd |-> "Msg"])
             /\ UNCHANGED queued
          \/ UNCHANGED <<sock, queued>>
       /\ UNCHANGED <<wroute, chan, push, pushes>>

\* A sync request takes the queue and replies with it.
TextSync(c) ==
    /\ Text(c) /\ sock[c].accepted
    /\ queued' = queued \ {sock[c].user}
    /\ Busy(c, Answering("SyncResp"))
    /\ UNCHANGED <<wroute, chan, push, pushes>>

Sent(job) == IF job.kind = "event" THEN PutText(job.to) ELSE Put(job.to, job.cmd)

\* A signal is done with; a message is acknowledged next.
AfterSend(c, job) ==
    sock' = [sock EXCEPT ![c].at = IF job.kind = "event" THEN "select" ELSE "busy",
                         ![c].job = IF job.kind = "event" THEN NoJob ELSE Answering("MsgAck")]

\* Mutant of JobSend: a receiver that is gone is waited for.
JobSend_NoClosed(c) ==
    LET job == sock[c].job
    IN /\ sock[c].at = "busy" /\ job.kind \in {"event", "msg"}
       /\ ~Gone(job.to) /\ ~Full(job.to)
       /\ chan' = Sent(job)
       /\ AfterSend(c, job)
       /\ UNCHANGED <<wroute, push, queued, texts, pushes>>

\* The awaited send to another connection: into its channel once there is room,
\* or refused because the receiver is gone; then a message goes to the offline
\* queue of its user and a signal is answered with peer_offline.
JobSend(c) ==
    LET job == sock[c].job
        d == job.to
    IN /\ sock[c].at = "busy" /\ job.kind \in {"event", "msg"}
       /\ \/ /\ ~Gone(d) /\ ~Full(d)
             /\ chan' = Sent(job)
             /\ UNCHANGED queued
          \/ /\ Gone(d) /\ job.kind = "msg"
             /\ queued' = queued \cup {sock[d].user}
             /\ UNCHANGED chan
          \/ /\ Gone(d) /\ job.kind = "event"
             /\ chan' = TrySendText(c)
             /\ UNCHANGED queued
       /\ AfterSend(c, job)
       /\ UNCHANGED <<wroute, push, texts, pushes>>

\* The awaited reply: into the task's own channel, which nobody else drains.
JobReply(c) ==
    /\ sock[c].at = "busy" /\ sock[c].job.kind = "reply"
    /\ ~Full(c)
    /\ chan' = Put(c, sock[c].job.cmd)
    /\ sock' = [sock EXCEPT ![c].at = "select", ![c].job = NoJob]
    /\ UNCHANGED <<wroute, push, queued, texts, pushes>>

\* push_event from a REST handler, in its two halves around the await.
PushEvent(p, u) ==
    LET d == wroute[u]
    IN /\ push[p] = Nobody /\ pushes < MaxPushes /\ d # Nobody
       /\ pushes' = pushes + 1
       /\ push' = [push EXCEPT ![p] = d]
       /\ UNCHANGED <<wroute, sock, chan, queued, texts>>

PushSend(p) ==
    LET d == push[p]
    IN /\ push[p] # Nobody
       /\ \/ Gone(d) /\ UNCHANGED chan
          \/ /\ ~Gone(d) /\ ~Full(d)
             /\ chan' = PutText(d)
       /\ push' = [push EXCEPT ![p] = Nobody]
       /\ UNCHANGED <<wroute, sock, queued, texts, pushes>>

\* WsSink::try_send for a group copy: skipped when full, queued when offline.
GroupCopy(u) ==
    LET d == wroute[u]
    IN /\ pushes < MaxPushes
       /\ pushes' = pushes + 1
       /\ \/ /\ d = Nobody
             /\ queued' = queued \cup {u}
             /\ UNCHANGED chan
          \/ /\ d # Nobody
             /\ chan' = TrySend(d, "Msg")
             /\ UNCHANGED queued
       /\ UNCHANGED <<wroute, sock, push, texts>>

WsNext ==
    \/ \E c \in Sockets :
          \/ \E u \in WsUsers : Welcome(c, u) \/ TextSignal(c, u) \/ TextMsg(c, u)
          \/ Drain(c) \/ Written(c) \/ InboundEnd(c) \/ CloseSent(c) \/ BrowserStalls(c)
          \/ TextRefused(c) \/ TextAnswered(c) \/ TextSync(c)
          \/ JobSend(c) \/ JobReply(c)
    \/ \E p \in Pushers : PushSend(p) \/ \E u \in WsUsers : PushEvent(p, u)
    \/ \E u \in WsUsers : GroupCopy(u)

\* A write, the last one included, that nobody at the other end makes room for.
Hangs(c) == sock[c].deaf /\ sock[c].at \in {"write", "closing"}

\* A runnable task runs: tokio polls a select whose channel has something, and a
\* sender that has room and keeps it (it serves senders in their order, which is
\* more); a write comes back while the browser takes bytes.  What browsers send is
\* theirs.
WsFairness ==
    /\ \A c \in Sockets :
          /\ WF_wsVars(Drain(c)) /\ WF_wsVars(~Hangs(c) /\ (Written(c) \/ CloseSent(c)))
          /\ WF_wsVars(JobReply(c)) /\ WF_wsVars(JobSend(c))
    /\ \A p \in Pushers : WF_wsVars(PushSend(p))

WsSpec == WsInit /\ [][WsNext]_wsVars /\ WsFairness

-----------------------------------------------------------------------------
\* A user's route always names a connection of that user whose task is in its
\* loop, through refusals, dead sockets and logins that race with the end of
\* the old connection; no second connection of the user is accepted meanwhile.
RouteServes ==
    \A u \in WsUsers, c \in Sockets :
       /\ wroute[u] = c => sock[c].user = u /\ InLoop(c)
       /\ sock[c].accepted /\ sock[c].user = u /\ InLoop(c) => wroute[u] = c

\* The connection whose channel a busy task waits for.
WaitsOn(c) == IF sock[c].job.kind = "reply" THEN c ELSE sock[c].job.to
Blocked(c) == sock[c].at = "busy" /\ Full(WaitsOn(c))

\* Tasks that wait for room in each other's (or their own) channels, or in the
\* channel of one that hangs in a write.
Wedged(c) ==
    \E S \in SUBSET Sockets :
       c \in S /\ \A d \in S : Hangs(d) \/ (Blocked(d) /\ WaitsOn(d) \in S)

\* A dispatch comes back to the select, so that its connection is drained and its
\* end noticed, unless it ends up caught for good in, or behind, a ring of full
\* channels, or behind the full channel of a task that hangs in a write to a
\* browser that takes no byte.  A receiver that has left, or is only slow, never
\* holds a sender for ever.
BusyReturns ==
    \A c \in Sockets : <>[](sock[c].at = "busy") => <>[]Wedged(c)

=============================================================================
