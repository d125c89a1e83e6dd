------------------------------- MODULE Gateway -------------------------------
(***************************************************************************)
(* The life of one connection (im-transport: gateway.rs, connection.rs,    *)
(* shutdown.rs): the read loop, the writer that owns the write half, the   *)
(* heartbeat of a client, the idle timeout and the shutdown, between a     *)
(* peer on the socket and a business task that holds a handle.             *)
(*                                                                         *)
(* A frame that goes out is the number under which the outbound channel    *)
(* accepted it.  What comes in is a sequence of pieces: a piece of a frame *)
(* ("half"), the bytes that complete one ("ping", "msg") or bytes that are *)
(* no protocol ("bad"); one read takes any number of them.                 *)
(***************************************************************************)
EXTENDS Naturals, Sequences

CONSTANTS OutboundFrames,   \* OUTBOUND_CHANNEL_CAPACITY, 64 in the code
          InboundFrames,    \* capacity of the inbound channel of the caller
          MaxPieces,        \* bound: pieces the peer sends
          MaxFramesOut      \* bound: frames after which nothing new is sent unasked

ASSUME GatewayAssumption == {OutboundFrames, InboundFrames} \subseteq Nat \ {0}

VARIABLES role,      \* HeartbeatPolicy: "server" or "client"
          peer,      \* [open, deaf |-> BOOLEAN, sent |-> pieces so far]
          wire,      \* pieces in the socket
          rd,        \* read loop: [at, pending |-> decoded frames not yet handed on]
          out, accepted,   \* outbound channel, and how many frames it ever took
          wr,        \* writer: [at, frame, failed]
          written,   \* number of the last frame on the wire
          hb,        \* heartbeat: "none", "sleep", "send", "done"
          inb,       \* frames in the inbound channel
          biz,       \* business task: "idle", "send", "gone"
          life,      \* gateway_lifecycle: "run", "joinWriter", "joinHeartbeat", "returned"
          stop       \* [shut, done |-> the two signals, early |-> accepted when done fired]

gatewayVars == <<role, peer, wire, rd, out, accepted, wr, written, hb, inb, biz, life,
                 stop>>

Pieces == {"half", "ping", "msg", "bad"}

HeartbeatPolicy == {"server", "client"}

\* A new connection has nothing decoded; split in two, the read half keeps what
\* was decoded before.
with_max_frame_len == [pending |-> <<>>]
into_split(conn) ==
    [read |-> [at |-> "select", pending |-> conn.pending],
     write |-> [at |-> "select", frame |-> 0, failed |-> FALSE]]

\* spawn_gateway: an empty outbound channel, one lifecycle task, and a handle
\* for the caller before anything has come in.
GatewayInit ==
    /\ role \in HeartbeatPolicy
    /\ peer = [open |-> TRUE, deaf |-> FALSE, sent |-> 0]
    /\ wire = <<>>
    /\ rd = into_split(with_max_frame_len).read
    /\ out = <<>> /\ accepted = 0
    /\ wr = into_split(with_max_frame_len).write
    /\ written = 0
    /\ hb = IF role = "client" THEN "sleep" ELSE "none"
    /\ inb = 0
    /\ biz = "idle"
    /\ life = "run"
    /\ stop = [shut |-> FALSE, done |-> FALSE, early |-> 0]

-----------------------------------------------------------------------------
\* The outbound channel, as ConnectionHandle uses it.
Closed == wr.at = "done"

\* handle.send returned Ok: there was room and the receiver was there.
Accepts ==
    /\ ~Closed /\ Len(out) < OutboundFrames
    /\ accepted' = accepted + 1
    /\ out' = Append(out, accepted + 1)

\* ... and it waits while the channel is full; a closed channel refuses.
Refuses == Closed /\ UNCHANGED <<out, accepted>>

-----------------------------------------------------------------------------
\* Mutant of ReadLoopEnds: the handle is dropped but no signal fires.
ReadLoopEnds_NoSignal ==
    /\ rd' = [rd EXCEPT !.at = "done"]
    /\ stop' = [stop EXCEPT !.early = accepted]
    /\ life' = "joinWriter"

\* read_loop returns, for whatever reason: the lifecycle fires the inner signal,
\* drops its handle and waits for the writer.
ReadLoopEnds ==
    /\ rd' = [rd EXCEPT !.at = "done"]
    /\ stop' = [stop EXCEPT !.done = TRUE, !.early = accepted]
    /\ life' = "joinWriter"

Reading == rd.at = "select" /\ rd.pending = <<>>

Decoded(chunk) == SelectSeq(chunk, LAMBDA p : p # "half")

\* read_frame with nothing pending: one read of k pieces.  A piece that is no
\* protocol ends the connection, and the frames of the same read go with it.
ReadChunk(k) ==
    LET chunk == SubSeq(wire, 1, k)
    IN /\ Reading /\ k \in 1..Len(wire)
       /\ wire' = SubSeq(wire, k + 1, Len(wire))
       /\ IF \E i \in 1..k : chunk[i] = "bad"
          THEN ReadLoopEnds
          ELSE /\ rd' = [rd EXCEPT !.pending = Decoded(chunk)]
               /\ UNCHANGED <<stop, life>>
       /\ UNCHANGED <<role, peer, out, accepted, wr, written, hb, inb, biz>>

\* The read returns 0 or an error.
ReadEnd ==
    /\ Reading /\ wire = <<>> /\ ~peer.open
    /\ ReadLoopEnds
    /\ UNCHANGED <<role, peer, wire, out, accepted, wr, written, hb, inb, biz>>

\* idle_timeout has passed since read_frame began (pieces that do not complete
\* a frame do not restart it) and there is nothing to read.
ReadTimeout ==
    /\ Reading /\ wire = <<>>
    /\ ReadLoopEnds
    /\ UNCHANGED <<role, peer, wire, out, accepted, wr, written, hb, inb, biz>>

\* The other branch of the select.
ReadShutdown ==
    /\ rd.at = "select" /\ stop.shut
    /\ ReadLoopEnds
    /\ UNCHANGED <<role, peer, wire, out, accepted, wr, written, hb, inb, biz>>

\* A pending frame is delivered at once; a server answers a Ping itself.
ReadPending ==
    /\ rd.at = "select" /\ rd.pending # <<>>
    /\ rd' = [rd EXCEPT !.at = IF Head(rd.pending) = "ping" /\ role = "server"
                               THEN "pong" ELSE "deliver",
                        !.pending = Tail(@)]
    /\ UNCHANGED <<role, peer, wire, out, accepted, wr, written, hb, inb, biz, life, stop>>

\* Both awaits are inside the select's handler: no signal and no timer there.
ReaderPongs ==
    /\ rd.at = "pong"
    /\ \/ Accepts /\ rd' = [rd EXCEPT !.at = "select"] /\ UNCHANGED <<stop, life>>
       \/ Refuses /\ ReadLoopEnds
    /\ UNCHANGED <<role, peer, wire, wr, written, hb, inb, biz>>

ReaderDelivers ==
    /\ rd.at = "deliver"
    /\ \/ /\ biz # "gone" /\ inb < InboundFrames
          /\ inb' = inb + 1
          /\ rd' = [rd EXCEPT !.at = "select"]
          /\ UNCHANGED <<stop, life>>
       \/ biz = "gone" /\ ReadLoopEnds /\ UNCHANGED inb
    /\ UNCHANGED <<role, peer, wire, out, accepted, wr, written, hb, biz>>

-----------------------------------------------------------------------------
WriterTakes ==
    /\ wr.at = "select" /\ out # <<>>
    /\ wr' = [wr EXCEPT !.at = "write", !.frame = Head(out)]
    /\ out' = Tail(out)
    /\ UNCHANGED <<role, peer, wire, rd, accepted, written, hb, inb, biz, life, stop>>

\* Mutant of WriterStops: told to stop, the writer leaves its queue behind.
WriterStops_NoDrain ==
    /\ wr.at = "select" /\ stop.done
    /\ wr' = [wr EXCEPT !.at = "drained"]
    /\ UNCHANGED <<role, peer, wire, rd, out, accepted, written, hb, inb, biz, life, stop>>

WriterStops ==
    /\ wr.at = "select" /\ stop.done
    /\ wr' = [wr EXCEPT !.at = "drain"]
    /\ UNCHANGED <<role, peer, wire, rd, out, accepted, written, hb, inb, biz, life, stop>>

WriterDrains ==
    /\ wr.at = "drain"
    /\ IF out = <<>>
       THEN wr' = [wr EXCEPT !.at = "drained"] /\ UNCHANGED out
       ELSE wr' = [wr EXCEPT !.at = "drainWrite", !.frame = Head(out)] /\ out' = Tail(out)
    /\ UNCHANGED <<role, peer, wire, rd, accepted, written, hb, inb, biz, life, stop>>

\* The receiver is dropped; what slipped in after the last try_recv is lost.
WriterEnds ==
    /\ wr.at = "drained"
    /\ wr' = [wr EXCEPT !.at = "done"]
    /\ out' = <<>>
    /\ UNCHANGED <<role, peer, wire, rd, accepted, written, hb, inb, biz, life, stop>>

Writing == wr.at \in {"write", "drainWrite"}

\* write_frame comes back once the socket took the bytes, or fails.  Nothing
\* limits the time it may take.
WriterWrites ==
    /\ Writing
    /\ \/ /\ written' = wr.frame
          /\ wr' = [wr EXCEPT !.at = IF @ = "write" THEN "select" ELSE "drain"]
          /\ UNCHANGED <<out>>
       \/ /\ wr' = [wr EXCEPT !.at = "done", !.failed = TRUE]
          /\ out' = <<>>
          /\ UNCHANGED written
    /\ UNCHANGED <<role, peer, wire, rd, accepted, hb, inb, biz, life, stop>>

-----------------------------------------------------------------------------
HeartbeatWakes ==
    /\ hb = "sleep"
    /\ \/ stop.done /\ hb' = "done"
       \/ accepted < MaxFramesOut /\ hb' = "send"
    /\ UNCHANGED <<role, peer, wire, rd, out, accepted, wr, written, inb, biz, life, stop>>

HeartbeatSends ==
    /\ hb = "send"
    /\ \/ Accepts /\ hb' = "sleep"
       \/ Refuses /\ hb' = "done"
    /\ UNCHANGED <<role, peer, wire, rd, wr, written, inb, biz, life, stop>>

JoinWriter ==
    /\ life = "joinWriter" /\ wr.at = "done"
    /\ life' = "joinHeartbeat"
    /\ UNCHANGED <<role, peer, wire, rd, out, accepted, wr, written, hb, inb, biz, stop>>

JoinHeartbeat ==
    /\ life = "joinHeartbeat" /\ hb \in {"none", "done"}
    /\ life' = "returned"
    /\ UNCHANGED <<role, peer, wire, rd, out, accepted, wr, written, hb, inb, biz, stop>>

-----------------------------------------------------------------------------
\* The business task (serve_connection, the client's loop): it takes an event,
\* may answer through the handle, and sends on its own account too.
BusinessTakes ==
    /\ biz = "idle" /\ inb > 0
    /\ inb' = inb - 1
    /\ biz' \in {"idle", "send"}
    /\ UNCHANGED <<role, peer, wire, rd, out, accepted, wr, written, hb, life, stop>>

BusinessForwards ==
    /\ biz = "idle" /\ accepted < MaxFramesOut
    /\ biz' = "send"
    /\ UNCHANGED <<role, peer, wire, rd, out, accepted, wr, written, hb, inb, life, stop>>

BusinessSends ==
    /\ biz = "send"
    /\ \/ Accepts /\ biz' = "idle" /\ UNCHANGED inb
       \/ Refuses /\ biz' = "gone" /\ inb' = 0
    /\ UNCHANGED <<role, peer, wire, rd, wr, written, hb, life, stop>>

\* Its receiver is dropped.
BusinessEnds ==
    /\ biz = "idle"
    /\ biz' = "gone"
    /\ inb' = 0
    /\ UNCHANGED <<role, peer, wire, rd, out, accepted, wr, written, hb, life, stop>>

\* ShutdownTx::trigger, or its last holder dropped.
Trigger ==
    /\ ~stop.shut
    /\ stop' = [stop EXCEPT !.shut = TRUE]
    /\ UNCHANGED <<role, peer, wire, rd, out, accepted, wr, written, hb, inb, biz, life>>

\* What comes once nobody reads is dropped with the socket and left out.
PeerSends(p) ==
    /\ peer.open /\ peer.sent < MaxPieces /\ rd.at # "done"
    /\ peer' = [peer EXCEPT !.sent = @ + 1]
    /\ wire' = Append(wire, p)
    /\ UNCHANGED <<role, rd, out, accepted, wr, written, hb, inb, biz, life, stop>>

\* From now on the peer takes no byte: what still fits the socket goes out, then
\* a write waits for as long as the peer stays.
PeerStalls ==
    /\ peer.open /\ ~peer.deaf
    /\ peer' = [peer EXCEPT !.deaf = TRUE]
    /\ UNCHANGED <<role, wire, rd, out, accepted, wr, written, hb, inb, biz, life, stop>>

PeerLeaves ==
    /\ peer.open
    /\ peer' = [peer EXCEPT !.open = FALSE]
    /\ UNCHANGED <<role, wire, rd, out, accepted, wr, written, hb, inb, biz, life, stop>>

ReadLoop ==
    \/ \E k \in 1..MaxPieces : ReadChunk(k)
    \/ ReadEnd \/ ReadTimeout \/ ReadShutdown \/ ReadPending \/ ReaderPongs \/ ReaderDelivers
Writer == WriterTakes \/ WriterStops \/ WriterDrains \/ WriterEnds \/ WriterWrites
Heartbeat == HeartbeatWakes \/ HeartbeatSends
Join == JoinWriter \/ JoinHeartbeat
Business == BusinessTakes \/ BusinessForwards \/ BusinessSends

GatewayNext ==
    \/ ReadLoop \/ Writer \/ Heartbeat \/ Join \/ Business
    \/ BusinessEnds \/ Trigger \/ PeerLeaves \/ PeerStalls
    \/ \E p \in Pieces : PeerSends(p)

\* A write that nobody at the other end makes room for.
WriteHangs == Writing /\ peer.open /\ peer.deaf

\* What of the writer is sure to go on.
WriterRuns == ~WriteHangs /\ Writer

\* Runnable tasks run, the interval timer fires, and a write comes back while
\* the peer takes bytes or once the socket is broken.
GatewayFairness ==
    /\ WF_gatewayVars(ReadLoop) /\ WF_gatewayVars(WriterRuns) /\ WF_gatewayVars(Heartbeat)
    /\ WF_gatewayVars(Join) /\ WF_gatewayVars(Business)

GatewaySpec == GatewayInit /\ [][GatewayNext]_gatewayVars /\ GatewayFairness

-----------------------------------------------------------------------------
\* A frame the outbound channel accepted before the connection began to close
\* is on the wire when the gateway returns, unless a write failed; and when it
\* returns none of its tasks is left running.
EndIsClean ==
    life = "returned" =>
       /\ wr.failed \/ written >= stop.early
       /\ wr.at = "done" /\ hb \in {"none", "done"} /\ rd.at = "done"

\* A connection that is shut down, or whose peer left, is over in the end,
\* whatever its channels hold: the read loop is not stuck for ever between a full
\* inbound channel and a business task that waits for the writer.  Only a peer
\* that stays and takes no byte holds it, in a write.
GatewayReturns ==
    <>[](stop.shut \/ ~peer.open) => <>[](life = "returned" \/ WriteHangs)

=============================================================================
