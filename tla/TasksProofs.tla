---------------------------- MODULE TasksProofs -----------------------------
(***************************************************************************)
(* Proofs about the tasks and threads that wait for each other, the parts  *)
(* of MCTasks: the gateway of a connection, for channels of any capacity,  *)
(* a peer that sends any number of pieces and any number of frames that go *)
(* out; the routing of the WebSocket endpoint, for any number of users,    *)
(* sockets and handlers and any capacity; who may use the bridge of the    *)
(* SDK, for any capacities and any number of calls, frames and outages;    *)
(* and the id generator, for any number of instances, callers and field    *)
(* widths.                                                                 *)
(***************************************************************************)
EXTENDS Gateway, WsLoop, Sdk, Snowflake, TLAPS

-----------------------------------------------------------------------------
\* The gateway of a connection.

(***************************************************************************)
(* The part of the types the argument needs.                               *)
(***************************************************************************)
GatewayTypes ==
  /\ DOMAIN rd = {"at", "pending"}
  /\ rd.at \in {"select", "pong", "deliver", "done"}
  /\ wr \in [at : {"select", "write", "drain", "drainWrite", "drained", "done"},
             frame : Nat, failed : BOOLEAN]
  /\ stop \in [shut : BOOLEAN, done : BOOLEAN, early : Nat]
  /\ out \in Seq(Nat)
  /\ accepted \in Nat
  /\ written \in Nat
  /\ hb \in {"none", "sleep", "send", "done"}
  /\ life \in {"run", "joinWriter", "joinHeartbeat", "returned"}

\* The outbound channel holds the last frames it took, in the order it took them.
InOrder == \A i \in 1..Len(out) : out[i] + Len(out) = accepted + i

\* Between the wire, the writer and the channel no frame is missing.
NoGap ==
  /\ wr.at \in {"select", "drain", "drained"} => written + Len(out) = accepted
  /\ wr.at \in {"write", "drainWrite"} =>
       wr.frame = written + 1 /\ wr.frame + Len(out) = accepted
  /\ wr.at = "done" => out = << >>

\* The writer drains only when the signal has fired, and it ends with all that
\* was accepted until then on the wire, or because a write failed.
DrainsLast ==
  /\ stop.early <= accepted
  /\ wr.at \in {"drain", "drainWrite", "drained"} => stop.done
  /\ wr.at = "drained" => written >= stop.early
  /\ wr.at = "done" => wr.failed \/ (stop.done /\ written >= stop.early)

\* The order in which the tasks end.
EndsInOrder ==
  /\ life = "run" <=> rd.at # "done"
  /\ life = "run" <=> ~stop.done
  /\ life \in {"joinHeartbeat", "returned"} => wr.at = "done"
  /\ life = "returned" => hb \in {"none", "done"}

GatewayInv == GatewayTypes /\ InOrder /\ NoGap /\ DrainsLast /\ EndsInOrder

LEMMA GatewayInvInit == GatewayInit => GatewayInv
<1> SUFFICES ASSUME GatewayInit PROVE GatewayInv
  OBVIOUS
<1>1. GatewayTypes
  BY DEF GatewayInit, GatewayTypes, into_split, with_max_frame_len, HeartbeatPolicy
<1>2. InOrder /\ NoGap /\ DrainsLast /\ EndsInOrder
  BY DEF GatewayInit, InOrder, NoGap, DrainsLast, EndsInOrder, into_split
<1> QED BY <1>1, <1>2 DEF GatewayInv

(***************************************************************************)
(* A frame the channel takes goes to its end, under the next number.       *)
(***************************************************************************)
LEMMA AcceptedInOrder ==
  ASSUME GatewayInv, Accepts, UNCHANGED <<wr, written, stop>>
  PROVE /\ out' \in Seq(Nat) /\ accepted' \in Nat
        /\ InOrder' /\ NoGap' /\ DrainsLast'
<1> USE DEF GatewayInv, GatewayTypes
<1>1. out' \in Seq(Nat) /\ Len(out') = Len(out) + 1 /\ accepted' = accepted + 1
  BY DEF Accepts
<1>2. ASSUME NEW i \in 1..Len(out') PROVE out'[i] + Len(out') = accepted' + i
  <2>1. CASE i = Len(out')
    <3>1. out'[i] = accepted + 1
      BY <1>1, <2>1 DEF Accepts
    <3>2. Len(out) \in Nat /\ accepted \in Nat
      OBVIOUS
    <3>3. Len(out') \in Nat /\ accepted' \in Nat /\ out'[i] = accepted'
      BY <1>1, <3>1, <3>2
    <3> HIDE DEF GatewayInv, GatewayTypes
    <3> QED BY <2>1, <3>3
  <2>2. CASE i # Len(out')
    <3>1. i \in 1..Len(out) /\ out'[i] = out[i]
      BY <1>1, <2>2 DEF Accepts
    <3>2. out[i] + Len(out) = accepted + i /\ out[i] \in Nat
      BY <3>1 DEF InOrder
    <3>3. Len(out) \in Nat /\ accepted \in Nat /\ i \in Nat
      BY <3>1
    <3>4. out[i] + (Len(out) + 1) = (accepted + 1) + i
      <4> HIDE DEF GatewayInv, GatewayTypes
      <4> QED BY <3>2, <3>3
    <3> QED BY <1>1, <3>1, <3>4
  <2> QED BY <2>1, <2>2
<1>3. NoGap'
  <2>1. wr.at # "done" /\ Len(out) \in Nat /\ wr.frame \in Nat
    BY DEF Accepts, Closed
  <2>2. written \in Nat /\ accepted \in Nat /\ NoGap
    OBVIOUS
  <2> HIDE DEF GatewayInv, GatewayTypes
  <2> QED BY <1>1, <2>1, <2>2 DEF NoGap
<1>4. DrainsLast'
  BY <1>1 DEF DrainsLast
<1> QED BY <1>1, <1>2, <1>3, <1>4 DEF InOrder

(***************************************************************************)
(* The frame at the head of the channel is the next one for the wire.      *)
(***************************************************************************)
LEMMA TakenInOrder ==
  ASSUME GatewayInv, out # << >>, out' = Tail(out), accepted' = accepted
  PROVE /\ Head(out) \in Nat /\ Head(out) + Len(out) = accepted + 1
        /\ out' \in Seq(Nat) /\ Len(out') + 1 = Len(out)
        /\ InOrder'
<1> USE DEF GatewayInv, GatewayTypes
<1>1. out' \in Seq(Nat) /\ Len(out') + 1 = Len(out) /\ Len(out) \in Nat \ {0}
  OBVIOUS
<1>2. Head(out) = out[1] /\ out[1] \in Nat
  BY <1>1
<1>3. out[1] + Len(out) = accepted + 1
  BY <1>1 DEF InOrder
<1>4. ASSUME NEW i \in 1..Len(out') PROVE out'[i] + Len(out') = accepted' + i
  <2>1. i \in Nat /\ i + 1 \in 1..Len(out)
    BY <1>1
  <2>2. out'[i] = out[i + 1]
    BY <1>1, <2>1
  <2>3. out[i + 1] + Len(out) = accepted + (i + 1) /\ out[i + 1] \in Nat
    BY <2>1 DEF InOrder
  <2>4. accepted \in Nat
    OBVIOUS
  <2>5. Len(out) \in Nat /\ Len(out') \in Nat
    BY <1>1
  <2>6. out[i + 1] + Len(out') = accepted + i
    <3> DEFINE f == out[i + 1] n == Len(out) m == Len(out')
    <3>1. f \in Nat /\ n \in Nat /\ m \in Nat /\ f + n = accepted + (i + 1) /\ m + 1 = n
      BY <1>1, <2>3, <2>5
    <3> HIDE DEF GatewayInv, GatewayTypes, f, n, m
    <3>2. f + m = accepted + i
      BY <2>1, <2>4, <3>1
    <3> QED BY <3>2 DEF f, m
  <2> QED BY <2>2, <2>6
<1> QED BY <1>1, <1>2, <1>3, <1>4 DEF InOrder

(***************************************************************************)
(* When the read loop returns, the writer is not draining yet: all that    *)
(* was accepted until then is still to be written, or a write has failed.  *)
(***************************************************************************)
LEMMA ReadingEnds ==
  ASSUME GatewayInv, rd.at # "done", ReadLoopEnds,
         UNCHANGED <<out, accepted, wr, written, hb>>
  PROVE GatewayInv'
<1> USE DEF GatewayInv
<1>1. GatewayTypes'
  BY DEF GatewayTypes, ReadLoopEnds
<1>2. stop'.done /\ stop'.early = accepted /\ rd'.at = "done" /\ life' = "joinWriter"
  BY DEF GatewayTypes, ReadLoopEnds
<1>3. ~stop.done
  BY DEF EndsInOrder
<1>4. InOrder' /\ NoGap'
  BY DEF InOrder, NoGap
<1>5. wr.at \notin {"drain", "drainWrite", "drained"} /\ (wr.at = "done" => wr.failed)
  BY <1>3 DEF DrainsLast
<1>6. DrainsLast'
  BY <1>2, <1>5 DEF DrainsLast, GatewayTypes
<1>7. EndsInOrder'
  BY <1>2 DEF EndsInOrder
<1> QED BY <1>1, <1>4, <1>6, <1>7

(***************************************************************************)
(* A step of the read loop that does not end it touches the position of    *)
(* the reader only.                                                        *)
(***************************************************************************)
LEMMA ReadingGoesOn ==
  ASSUME GatewayInv, rd.at # "done", DOMAIN rd' = {"at", "pending"},
         rd'.at \in {"select", "pong", "deliver"},
         UNCHANGED <<out, accepted, wr, written, hb, stop, life>>
  PROVE GatewayInv'
BY DEF GatewayInv, GatewayTypes, InOrder, NoGap, DrainsLast, EndsInOrder

LEMMA ReadLoopKeeps ==
  ASSUME GatewayInv, ReadLoop PROVE GatewayInv'
<1> USE DEF GatewayInv
<1>1. ASSUME NEW k \in 1..MaxPieces, ReadChunk(k) PROVE GatewayInv'
  <2>1. rd.at = "select"
    BY <1>1 DEF ReadChunk, Reading
  <2>2. CASE ReadLoopEnds
    BY <1>1, <2>1, <2>2, ReadingEnds DEF ReadChunk
  <2>3. CASE ~ReadLoopEnds
    <3>1. UNCHANGED <<stop, life>> /\ rd' = [rd EXCEPT !.pending = Decoded(SubSeq(wire, 1, k))]
      BY <1>1, <2>3 DEF ReadChunk
    <3>2. DOMAIN rd' = {"at", "pending"} /\ rd'.at = "select"
      BY <2>1, <3>1 DEF GatewayTypes
    <3> QED BY <1>1, <2>1, <3>1, <3>2, ReadingGoesOn DEF ReadChunk
  <2> QED BY <2>2, <2>3
<1>2. CASE ReadEnd
  BY <1>2, ReadingEnds DEF ReadEnd, Reading
<1>3. CASE ReadTimeout
  BY <1>3, ReadingEnds DEF ReadTimeout, Reading
<1>4. CASE ReadShutdown
  BY <1>4, ReadingEnds DEF ReadShutdown
<1>5. CASE ReadPending
  <2>1. DOMAIN rd' = {"at", "pending"} /\ rd'.at \in {"pong", "deliver"}
    BY <1>5 DEF ReadPending, GatewayTypes
  <2> QED BY <1>5, <2>1, ReadingGoesOn DEF ReadPending
<1>6. CASE ReaderPongs
  <2>1. CASE Refuses /\ ReadLoopEnds
    BY <1>6, <2>1, ReadingEnds DEF ReaderPongs, Refuses
  <2>2. CASE Accepts /\ rd' = [rd EXCEPT !.at = "select"] /\ UNCHANGED <<stop, life>>
    <3>1. DOMAIN rd' = {"at", "pending"} /\ rd'.at = "select"
      BY <2>2 DEF GatewayTypes
    <3>2. UNCHANGED <<wr, written, hb, stop, life>> /\ rd.at = "pong"
      BY <1>6, <2>2 DEF ReaderPongs
    <3>3. /\ out' \in Seq(Nat) /\ accepted' \in Nat
          /\ InOrder' /\ NoGap' /\ DrainsLast'
      BY <2>2, <3>2, AcceptedInOrder
    <3>4. GatewayTypes' /\ EndsInOrder'
      BY <3>1, <3>2, <3>3 DEF GatewayTypes, EndsInOrder
    <3> QED BY <3>3, <3>4
  <2> QED BY <1>6, <2>1, <2>2 DEF ReaderPongs
<1>7. CASE ReaderDelivers
  <2>1. CASE ReadLoopEnds
    BY <1>7, <2>1, ReadingEnds DEF ReaderDelivers
  <2>2. CASE rd' = [rd EXCEPT !.at = "select"] /\ UNCHANGED <<stop, life>>
    <3>1. DOMAIN rd' = {"at", "pending"} /\ rd'.at = "select"
      BY <2>2 DEF GatewayTypes
    <3> QED BY <1>7, <2>2, <3>1, ReadingGoesOn DEF ReaderDelivers
  <2> QED BY <1>7, <2>1, <2>2 DEF ReaderDelivers
<1> QED BY <1>1, <1>2, <1>3, <1>4, <1>5, <1>6, <1>7 DEF ReadLoop

LEMMA WriterKeeps ==
  ASSUME GatewayInv, Writer PROVE GatewayInv'
<1> USE DEF GatewayInv
<1>0. UNCHANGED <<rd, accepted, hb, life, stop>>
  BY DEF Writer, WriterTakes, WriterStops, WriterDrains, WriterEnds, WriterWrites
<1>1. CASE WriterTakes
  <2>1. out # << >> /\ out' = Tail(out) /\ wr.at = "select" /\ written' = written
    BY <1>1 DEF WriterTakes
  <2>2. /\ Head(out) \in Nat /\ Head(out) + Len(out) = accepted + 1
        /\ out' \in Seq(Nat) /\ Len(out') + 1 = Len(out)
        /\ InOrder'
    BY <1>0, <2>1, TakenInOrder
  <2>3. wr' = [wr EXCEPT !.at = "write", !.frame = Head(out)]
    BY <1>1 DEF WriterTakes
  <2>4. GatewayTypes'
    BY <1>0, <2>1, <2>2, <2>3 DEF GatewayTypes
  <2>5. wr'.at = "write" /\ wr'.frame = Head(out)
    BY <2>3 DEF GatewayTypes
  <2>6. NoGap'
    <3>1. written + Len(out) = accepted /\ Len(out) \in Nat /\ Len(out') \in Nat
          /\ written \in Nat /\ accepted \in Nat
      BY <2>1, <2>2 DEF NoGap, GatewayTypes
    <3>2. Head(out) = written + 1 /\ Head(out) + Len(out') = accepted
      BY <2>2, <3>1
    <3> QED BY <1>0, <2>1, <2>5, <3>2 DEF NoGap
  <2>7. DrainsLast' /\ EndsInOrder'
    BY <1>0, <2>1, <2>5 DEF DrainsLast, EndsInOrder
  <2> QED BY <2>2, <2>4, <2>6, <2>7
<1>2. CASE WriterStops
  <2>1. wr' = [wr EXCEPT !.at = "drain"] /\ wr.at = "select" /\ stop.done
    BY <1>2 DEF WriterStops
  <2>2. UNCHANGED <<out, written>>
    BY <1>2 DEF WriterStops
  <2>3. wr'.at = "drain" /\ GatewayTypes'
    BY <1>0, <2>1, <2>2 DEF GatewayTypes
  <2>4. InOrder' /\ NoGap' /\ DrainsLast' /\ EndsInOrder'
    BY <1>0, <2>1, <2>2, <2>3 DEF InOrder, NoGap, DrainsLast, EndsInOrder
  <2> QED BY <2>3, <2>4
<1>3. CASE WriterDrains
  <2>1. wr.at = "drain" /\ written' = written
    BY <1>3 DEF WriterDrains
  <2>2. CASE out = << >>
    <3>1. wr' = [wr EXCEPT !.at = "drained"] /\ out' = out
      BY <1>3, <2>2 DEF WriterDrains
    <3>2. wr'.at = "drained" /\ GatewayTypes'
      BY <1>0, <2>1, <3>1 DEF GatewayTypes
    <3>3. written = accepted
      BY <2>1, <2>2 DEF NoGap, GatewayTypes
    <3>4. DrainsLast'
      BY <1>0, <2>1, <3>2, <3>3 DEF DrainsLast, GatewayTypes
    <3>5. InOrder' /\ NoGap' /\ EndsInOrder'
      BY <1>0, <2>1, <3>1, <3>2 DEF InOrder, NoGap, EndsInOrder
    <3> QED BY <3>2, <3>4, <3>5
  <2>3. CASE out # << >>
    <3>1. wr' = [wr EXCEPT !.at = "drainWrite", !.frame = Head(out)] /\ out' = Tail(out)
      BY <1>3, <2>3 DEF WriterDrains
    <3>2. /\ Head(out) \in Nat /\ Head(out) + Len(out) = accepted + 1
          /\ out' \in Seq(Nat) /\ Len(out') + 1 = Len(out)
          /\ InOrder'
      BY <1>0, <2>3, <3>1, TakenInOrder
    <3>3. wr'.at = "drainWrite" /\ wr'.frame = Head(out) /\ GatewayTypes'
      BY <1>0, <2>1, <3>1, <3>2 DEF GatewayTypes
    <3>4. NoGap'
      <4>1. written + Len(out) = accepted /\ Len(out) \in Nat /\ Len(out') \in Nat
            /\ written \in Nat /\ accepted \in Nat
        BY <2>1, <3>2 DEF NoGap, GatewayTypes
      <4>2. Head(out) = written + 1 /\ Head(out) + Len(out') = accepted
        BY <3>2, <4>1
      <4> QED BY <1>0, <2>1, <3>3, <4>2 DEF NoGap
    <3>5. DrainsLast' /\ EndsInOrder'
      BY <1>0, <2>1, <3>3 DEF DrainsLast, EndsInOrder
    <3> QED BY <3>2, <3>3, <3>4, <3>5
  <2> QED BY <2>2, <2>3
<1>4. CASE WriterEnds
  <2>1. wr' = [wr EXCEPT !.at = "done"] /\ wr.at = "drained"
    BY <1>4 DEF WriterEnds
  <2>2. out' = << >> /\ written' = written
    BY <1>4 DEF WriterEnds
  <2>3. wr'.at = "done" /\ wr'.failed = wr.failed /\ GatewayTypes'
    BY <1>0, <2>1, <2>2 DEF GatewayTypes
  <2>4. InOrder' /\ NoGap' /\ DrainsLast' /\ EndsInOrder'
    BY <1>0, <2>1, <2>2, <2>3 DEF InOrder, NoGap, DrainsLast, EndsInOrder
  <2> QED BY <2>3, <2>4
<1>5. CASE WriterWrites
  <2>1. wr.at \in {"write", "drainWrite"}
    BY <1>5 DEF WriterWrites, Writing
  <2>2. wr.frame = written + 1 /\ wr.frame + Len(out) = accepted /\ wr.frame \in Nat
    BY <2>1 DEF NoGap, GatewayTypes
  <2>3. CASE written' = wr.frame
    <3>1. /\ wr' = [wr EXCEPT !.at = IF @ = "write" THEN "select" ELSE "drain"]
          /\ out' = out
      BY <1>5, <2>2, <2>3 DEF WriterWrites, GatewayTypes
    <3>2. /\ wr'.at = (IF wr.at = "write" THEN "select" ELSE "drain")
          /\ GatewayTypes'
      BY <1>0, <2>1, <2>2, <2>3, <3>1 DEF GatewayTypes
    <3>3. NoGap' /\ InOrder'
      BY <1>0, <2>2, <2>3, <3>1, <3>2 DEF NoGap, InOrder
    <3>4. DrainsLast' /\ EndsInOrder'
      BY <1>0, <2>1, <3>2 DEF DrainsLast, EndsInOrder
    <3> QED BY <3>2, <3>3, <3>4
  <2>4. CASE written' # wr.frame
    <3>1. wr' = [wr EXCEPT !.at = "done", !.failed = TRUE] /\ out' = << >> /\ written' = written
      BY <1>5, <2>4 DEF WriterWrites
    <3>2. wr'.at = "done" /\ wr'.failed = TRUE
      BY <3>1 DEF GatewayTypes
    <3>4. GatewayTypes'
      <4>1. wr' \in [at : {"select", "write", "drain", "drainWrite", "drained", "done"},
                     frame : Nat, failed : BOOLEAN]
        BY <3>1 DEF GatewayTypes
      <4> QED BY <1>0, <3>1, <4>1 DEF GatewayTypes
    <3>3. InOrder' /\ NoGap' /\ DrainsLast' /\ EndsInOrder'
      BY <1>0, <3>1, <3>2 DEF InOrder, NoGap, DrainsLast, EndsInOrder
    <3> QED BY <3>3, <3>4
  <2> QED BY <2>3, <2>4
<1> QED BY <1>1, <1>2, <1>3, <1>4, <1>5 DEF Writer

(***************************************************************************)
(* A sender that takes no part in the end of the connection: the business  *)
(* task, or the heartbeat.                                                 *)
(***************************************************************************)
LEMMA SenderKeeps ==
  ASSUME GatewayInv, Accepts \/ Refuses, UNCHANGED <<rd, wr, written, stop, life>>,
         hb' = hb \/ (hb = "send" /\ hb' \in {"sleep", "done"})
  PROVE GatewayInv'
<1> USE DEF GatewayInv
<1>1. CASE Accepts
  <2>1. /\ out' \in Seq(Nat) /\ accepted' \in Nat
        /\ InOrder' /\ NoGap' /\ DrainsLast'
    BY <1>1, AcceptedInOrder
  <2> QED BY <2>1 DEF GatewayTypes, EndsInOrder
<1>2. CASE Refuses
  BY <1>2 DEF Refuses, GatewayTypes, InOrder, NoGap, DrainsLast, EndsInOrder
<1> QED BY <1>1, <1>2

LEMMA OthersKeep ==
  ASSUME GatewayInv,
         \/ Heartbeat \/ Join \/ Business \/ BusinessEnds \/ Trigger \/ PeerLeaves \/ PeerStalls
         \/ \E p \in Pieces : PeerSends(p)
         \/ UNCHANGED gatewayVars
  PROVE GatewayInv'
<1> USE DEF GatewayInv
<1>1. CASE HeartbeatWakes
  BY <1>1 DEF HeartbeatWakes, GatewayTypes, InOrder, NoGap, DrainsLast, EndsInOrder
<1>2. CASE HeartbeatSends
  BY <1>2, SenderKeeps DEF HeartbeatSends
<1>3. CASE JoinWriter \/ JoinHeartbeat
  BY <1>3 DEF JoinWriter, JoinHeartbeat, GatewayTypes, InOrder, NoGap, DrainsLast, EndsInOrder
<1>4. CASE BusinessSends
  BY <1>4, SenderKeeps DEF BusinessSends
<1>5. CASE Trigger
  <2>1. stop' = [stop EXCEPT !.shut = TRUE] /\ UNCHANGED <<rd, out, accepted, wr, written, hb, life>>
    BY <1>5 DEF Trigger
  <2>2. stop'.done = stop.done /\ stop'.early = stop.early /\ GatewayTypes'
    BY <2>1 DEF GatewayTypes
  <2> QED BY <2>1, <2>2 DEF InOrder, NoGap, DrainsLast, EndsInOrder
<1>6. CASE UNCHANGED <<rd, out, accepted, wr, written, hb, life, stop>>
  BY <1>6 DEF GatewayTypes, InOrder, NoGap, DrainsLast, EndsInOrder
<1>7. CASE \/ BusinessTakes \/ BusinessForwards \/ BusinessEnds \/ PeerLeaves
           \/ PeerStalls
           \/ \E p \in Pieces : PeerSends(p)
           \/ UNCHANGED gatewayVars
  BY <1>6, <1>7 DEF BusinessTakes, BusinessForwards, BusinessEnds, PeerLeaves, PeerStalls, PeerSends,
    gatewayVars
<1> QED BY <1>1, <1>2, <1>3, <1>4, <1>5, <1>7 DEF Heartbeat, Join, Business

LEMMA GatewayInvStep ==
  ASSUME GatewayInv, [GatewayNext]_gatewayVars PROVE GatewayInv'
BY ReadLoopKeeps, WriterKeeps, OthersKeep DEF GatewayNext

LEMMA EndIsCleanHolds ==
  ASSUME GatewayInv PROVE EndIsClean
<1>1. ASSUME life = "returned"
      PROVE /\ wr.failed \/ written >= stop.early
            /\ wr.at = "done" /\ hb \in {"none", "done"} /\ rd.at = "done"
  BY <1>1 DEF GatewayInv, EndsInOrder, DrainsLast
<1> QED BY <1>1 DEF EndIsClean

(***************************************************************************)
(* When gateway_lifecycle returns, all that the channel accepted before    *)
(* the connection began to close is on the wire unless a write failed, and *)
(* the read loop, the writer and the heartbeat have all ended: whatever    *)
(* the capacities, and in whatever order the three saw the signals.        *)
(***************************************************************************)
THEOREM EndsClean == GatewaySpec => []EndIsClean
<1>1. GatewayInit => GatewayInv
  BY GatewayInvInit
<1>2. GatewayInv /\ [GatewayNext]_gatewayVars => GatewayInv'
  BY GatewayInvStep
<1>3. GatewayInv => EndIsClean
  BY EndIsCleanHolds
<1> QED BY <1>1, <1>2, <1>3, PTL DEF GatewaySpec

-----------------------------------------------------------------------------
\* The WebSocket endpoint.

Jobs == [kind : {"none", "reply", "event", "msg"}, to : Sockets \cup {Nobody},
         cmd : {"none", "HandshakeAck", "Msg", "MsgAck", "SyncResp"}]
Serving == {"select", "busy", "write"}
Records == [at : {"free", "closing", "gone"} \cup Serving, user : WsUsers \cup {Nobody},
            accepted : BOOLEAN, job : Jobs, deaf : BOOLEAN]

\* The types of the two variables the routing rests on; a job that writes to
\* another connection names one.
WsTypes ==
  /\ wroute \in [WsUsers -> Sockets \cup {Nobody}]
  /\ sock \in [Sockets -> Records]

\* The inductive invariant: the property needs nothing but the types.
WsInv == WsTypes /\ RouteServes

-----------------------------------------------------------------------------
\* What the routing sees of a connection is what it was.
SameForRoutes(d) ==
  /\ sock'[d].user = sock[d].user
  /\ sock'[d].accepted = sock[d].accepted
  /\ sock'[d].at \in Serving <=> sock[d].at \in Serving

\* The property carries over to such a step.
LEMMA RoutesCarryOver ==
  ASSUME RouteServes, wroute' = wroute, \A d \in Sockets : SameForRoutes(d)
  PROVE  RouteServes'
BY DEF RouteServes, InLoop, SameForRoutes, Serving

\* A dispatch that begins, goes on or ends leaves its connection in the loop,
\* and the table alone.
LEMMA DispatchKeepsRoutes ==
  ASSUME WsInv, NEW c \in Sockets, sock[c].at \in Serving,
         NEW a \in Serving, NEW j \in Jobs,
         sock' = [sock EXCEPT ![c].at = a, ![c].job = j], wroute' = wroute
  PROVE  WsInv'
<1>1. WsTypes'
  <2>1. sock \in [Sockets -> Records]
    BY DEF WsInv, WsTypes
  <2>2. sock[c] \in Records
    BY <2>1
  <2>3. [[sock[c] EXCEPT !.at = a] EXCEPT !.job = j] \in Records
    BY <2>2 DEF Records
  <2>4. sock' = [sock EXCEPT ![c] = [[sock[c] EXCEPT !.at = a] EXCEPT !.job = j]]
    BY <2>1
  <2>5. sock' \in [Sockets -> Records]
    BY <2>1, <2>3, <2>4
  <2>6. wroute' \in [WsUsers -> Sockets \cup {Nobody}]
    BY DEF WsInv, WsTypes
  <2> QED
    BY <2>5, <2>6, Zenon DEF WsTypes
<1>2. \A d \in Sockets : SameForRoutes(d)
  BY DEF WsInv, WsTypes, Records, Serving, SameForRoutes
<1>3. RouteServes'
  BY <1>2, RoutesCarryOver DEF WsInv
<1> QED
  BY <1>1, <1>3 DEF WsInv

\* Nothing of the routing changes.
LEMMA ElsewhereKeepsRoutes ==
  ASSUME WsInv, UNCHANGED <<wroute, sock>>
  PROVE  WsInv'
BY DEF WsInv, WsTypes, RouteServes, InLoop, Serving

\* Neither does what becomes of a connection beside or after its loop: a stage of
\* the same kind, and whether its browser takes bytes.
LEMMA StageKeepsRoutes ==
  ASSUME WsInv, NEW c \in Sockets,
         NEW a \in {"select", "busy", "write", "closing", "gone"}, NEW f \in BOOLEAN,
         a \in Serving <=> sock[c].at \in Serving,
         sock' = [sock EXCEPT ![c].at = a, ![c].deaf = f], wroute' = wroute
  PROVE  WsInv'
<1>1. sock \in [Sockets -> Records] /\ sock[c] \in Records
  BY DEF WsInv, WsTypes
<1>2. [[sock[c] EXCEPT !.at = a] EXCEPT !.deaf = f] \in Records
  BY <1>1 DEF Records, Serving
<1>3. sock' = [sock EXCEPT ![c] = [[sock[c] EXCEPT !.at = a] EXCEPT !.deaf = f]]
  BY <1>1
<1>4. sock' \in [Sockets -> Records]
  BY <1>1, <1>2, <1>3
<1>5. WsTypes'
  BY <1>4, Zenon DEF WsInv, WsTypes
<1>6. \A d \in Sockets : SameForRoutes(d)
  BY <1>1 DEF Records, SameForRoutes
<1>7. RouteServes'
  BY <1>6, RoutesCarryOver DEF WsInv
<1> QED
  BY <1>5, <1>7 DEF WsInv

\* A connection whose loop ends takes its own route with it and nobody else's,
\* accepted or refused.
LEMMA LeavingKeepsRoutes ==
  ASSUME WsInv, NEW c \in Sockets, sock[c].at \in Serving,
         NEW broken \in BOOLEAN, LoopEnds(c, broken)
  PROVE  WsInv'
<1> DEFINE u == sock[c].user
<1>1. /\ wroute' = IF wroute[u] = c THEN [wroute EXCEPT ![u] = Nobody] ELSE wroute
      /\ sock' = [sock EXCEPT ![c].at = "closing", ![c].deaf = @ /\ ~broken]
  BY DEF LoopEnds, Unregister
<1>2. WsTypes'
  <2> DEFINE f == sock[c].deaf /\ ~broken
  <2>1. sock \in [Sockets -> Records] /\ sock[c] \in Records /\ f \in BOOLEAN
    BY DEF WsInv, WsTypes, Records
  <2>2. sock' = [sock EXCEPT ![c] = [[sock[c] EXCEPT !.at = "closing"] EXCEPT !.deaf = f]]
    BY <1>1, <2>1 DEF Records
  <2> HIDE DEF f
  <2>3. [[sock[c] EXCEPT !.at = "closing"] EXCEPT !.deaf = f] \in Records
    BY <2>1 DEF Records
  <2>4. sock' \in [Sockets -> Records]
    BY <2>1, <2>2, <2>3
  <2>5. wroute' \in [WsUsers -> Sockets \cup {Nobody}]
    BY <1>1 DEF WsInv, WsTypes
  <2> QED
    BY <2>4, <2>5, Zenon DEF WsTypes
<1>3. ASSUME NEW v \in WsUsers, NEW d \in Sockets, wroute'[v] = d
      PROVE  wroute[v] = d /\ d # c
  BY <1>1, <1>3, WsAssumption DEF WsInv, WsTypes, RouteServes
<1>4. ASSUME NEW v \in WsUsers, NEW d \in Sockets, d # c, wroute[v] = d
      PROVE  wroute'[v] = d
  BY <1>1, <1>4 DEF WsInv, WsTypes
<1>5. ASSUME NEW d \in Sockets, d # c
      PROVE  sock'[d] = sock[d]
  BY <1>1, <1>5 DEF WsInv, WsTypes
<1>6. sock'[c].at = "closing"
  BY <1>1 DEF WsInv, WsTypes, Records
<1>7. RouteServes'
  BY <1>3, <1>4, <1>5, <1>6 DEF WsInv, RouteServes, InLoop
<1> QED
  BY <1>2, <1>7 DEF WsInv

\* A new connection is accepted only for a user without a route, and then has it.
LEMMA WelcomeKeepsRoutes ==
  ASSUME WsInv, NEW c \in Sockets, NEW u \in WsUsers, Welcome(c, u)
  PROVE  WsInv'
<1>1. PICK id \in BOOLEAN :
         /\ sock[c].at = "free"
         /\ sock' = [sock EXCEPT ![c].at = "busy", ![c].user = u,
                                 ![c].job = Answering("HandshakeAck"),
                                 ![c].accepted = id /\ wroute[u] = Nobody]
         /\ wroute' = IF wroute[u] = Nobody THEN [wroute EXCEPT ![u] = c] ELSE wroute
  BY DEF Welcome
<1>2. Answering("HandshakeAck") \in Jobs
  BY DEF Answering, Jobs
<1>3. (id /\ wroute[u] = Nobody) \in BOOLEAN
  OBVIOUS
<1>4. WsTypes'
  <2> DEFINE f == id /\ wroute[u] = Nobody
  <2>1. sock \in [Sockets -> Records] /\ sock[c] \in Records
    BY DEF WsInv, WsTypes
  <2>2. sock' = [sock EXCEPT ![c] = [sock[c] EXCEPT !.at = "busy", !.user = u,
                                                  !.job = Answering("HandshakeAck"),
                                                  !.accepted = f]]
    BY <1>1, <2>1
  <2>3. f \in BOOLEAN
    BY <1>3
  <2> HIDE DEF f
  <2>4. [sock[c] EXCEPT !.at = "busy", !.user = u, !.job = Answering("HandshakeAck"),
                        !.accepted = f] \in Records
    BY <1>2, <2>1, <2>3 DEF Records, Serving
  <2>5. sock' \in [Sockets -> Records]
    BY <2>1, <2>2, <2>4
  <2>6. wroute' \in [WsUsers -> Sockets \cup {Nobody}]
    BY <1>1 DEF WsInv, WsTypes
  <2> QED
    BY <2>5, <2>6, Zenon DEF WsTypes
<1>5. ASSUME NEW v \in WsUsers, wroute[v] = c PROVE FALSE
  BY <1>1, <1>5 DEF WsInv, RouteServes, InLoop
<1>6. ASSUME NEW d \in Sockets, d # c PROVE sock'[d] = sock[d]
  BY <1>1, <1>6 DEF WsInv, WsTypes
<1>7. sock'[c].at = "busy" /\ sock'[c].user = u /\ (sock'[c].accepted => wroute[u] = Nobody)
  BY <1>1, <1>3 DEF WsInv, WsTypes, Records
<1>8. ASSUME NEW v \in WsUsers, NEW d \in Sockets
      PROVE  wroute'[v] = d <=> wroute[v] = d \/ (v = u /\ d = c /\ wroute[u] = Nobody)
  BY <1>1, <1>5, WsAssumption DEF WsInv, WsTypes
<1>9. RouteServes'
  BY <1>5, <1>6, <1>7, <1>8, WsAssumption DEF WsInv, RouteServes, InLoop
<1> QED
  BY <1>4, <1>9 DEF WsInv

-----------------------------------------------------------------------------
\* No route and no connection to begin with.
LEMMA InitRoutes == WsInit => WsInv
<1> SUFFICES ASSUME WsInit PROVE WsInv
  OBVIOUS
<1>1. NoJob \in Jobs
  BY DEF NoJob, Jobs
<1>2. WsTypes
  BY <1>1 DEF WsInit, WsTypes, Records, Serving
<1>3. RouteServes
  BY WsAssumption DEF WsInit, RouteServes, InLoop
<1> QED
  BY <1>2, <1>3 DEF WsInv

\* The step of a connection's own task.
LEMMA TaskKeepsRoutes ==
  ASSUME WsInv, NEW c \in Sockets,
         \/ \E u \in WsUsers : Welcome(c, u) \/ TextSignal(c, u) \/ TextMsg(c, u)
         \/ Drain(c) \/ Written(c) \/ InboundEnd(c) \/ CloseSent(c) \/ BrowserStalls(c)
         \/ TextRefused(c) \/ TextAnswered(c) \/ TextSync(c)
         \/ JobSend(c) \/ JobReply(c)
  PROVE  WsInv'
<1>job. sock[c].job \in Jobs
  BY DEF WsInv, WsTypes, Records
<1>rec. sock[c].deaf \in BOOLEAN /\ sock[c] \in Records /\ sock \in [Sockets -> Records]
  BY DEF WsInv, WsTypes, Records
<1>stage. ASSUME NEW a \in {"select", "busy", "write", "closing", "gone"},
                 sock' = [sock EXCEPT ![c].at = a]
      PROVE  sock' = [sock EXCEPT ![c].at = a, ![c].deaf = sock[c].deaf]
  BY <1>rec, <1>stage DEF Records
<1>1. ASSUME NEW u \in WsUsers, Welcome(c, u) PROVE WsInv'
  BY <1>1, WelcomeKeepsRoutes
<1>2. ASSUME NEW u \in WsUsers, TextSignal(c, u) PROVE WsInv'
  <2>1. CASE UNCHANGED <<wroute, sock>>
    BY <2>1, ElsewhereKeepsRoutes
  <2>2. CASE wroute[u] # Nobody
             /\ Busy(c, [kind |-> "event", to |-> wroute[u], cmd |-> "none"])
    <3>1. [kind |-> "event", to |-> wroute[u], cmd |-> "none"] \in Jobs
      BY DEF WsInv, WsTypes, Jobs
    <3>2. sock[c].at \in Serving /\ wroute' = wroute
      BY <1>2 DEF TextSignal, Text, Selecting, Serving
    <3> QED
      BY <2>2, <3>1, <3>2, DispatchKeepsRoutes DEF Busy, Serving
  <2> QED
    BY <1>2, <2>1, <2>2 DEF TextSignal
<1>3. ASSUME NEW u \in WsUsers, TextMsg(c, u) PROVE WsInv'
  <2>1. sock[c].at \in Serving /\ wroute' = wroute
    BY <1>3 DEF TextMsg, Text, Selecting, Serving
  <2>2. CASE UNCHANGED <<wroute, sock>>
    BY <2>2, ElsewhereKeepsRoutes
  <2>3. CASE Busy(c, Answering("MsgAck"))
    <3>1. Answering("MsgAck") \in Jobs
      BY DEF Answering, Jobs
    <3> QED
      BY <2>1, <2>3, <3>1, DispatchKeepsRoutes DEF Busy, Serving
  <2>4. CASE Busy(c, [kind |-> "msg", to |-> wroute[u], cmd |-> "Msg"])
    <3>1. [kind |-> "msg", to |-> wroute[u], cmd |-> "Msg"] \in Jobs
      BY DEF WsInv, WsTypes, Jobs
    <3> QED
      BY <2>1, <2>4, <3>1, DispatchKeepsRoutes DEF Busy, Serving
  <2> QED
    BY <1>3, <2>2, <2>3, <2>4 DEF TextMsg
<1>4. CASE TextSync(c)
  <2>1. Answering("SyncResp") \in Jobs
    BY DEF Answering, Jobs
  <2> QED
    BY <1>4, <2>1, DispatchKeepsRoutes DEF TextSync, Text, Selecting, Busy, Serving
<1>5. CASE Drain(c)
  BY <1>5, <1>rec, <1>stage, StageKeepsRoutes DEF Drain, Selecting, Serving
<1>6. CASE Written(c)
  <2>1. CASE sock' = [sock EXCEPT ![c].at = "select"] /\ UNCHANGED <<wroute, chan>>
    BY <1>6, <2>1, <1>rec, <1>stage, StageKeepsRoutes DEF Written, Serving
  <2>2. CASE LoopEnds(c, TRUE)
    BY <1>6, <2>2, LeavingKeepsRoutes DEF Written, Serving
  <2> QED
    BY <1>6, <2>1, <2>2 DEF Written
<1>7. CASE CloseSent(c)
  BY <1>7, <1>rec, <1>stage, StageKeepsRoutes DEF CloseSent, Serving
<1>8. CASE BrowserStalls(c)
  <2>1. sock[c].at \in Serving
    BY <1>8 DEF BrowserStalls, InLoop, Serving
  <2>2. sock' = [sock EXCEPT ![c].at = sock[c].at, ![c].deaf = TRUE]
    BY <1>8, <1>rec DEF BrowserStalls, Records
  <2> QED
    BY <1>8, <2>1, <2>2, StageKeepsRoutes DEF BrowserStalls, Serving
<1>9. CASE InboundEnd(c)
  BY <1>9, LeavingKeepsRoutes DEF InboundEnd, Selecting, Serving
<1>10. CASE TextRefused(c)
  BY <1>10, LeavingKeepsRoutes DEF TextRefused, Text, Selecting, Serving
<1>11. CASE TextAnswered(c)
  BY <1>11, ElsewhereKeepsRoutes DEF TextAnswered
<1>12. CASE JobSend(c)
  <2> DEFINE job == sock[c].job
  <2>1. sock[c].at \in Serving /\ wroute' = wroute /\ AfterSend(c, job)
    BY <1>12 DEF JobSend, Serving
  <2>2. NoJob \in Jobs /\ Answering("MsgAck") \in Jobs
    BY DEF NoJob, Answering, Jobs
  <2>3. CASE job.kind = "event"
    <3>1. sock' = [sock EXCEPT ![c].at = "select", ![c].job = NoJob]
      BY <2>1, <2>3 DEF AfterSend
    <3> QED
      BY <2>1, <2>2, <3>1, DispatchKeepsRoutes DEF Serving
  <2>4. CASE job.kind # "event"
    <3>1. sock' = [sock EXCEPT ![c].at = "busy", ![c].job = Answering("MsgAck")]
      BY <2>1, <2>4 DEF AfterSend
    <3> QED
      BY <2>1, <2>2, <3>1, DispatchKeepsRoutes DEF Serving
  <2> QED
    BY <2>3, <2>4
<1>13. CASE JobReply(c)
  <2>1. NoJob \in Jobs
    BY DEF NoJob, Jobs
  <2> QED
    BY <1>13, <2>1, DispatchKeepsRoutes DEF JobReply, Serving
<1> QED
  BY <1>1, <1>2, <1>3, <1>4, <1>5, <1>6, <1>7, <1>8, <1>9, <1>10, <1>11, <1>12, <1>13

\* One case per action.
LEMMA StepKeepsRoutes == WsInv /\ [WsNext]_wsVars => WsInv'
<1> SUFFICES ASSUME WsInv, [WsNext]_wsVars PROVE WsInv'
  OBVIOUS
<1>1. CASE UNCHANGED wsVars
  BY <1>1, ElsewhereKeepsRoutes DEF wsVars
<1>2. ASSUME NEW p \in Pushers, PushSend(p) \/ \E u \in WsUsers : PushEvent(p, u)
      PROVE  WsInv'
  BY <1>2, ElsewhereKeepsRoutes DEF PushSend, PushEvent
<1>3. ASSUME NEW u \in WsUsers, GroupCopy(u) PROVE WsInv'
  BY <1>3, ElsewhereKeepsRoutes DEF GroupCopy
<1> QED
  BY <1>1, <1>2, <1>3, TaskKeepsRoutes DEF WsNext

\* A route always names a connection of its user that serves, and an accepted
\* connection that serves has the route: whatever dispatches wait, and whichever
\* connections are refused, die or are replaced meanwhile (ws.rs handle_socket,
\* Sessions::register, Sessions::unregister).
THEOREM RoutesAlwaysServe == WsSpec => []RouteServes
<1>1. WsInv => RouteServes
  BY DEF WsInv
<1> QED
  BY <1>1, InitRoutes, StepKeepsRoutes, PTL DEF WsSpec

-----------------------------------------------------------------------------
\* The SDK.

\* destroy has joined the pump before it goes on, and the bridge is freed by
\* the last step of it only: the order core.rs destroy and jni.rs nativeClose
\* insist on.
Joined == caller \in {"destroyed", "closed"} => pump \in {"none", "done"}
FreedLast == bridge = "freed" => caller = "closed"
NotStarted == caller = "none" => pump = "none"

\* The inductive invariant: the property follows from its first two parts, and
\* the third says that create starts the only pump there ever is.
SdkInv == Joined /\ FreedLast /\ NotStarted

\* A step of the client's task, of the server or of a call that is not the end.
LEMMA OthersKeepOrder ==
  ASSUME SdkInv, pump' = pump, bridge' = bridge,
         caller' = caller \/ (caller \notin {"none", "destroyed", "closed"}
                               /\ caller' \notin {"none", "destroyed", "closed"})
  PROVE  SdkInv'
BY DEF SdkInv, Joined, FreedLast, NotStarted

\* The pump moves only while it runs.
LEMMA PumpKeepsOrder ==
  ASSUME SdkInv, PumpStep
  PROVE  SdkInv'
<1>1. caller' = caller /\ bridge' = bridge
  BY DEF PumpStep, PumpReceives, PumpCalls, PumpFrees, PumpEnds, PumpUnchanged, appVars
<1>2. pump \notin {"none", "done"}
  BY DEF PumpStep, PumpReceives, PumpCalls, PumpFrees, PumpEnds
<1> QED
  BY <1>1, <1>2 DEF SdkInv, Joined, FreedLast, NotStarted

\* destroy: joined first, freed last.
LEMMA DestroyKeepsOrder ==
  ASSUME SdkInv, DestroyJoins \/ DestroyReturns
  PROVE  SdkInv'
<1>1. CASE DestroyJoins
  BY <1>1 DEF DestroyJoins, PumpJoined, SdkInv, Joined, FreedLast, NotStarted
<1>2. CASE DestroyReturns
  BY <1>2 DEF DestroyReturns, SdkInv, Joined, FreedLast, NotStarted
<1> QED
  BY <1>1, <1>2

\* One case per kind of step.
LEMMA StepKeepsOrder == SdkInv /\ [SdkNext]_sdkVars => SdkInv'
<1> SUFFICES ASSUME SdkInv, [SdkNext]_sdkVars PROVE SdkInv'
  OBVIOUS
<1>1. CASE UNCHANGED sdkVars
  BY <1>1, OthersKeepOrder DEF sdkVars
<1>2. ASSUME NEW f \in Faces, Create(f) PROVE SdkInv'
  <2>1. caller = "none" /\ caller' \in {"idle", "closing"} /\ bridge' \in {"held", "none"}
    BY <1>2 DEF Create
  <2> QED
    BY <2>1 DEF SdkInv, Joined, FreedLast, NotStarted
<1>3. CASE SendCall \/ PollCall \/ WaitCall \/ SendReturns \/ PollReturns \/ WaitEvent \/ WaitEnds
  <2>1. pump' = pump /\ bridge' = bridge
    BY <1>3 DEF SendCall, PollCall, WaitCall, SendReturns, PollReturns, WaitEvent, WaitEnds,
                CallerUnchanged
  <2>2. caller \notin {"none", "destroyed", "closed"} /\ caller' \notin {"none", "destroyed", "closed"}
    BY <1>3 DEF SendCall, PollCall, WaitCall, SendReturns, PollReturns, WaitEvent, WaitEnds
  <2> QED
    BY <2>1, <2>2, OthersKeepOrder
<1>4. CASE DestroyCall
  BY <1>4, OthersKeepOrder DEF DestroyCall
<1>5. CASE DestroyJoins \/ DestroyReturns
  BY <1>5, DestroyKeepsOrder
<1>6. CASE PumpStep
  BY <1>6, PumpKeepsOrder
<1>7. CASE ClientStep
  <2>1. ClientUnchanged
    BY <1>7 DEF ClientStep, ConnectFails, ConnectAccepted, ConnectRejected, BackoffEnds,
                LoopStops, LoopCommand, LoopFrame, LoopDies, EmitSends, EmitFails
  <2> QED
    BY <2>1, OthersKeepOrder DEF ClientUnchanged
<1>8. CASE ServerToggles
  BY <1>8, OthersKeepOrder DEF ServerToggles, appVars
<1> QED
  BY <1>1, <1>2, <1>3, <1>4, <1>5, <1>6, <1>7, <1>8 DEF SdkNext, CallStep

\* The pump thread never runs with a freed bridge, on every path to the end of a
\* client (core.rs destroy, jni.rs nativeCreate and nativeClose).
THEOREM BridgeAlwaysOutlivesPump == SdkSpec => []BridgeOutlivesPump
<1>1. SdkInit => SdkInv
  BY DEF SdkInit, SdkInv, Joined, FreedLast, NotStarted
<1>2. SdkInv => BridgeOutlivesPump
  BY DEF SdkInv, Joined, FreedLast, BridgeOutlivesPump
<1> QED
  BY <1>1, <1>2, StepKeepsOrder, PTL DEF SdkSpec

-----------------------------------------------------------------------------

\* Every id an instance has issued was assembled from its machine id and from
\* a millisecond and sequence number not beyond the generator's current ones.
Provenance ==
  \A m \in Machines : \A i \in 1..Len(issued[m]) :
    \E t \in 0..MaxMs, s \in 0..MAX_SEQUENCE :
      /\ issued[m][i] = assemble(t, m, s)
      /\ t < last_ms[m] \/ (t = last_ms[m] /\ s <= sequence[m])

IInv == TypeOK /\ Provenance /\ IdsIncrease

\* A product is at least as large as the multiplicand taken once more below it.
LEMMA MulStep ==
  ASSUME NEW a \in Nat, NEW b \in Nat, NEW k \in Nat, a < b
  PROVE  a * k + k <= b * k
<1>1. PICK d \in Nat : b = a + 1 + d
  <2> WITNESS (b - a - 1) \in Nat
  <2> QED OBVIOUS
<1>2. b * k = a * k + k + d * k
  BY <1>1
<1>3. d * k >= 0
  OBVIOUS
<1>4. a * k \in Nat /\ d * k \in Nat /\ b * k \in Nat
  OBVIOUS
<1> QED
  BY <1>2, <1>3, <1>4

\* Within one machine ids are ordered by millisecond, then by sequence number.
LEMMA AssembleOrder ==
  ASSUME NEW t \in Nat, NEW u \in Nat, NEW m \in Machines,
         NEW r \in 0..MAX_SEQUENCE, NEW s \in 0..MAX_SEQUENCE,
         t < u \/ (t = u /\ r < s)
  PROVE  assemble(t, m, r) < assemble(u, m, s)
<1> DEFINE K == MachineSpan * SequenceSpan
<1>1. K \in Nat /\ SequenceSpan \in Nat /\ MachineSpan \in Nat /\ m \in Nat
  BY SpanAssumption
<1>2. m + 1 <= MachineSpan
  BY SpanAssumption
<1>3. m * SequenceSpan + SequenceSpan <= K
  <2>1. CASE m + 1 = MachineSpan
    BY <2>1, <1>1
  <2>2. CASE m + 1 < MachineSpan
    <3>1. m < MachineSpan
      BY <1>1, <2>2
    <3> QED
      BY <3>1, <1>1, MulStep
  <2> QED
    BY <1>1, <1>2, <2>1, <2>2
<1>4. t * K \in Nat /\ u * K \in Nat /\ m * SequenceSpan \in Nat
  BY <1>1
<1>5. r \in Nat /\ s \in Nat /\ r < SequenceSpan /\ s < SequenceSpan
  BY <1>1 DEF MAX_SEQUENCE
<1>6. CASE t < u
  <2>1. t * K + K <= u * K
    BY <1>1, <1>6, MulStep
  <2> HIDE DEF K
  <2>2. t * K + (m * SequenceSpan + r) < u * K + (m * SequenceSpan + s)
    BY <2>1, <1>1, <1>3, <1>4, <1>5
  <2> QED
    BY <2>2 DEF assemble, K
<1>7. CASE t = u /\ r < s
  BY <1>7, <1>4, <1>5 DEF assemble
<1> QED
  BY <1>6, <1>7

\* Ids of two machines differ whatever their other fields are.
LEMMA AssembleMachine ==
  ASSUME NEW t \in Nat, NEW u \in Nat, NEW m \in Machines, NEW n \in Machines,
         NEW r \in 0..MAX_SEQUENCE, NEW s \in 0..MAX_SEQUENCE, m < n
  PROVE  assemble(t, m, r) # assemble(u, n, s)
<1> DEFINE K == MachineSpan * SequenceSpan
           x == m * SequenceSpan + r
           y == n * SequenceSpan + s
<1>1. K \in Nat /\ SequenceSpan \in Nat /\ MachineSpan \in Nat /\ m \in Nat /\ n \in Nat
  BY SpanAssumption
<1>2. r \in Nat /\ s \in Nat /\ r < SequenceSpan /\ s < SequenceSpan
  BY <1>1 DEF MAX_SEQUENCE
<1>3. m < MachineSpan /\ n < MachineSpan
  BY SpanAssumption
<1>4. m * SequenceSpan \in Nat /\ n * SequenceSpan \in Nat
  BY <1>1
<1>5. m * SequenceSpan + SequenceSpan <= n * SequenceSpan
  BY <1>1, MulStep
<1>6. n * SequenceSpan + SequenceSpan <= K
  BY <1>1, <1>3, MulStep
<1>7. x \in Nat /\ y \in Nat /\ x < y /\ y < K
  BY <1>1, <1>2, <1>4, <1>5, <1>6
<1>8. t * K \in Nat /\ u * K \in Nat
  BY <1>1
<1>9. t * K + x # u * K + y
  <2> HIDE DEF K, x, y
  <2>1. CASE t < u
    <3>1. t * K + K <= u * K
      BY <2>1, <1>1, MulStep
    <3> QED
      BY <3>1, <1>1, <1>7, <1>8
  <2>2. CASE u < t
    <3>1. u * K + K <= t * K
      BY <2>2, <1>1, MulStep
    <3> QED
      BY <3>1, <1>1, <1>7, <1>8
  <2>3. CASE t = u
    BY <2>3, <1>7, <1>8
  <2> QED
    BY <2>1, <2>2, <2>3
<1> QED
  BY <1>9 DEF assemble

\* An assembled id is a natural number.
LEMMA AssembleType ==
  ASSUME NEW t \in Nat, NEW m \in Machines, NEW r \in 0..MAX_SEQUENCE
  PROVE  assemble(t, m, r) \in Nat
<1>1. MachineSpan \in Nat /\ SequenceSpan \in Nat /\ m \in Nat /\ r \in Nat
  BY SpanAssumption DEF MAX_SEQUENCE
<1>2. MachineSpan * SequenceSpan \in Nat
  BY <1>1
<1>3. t * (MachineSpan * SequenceSpan) \in Nat /\ m * SequenceSpan \in Nat
  BY <1>1, <1>2
<1> QED
  BY <1>1, <1>3 DEF assemble

\* No id has been issued at the start.
LEMMA InitIInv == Init => IInv
<1> SUFFICES ASSUME Init PROVE IInv
  OBVIOUS
<1>1. MAX_SEQUENCE \in Nat
  BY SpanAssumption DEF MAX_SEQUENCE
<1>2. \A m \in Machines : issued[m] = << >> /\ Len(issued[m]) = 0
  BY DEF Init
<1>3. TypeOK
  BY <1>1, SpanAssumption DEF Init, TypeOK
<1>4. Provenance /\ IdsIncrease
  BY <1>2 DEF Provenance, IdsIncrease
<1> QED
  BY <1>3, <1>4 DEF IInv

\* The step that issues an id keeps the strengthened invariant.
LEMMA SucceedIInv ==
  ASSUME IInv, NEW m \in Machines, NEW c \in Callers, Succeed(m, c)
  PROVE  IInv'
<1> USE DEF IInv
<1> DEFINE s == NextSequence(m)
           id == assemble(clock[m], m, s)
<1>1. MAX_SEQUENCE \in Nat /\ SequenceSpan \in Nat
  BY SpanAssumption DEF MAX_SEQUENCE
<1>2. clock[m] \in 0..MaxMs /\ last_ms[m] \in -1..MaxMs /\ sequence[m] \in 0..MAX_SEQUENCE
  BY DEF TypeOK
<1>3. last_ms[m] <= clock[m] /\ (clock[m] = last_ms[m] => sequence[m] # MAX_SEQUENCE)
  BY <1>2, SpanAssumption DEF Succeed, IssueId, ClockMovedBackwards, SequenceExhausted
<1>4. s \in 0..MAX_SEQUENCE
  BY <1>1, <1>2, <1>3 DEF NextSequence
<1>5. clock[m] \in Nat /\ MaxMs \in Nat
  BY <1>2, SpanAssumption
<1>6. id \in Nat
  BY <1>4, <1>5, AssembleType
<1>7. /\ last_ms' = [last_ms EXCEPT ![m] = clock[m]]
      /\ sequence' = [sequence EXCEPT ![m] = s]
      /\ issued' = [issued EXCEPT ![m] = Append(issued[m], id)]
      /\ clock' = clock
      /\ left' = [left EXCEPT ![m][c] = 0]
  BY DEF Succeed, IssueId
<1> HIDE DEF s, id
<1>8. TypeOK'
  BY <1>2, <1>4, <1>6, <1>7, SpanAssumption DEF TypeOK
<1>9. /\ issued[m] \in Seq(Nat)
      /\ issued'[m] = Append(issued[m], id)
      /\ \A n \in Machines : n # m => /\ issued'[n] = issued[n]
                                     /\ last_ms'[n] = last_ms[n]
                                     /\ sequence'[n] = sequence[n]
      /\ last_ms'[m] = clock[m]
      /\ sequence'[m] = s
  BY <1>7 DEF TypeOK
<1>10. /\ Len(issued'[m]) = Len(issued[m]) + 1
       /\ Len(issued[m]) \in Nat
       /\ \A i \in 1..Len(issued[m]) : issued'[m][i] = issued[m][i]
       /\ issued'[m][Len(issued[m]) + 1] = id
  BY <1>6, <1>9
\* every earlier id of m is older than (clock[m], s)
<1>11. ASSUME NEW i \in 1..Len(issued[m])
       PROVE  \E t \in 0..MaxMs, r \in 0..MAX_SEQUENCE :
                /\ issued[m][i] = assemble(t, m, r)
                /\ t < clock[m] \/ (t = clock[m] /\ r < s)
  <2>1. PICK t \in 0..MaxMs, r \in 0..MAX_SEQUENCE :
          /\ issued[m][i] = assemble(t, m, r)
          /\ t < last_ms[m] \/ (t = last_ms[m] /\ r <= sequence[m])
    BY DEF Provenance
  <2>2. t < clock[m] \/ (t = clock[m] /\ r < s)
    BY <1>1, <1>2, <1>3, <2>1, SpanAssumption DEF s, NextSequence
  <2> QED
    BY <2>1, <2>2
<1>12. Provenance'
  <2> SUFFICES ASSUME NEW n \in Machines, NEW i \in 1..Len(issued'[n])
               PROVE  \E t \in 0..MaxMs, r \in 0..MAX_SEQUENCE :
                        /\ issued'[n][i] = assemble(t, n, r)
                        /\ t < last_ms'[n] \/ (t = last_ms'[n] /\ r <= sequence'[n])
    BY DEF Provenance, assemble, MAX_SEQUENCE
  <2>1. CASE n # m
    BY <2>1, <1>9 DEF Provenance
  <2>2. CASE n = m /\ i = Len(issued[m]) + 1
    <3>1. issued'[n][i] = assemble(clock[m], m, s)
      BY <2>2, <1>10 DEF id
    <3> QED
      BY <3>1, <2>2, <1>1, <1>2, <1>4, <1>9
  <2>3. CASE n = m /\ i # Len(issued[m]) + 1
    <3>1. i \in 1..Len(issued[m]) /\ issued'[n][i] = issued[m][i]
      BY <2>3, <1>10
    <3>2. PICK t \in 0..MaxMs, r \in 0..MAX_SEQUENCE :
            /\ issued[m][i] = assemble(t, m, r)
            /\ t < clock[m] \/ (t = clock[m] /\ r < s)
      BY <3>1, <1>11
    <3>3. t < last_ms'[n] \/ (t = last_ms'[n] /\ r <= sequence'[n])
      BY <3>2, <2>3, <1>1, <1>4, <1>9
    <3> QED
      BY <3>1, <3>2, <3>3, <2>3
  <2> QED
    BY <2>1, <2>2, <2>3
<1>13. IdsIncrease'
  <2> SUFFICES ASSUME NEW n \in Machines, NEW i \in 1..Len(issued'[n]),
                      NEW j \in 1..Len(issued'[n]), i < j
               PROVE  issued'[n][i] < issued'[n][j]
    BY DEF IdsIncrease
  <2>1. CASE n # m
    BY <2>1, <1>9 DEF IdsIncrease
  <2>2. CASE n = m /\ j # Len(issued[m]) + 1
    <3>1. i \in 1..Len(issued[m]) /\ j \in 1..Len(issued[m])
      BY <2>2, <1>10
    <3> QED
      BY <3>1, <2>2, <1>10 DEF IdsIncrease
  <2>3. CASE n = m /\ j = Len(issued[m]) + 1
    <3>1. i \in 1..Len(issued[m])
      BY <2>3, <1>10
    <3>2. PICK t \in 0..MaxMs, r \in 0..MAX_SEQUENCE :
            /\ issued[m][i] = assemble(t, m, r)
            /\ t < clock[m] \/ (t = clock[m] /\ r < s)
      BY <3>1, <1>11
    <3>3. t \in Nat
      BY <3>2, <1>5
    <3>4. issued[m][i] < id
      BY <3>2, <3>3, <1>4, <1>5, AssembleOrder DEF id
    <3> QED
      BY <3>4, <3>1, <2>3, <1>10
  <2> QED
    BY <2>1, <2>2, <2>3
<1> QED
  BY <1>8, <1>12, <1>13

\* Every step keeps the invariant; only Succeed issues an id.
LEMMA NextIInv == IInv /\ [Next]_vars => IInv'
<1> SUFFICES ASSUME IInv, [Next]_vars PROVE IInv'
  OBVIOUS
<1>1. ASSUME UNCHANGED <<last_ms, sequence, issued>> PROVE Provenance' /\ IdsIncrease'
  BY <1>1 DEF IInv, Provenance, IdsIncrease, assemble, MAX_SEQUENCE
<1>2. ASSUME NEW m \in Machines, NEW c \in Callers, Call(m, c) PROVE IInv'
  <2>1. TypeOK'
    BY <1>2, SpanAssumption DEF IInv, TypeOK, Call, MAX_SEQUENCE
  <2> QED
    BY <2>1, <1>1, <1>2 DEF IInv, Call
<1>3. ASSUME NEW m \in Machines, NEW c \in Callers, Succeed(m, c) PROVE IInv'
  BY <1>3, SucceedIInv
<1>4. ASSUME NEW m \in Machines, NEW c \in Callers, Retry(m, c) PROVE IInv'
  <2>1. left[m][c] - 1 \in 0..Attempts
    BY <1>4, SpanAssumption DEF IInv, TypeOK, Retry
  <2>2. TypeOK'
    BY <1>4, <2>1 DEF IInv, TypeOK, Retry, MAX_SEQUENCE
  <2> QED
    BY <2>2, <1>1, <1>4 DEF IInv, Retry
<1>5. ASSUME NEW m \in Machines, NEW c \in Callers, GiveUp(m, c) PROVE IInv'
  <2>1. TypeOK'
    BY <1>5, SpanAssumption DEF IInv, TypeOK, GiveUp, MAX_SEQUENCE
  <2> QED
    BY <2>1, <1>1, <1>5 DEF IInv, GiveUp
<1>6. ASSUME NEW m \in Machines, NEW t \in 0..MaxMs, SetClock(m, t) PROVE IInv'
  <2>1. TypeOK'
    BY <1>6 DEF IInv, TypeOK, SetClock, MAX_SEQUENCE
  <2> QED
    BY <2>1, <1>1, <1>6 DEF IInv, SetClock
<1>7. CASE UNCHANGED vars
  BY <1>7 DEF IInv, TypeOK, Provenance, IdsIncrease, assemble, MAX_SEQUENCE, vars
<1> QED
  BY <1>2, <1>3, <1>4, <1>5, <1>6, <1>7 DEF Next

\* Ids of instances with different machine numbers come from disjoint sets.
LEMMA ProvenanceDisjoint == IInv => MachinesDisjoint
<1> SUFFICES ASSUME IInv, NEW m \in Machines, NEW n \in Machines, m # n,
                    NEW i \in 1..Len(issued[m]), NEW j \in 1..Len(issued[n])
             PROVE  issued[m][i] # issued[n][j]
  BY DEF MachinesDisjoint
<1>1. PICK t \in 0..MaxMs, r \in 0..MAX_SEQUENCE : issued[m][i] = assemble(t, m, r)
  BY DEF IInv, Provenance
<1>2. PICK u \in 0..MaxMs, s \in 0..MAX_SEQUENCE : issued[n][j] = assemble(u, n, s)
  BY DEF IInv, Provenance
<1>3. t \in Nat /\ u \in Nat /\ m \in Nat /\ n \in Nat
  BY SpanAssumption
<1>4. CASE m < n
  BY <1>1, <1>2, <1>3, <1>4, AssembleMachine
<1>5. CASE n < m
  BY <1>1, <1>2, <1>3, <1>5, AssembleMachine
<1> QED
  BY <1>3, <1>4, <1>5

(***************************************************************************)
(* Type correctness of the generator and of the calls to it.               *)
(***************************************************************************)
THEOREM SnowflakeTypeOK == Spec => []TypeOK
<1>1. IInv => TypeOK
  BY DEF IInv
<1> QED
  BY InitIInv, NextIInv, <1>1, PTL DEF Spec

(***************************************************************************)
(* Whatever the clock does, an instance issues strictly increasing ids.    *)
(***************************************************************************)
THEOREM SnowflakeIdsIncrease == Spec => []IdsIncrease
<1>1. IInv => IdsIncrease
  BY DEF IInv
<1> QED
  BY InitIInv, NextIInv, <1>1, PTL DEF Spec

(***************************************************************************)
(* No two instances of a deployment ever issue the same id.                *)
(***************************************************************************)
THEOREM SnowflakeMachinesDisjoint == Spec => []MachinesDisjoint
  BY InitIInv, NextIInv, ProvenanceDisjoint, PTL DEF Spec
=============================================================================
