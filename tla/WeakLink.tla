------------------------------ MODULE WeakLink ------------------------------
(***************************************************************************)
(* The weak link of the benchmarks (crates/im-bench/src/weaklink.rs): a    *)
(* proxy between a client and the server that drops and delays whole       *)
(* frames. A connection has two directions, each with a reading task       *)
(* (pump_in) and a scheduling task (pump_out) joined by a bounded channel. *)
(* The random source is a choice over what it can give.                    *)
(***************************************************************************)
EXTENDS Naturals, Sequences, FiniteSets

CONSTANTS
  LinkDirs,      \* directions of the connection: "up", "down"
  Delay,         \* LinkCfg.delay
  Jitters,       \* the values of LinkCfg.jitter that are tried
  PumpCapacity,  \* room of the channel, 256
  MaxLinkFrames, \* bound: frames that enter a direction
  MaxTime        \* bound: the clock

ASSUME WeakLinkAssumption ==
  /\ LinkDirs \subseteq {"up", "down"}
  /\ Delay \in Nat /\ Jitters \subseteq Nat
  /\ PumpCapacity \in Nat \ {0} /\ MaxLinkFrames \in Nat /\ MaxTime \in Nat

Ends == {"client", "server"}
From(d) == IF d = "up" THEN "client" ELSE "server"
To(d) == IF d = "up" THEN "server" ELSE "client"

VARIABLES
  jitter, clock,
  lossy,      \* loss_permille > 0
  open,       \* open[e]: that end has not closed its connection
  seen,       \* seen[d]: frames pump_in has seen, numbered as they come
  holding,    \* holding[d]: the frame pump_in waits to send, with its time; <<>> if none
  inTask, outTask, \* the tasks: "run", "done"; pump_out also "broken", a failed write
  channel,    \* channel[d]: mpsc of (frame, ready)
  heap,       \* heap[d]: HeapItem (ready, seq, frame)
  enqueued,   \* enqueued[d]: seq of pump_out
  dropped, forwarded \* LinkStats, as the frames themselves

linkVars == <<jitter, clock, lossy, open, seen, holding, inTask, outTask, channel,
              heap, enqueued, dropped, forwarded>>

\* accept_loop: a connection to the server for the one accepted, four tasks.
LinkInit ==
  /\ jitter \in Jitters /\ lossy \in BOOLEAN /\ clock = 0
  /\ open = [e \in Ends |-> TRUE]
  /\ seen = [d \in LinkDirs |-> 0]
  /\ holding = [d \in LinkDirs |-> <<>>]
  /\ inTask = [d \in LinkDirs |-> "run"] /\ outTask = [d \in LinkDirs |-> "run"]
  /\ channel = [d \in LinkDirs |-> <<>>]
  /\ heap = [d \in LinkDirs |-> {}]
  /\ enqueued = [d \in LinkDirs |-> 0]
  /\ dropped = [d \in LinkDirs |-> {}]
  /\ forwarded = [d \in LinkDirs |-> <<>>]

\* XorShift as what it can give: any number below n, and 0 for n = 0 as well.
below(n) == 0..(IF n = 0 THEN 0 ELSE n - 1)

\* pump_in reads a frame and gives it the time at which it may leave.
PumpRead(d) ==
  /\ inTask[d] = "run" /\ holding[d] = <<>>
  /\ open[From(d)] /\ seen[d] < MaxLinkFrames
  /\ seen' = [seen EXCEPT ![d] = @ + 1]
  /\ \E extra \in below(jitter) :
       holding' = [holding EXCEPT ![d] = <<seen[d] + 1, clock + Delay + extra>>]
  /\ UNCHANGED <<jitter, clock, lossy, open, inTask, outTask, channel, heap, enqueued,
                 dropped, forwarded>>

\* pump_in reads a frame and drops it.
PumpDrop(d) ==
  /\ inTask[d] = "run" /\ holding[d] = <<>>
  /\ open[From(d)] /\ seen[d] < MaxLinkFrames
  /\ lossy
  /\ seen' = [seen EXCEPT ![d] = @ + 1]
  /\ dropped' = [dropped EXCEPT ![d] = @ \cup {seen[d] + 1}]
  /\ UNCHANGED <<jitter, clock, lossy, open, holding, inTask, outTask, channel, heap,
                 enqueued, forwarded>>

\* tx.send waits for room; it fails when pump_out has returned.
PumpSend(d) ==
  /\ inTask[d] = "run" /\ holding[d] # <<>>
  /\ \/ /\ outTask[d] # "run"
        /\ inTask' = [inTask EXCEPT ![d] = "done"]
        /\ UNCHANGED channel
     \/ /\ outTask[d] = "run" /\ Len(channel[d]) < PumpCapacity
        /\ channel' = [channel EXCEPT ![d] = Append(@, holding[d])]
        /\ UNCHANGED inTask
  /\ holding' = [holding EXCEPT ![d] = <<>>]
  /\ UNCHANGED <<jitter, clock, lossy, open, seen, outTask, heap, enqueued, dropped,
                 forwarded>>

\* The end of the stream, or a read error.
PumpEof(d) ==
  /\ inTask[d] = "run" /\ holding[d] = <<>>
  /\ ~open[From(d)]
  /\ inTask' = [inTask EXCEPT ![d] = "done"]
  /\ UNCHANGED <<jitter, clock, lossy, open, seen, holding, outTask, channel, heap,
                 enqueued, dropped, forwarded>>

\* rx.recv of pump_out.
PumpTake(d) ==
  /\ outTask[d] = "run" /\ channel[d] # <<>>
  /\ enqueued' = [enqueued EXCEPT ![d] = @ + 1]
  /\ heap' = [heap EXCEPT ![d] =
                @ \cup {[ready |-> Head(channel[d])[2], seq |-> enqueued[d] + 1,
                         frame |-> Head(channel[d])[1]]}]
  /\ channel' = [channel EXCEPT ![d] = Tail(@)]
  /\ UNCHANGED <<jitter, clock, lossy, open, seen, holding, inTask, outTask, dropped,
                 forwarded>>

\* Frames of one instant in any order.
Precedes_NoTie(a, b) == a.ready <= b.ready

\* HeapItem::cmp: by time, then by arrival.
Precedes(a, b) == a.ready < b.ready \/ (a.ready = b.ready /\ a.seq <= b.seq)

\* sleep_until(due) of the top of the heap has passed: it is written. A write
\* to an end that has closed may fail, and ends the direction.
PumpWrite(d) ==
  /\ outTask[d] = "run"
  /\ \E top \in heap[d] :
       /\ \A other \in heap[d] : Precedes(top, other)
       /\ clock >= top.ready
       /\ heap' = [heap EXCEPT ![d] = @ \ {top}]
       /\ \/ /\ forwarded' = [forwarded EXCEPT ![d] = Append(@, top.frame)]
             /\ UNCHANGED outTask
          \/ /\ ~open[To(d)]
             /\ outTask' = [outTask EXCEPT ![d] = "broken"]
             /\ UNCHANGED forwarded
  /\ UNCHANGED <<jitter, clock, lossy, open, seen, holding, inTask, channel, enqueued,
                 dropped>>

\* A scheduler that stops as soon as nothing more comes in.
PumpReturns_NoDrain(d) ==
  /\ outTask[d] = "run"
  /\ inTask[d] = "done" /\ channel[d] = <<>>
  /\ outTask' = [outTask EXCEPT ![d] = "done"]
  /\ UNCHANGED <<jitter, clock, lossy, open, seen, holding, inTask, channel, heap,
                 enqueued, dropped, forwarded>>

\* The channel is closed and empty, and so is the heap.
PumpReturns(d) ==
  /\ outTask[d] = "run"
  /\ inTask[d] = "done" /\ channel[d] = <<>> /\ heap[d] = {}
  /\ outTask' = [outTask EXCEPT ![d] = "done"]
  /\ UNCHANGED <<jitter, clock, lossy, open, seen, holding, inTask, channel, heap,
                 enqueued, dropped, forwarded>>

\* An end closes its connection. The proxy passes that on only when it has let
\* go of both halves of the other socket (tokio::io::split), so each end closes
\* of its own accord.
EndCloses(e) ==
  /\ open[e]
  /\ open' = [open EXCEPT ![e] = FALSE]
  /\ UNCHANGED <<jitter, clock, lossy, seen, holding, inTask, outTask, channel, heap,
                 enqueued, dropped, forwarded>>

TimePasses ==
  /\ clock < MaxTime /\ clock' = clock + 1
  /\ UNCHANGED <<jitter, lossy, open, seen, holding, inTask, outTask, channel, heap,
                 enqueued, dropped, forwarded>>

LinkNext ==
  \/ \E d \in LinkDirs : PumpRead(d) \/ PumpDrop(d) \/ PumpSend(d) \/ PumpEof(d)
                       \/ PumpTake(d) \/ PumpWrite(d) \/ PumpReturns(d)
  \/ \E e \in Ends : EndCloses(e)
  \/ TimePasses

LinkSpec == LinkInit /\ [][LinkNext]_linkVars
-----------------------------------------------------------------------------
Written(d) == {forwarded[d][i] : i \in 1..Len(forwarded[d])}

(***************************************************************************)
(* A link without jitter keeps the order ("with zero jitter the order is   *)
(* kept strictly", pump_out), although several frames may be due at once   *)
(* and the scheduler may take new ones while old ones are due; and a       *)
(* direction that ended without a failed write has forwarded every frame   *)
(* it did not drop on purpose ("all frames in flight have been delivered", *)
(* pump_out), so that the losses counted are the losses there were.        *)
(***************************************************************************)
LinkFaithful ==
  \A d \in LinkDirs :
    /\ jitter = 0 => \A i, j \in 1..Len(forwarded[d]) :
                        i < j => forwarded[d][i] < forwarded[d][j]
    /\ outTask[d] = "done" => Written(d) = (1..seen[d]) \ dropped[d]
=============================================================================
