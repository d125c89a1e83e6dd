-------------------------------- MODULE Sdk ---------------------------------
(***************************************************************************)
(* The SDK (im-sdk): the synchronous face of the client for C, Java and    *)
(* Rust callers.  One caller thread, the event pump thread of the callback *)
(* mode and the client's task (im-client/src/client.rs: client_loop,       *)
(* connect_once, message_loop) share two bounded channels, commands and    *)
(* events, and a shutdown signal.                                          *)
(*                                                                         *)
(* The connection is reduced to what the SDK sees of it: attempts fail     *)
(* while the server is away, an accepted one announces Connected, and the  *)
(* message loop turns commands and frames into events.                     *)
(***************************************************************************)
EXTENDS Naturals, Sequences

CONSTANTS
    CmdCapacity,     \* commands the channel holds (64 in the code)
    EventCapacity,   \* events the channel holds (64 in the code)
    MaxCalls,        \* bound: calls the caller makes between create and destroy
    MaxEventFrames,  \* bound: frames from the server that become events
    MaxOutages       \* bound: times the server goes away

VARIABLES
    face,            \* [surface, callback]: how the client was created
    caller,          \* what the calling thread is in the middle of
    typed,           \* the typestate of the Rust face
    cmds,            \* commands queued
    events,          \* events queued
    receiver,        \* who owns the event receiver: "core", "pump" or "dropped"
    unpolled,        \* events of a batch not yet polled
    pump,            \* the pump thread: "none", "recv", "batch", "callback", "done"
    batch,           \* events the pump has taken and not handed out
    bridge,          \* the JNI event bridge: "none", "held", "freed"
    shutdown,        \* the shutdown signal
    task,            \* the client's task: "connect", "loop", "emit", "backoff", "gone"
    emit,            \* the event being sent and where the task goes then
    serverUp,        \* the environment: can the server be reached
    calls, frames, outages

sdkVars == <<face, caller, typed, cmds, events, receiver, unpolled, pump, batch, bridge,
             shutdown, task, emit, serverUp, calls, frames, outages>>

appVars == <<face, typed, bridge, calls>>
taskVars == <<task, emit, frames>>
envVars == <<serverUp, outages>>

Faces == {[surface |-> s, callback |-> cb] : s \in {"c", "jni"}, cb \in BOOLEAN}
         \cup {[surface |-> "native", callback |-> FALSE]}

NoEmit == [event |-> "none", next |-> "gone"]

\* A batch reaches C as single messages.
normalize(e) == IF e = "batch" THEN <<"message", "message">> ELSE <<e>>

(***************************************************************************)
(* The client's task.                                                      *)
(***************************************************************************)
Send(event, next) == task' = "emit" /\ emit' = [event |-> event, next |-> next]

ClientUnchanged == UNCHANGED <<face, caller, typed, receiver, unpolled, pump, batch, bridge,
                               shutdown, serverUp, calls, outages>>

\* An attempt does not look at the shutdown signal.
ConnectFails ==
    /\ task = "connect" /\ ~serverUp
    /\ Send("disconnected", "backoff")
    /\ UNCHANGED <<cmds, events, frames>> /\ ClientUnchanged

ConnectAccepted ==
    /\ task = "connect" /\ serverUp
    /\ Send("connected", "loop")
    /\ UNCHANGED <<cmds, events, frames>> /\ ClientUnchanged

ConnectRejected ==
    /\ task = "connect" /\ serverUp
    /\ Send("rejected", "gone")
    /\ UNCHANGED <<cmds, events, frames>> /\ ClientUnchanged

BackoffEnds ==
    /\ task = "backoff" /\ task' = "connect"
    /\ UNCHANGED <<cmds, events, emit, frames>> /\ ClientUnchanged

\* A loop that misses the signal.
LoopStops_Unwatched == task = "loop" /\ shutdown /\ UNCHANGED sdkVars

LoopStops ==
    /\ task = "loop" /\ shutdown
    /\ task' = "gone"
    /\ UNCHANGED <<cmds, events, emit, frames>> /\ ClientUnchanged

LoopCommand ==
    /\ task = "loop" /\ cmds > 0
    /\ cmds' = cmds - 1
    /\ Send("queued", "loop")
    /\ UNCHANGED <<events, frames>> /\ ClientUnchanged

LoopFrame ==
    /\ task = "loop" /\ serverUp /\ frames < MaxEventFrames
    /\ frames' = frames + 1
    /\ \E e \in {"message", "ack", "batch"} : Send(e, "loop")
    /\ UNCHANGED <<cmds, events>> /\ ClientUnchanged

LoopDies ==
    /\ task = "loop" /\ ~serverUp
    /\ Send("disconnected", "backoff")
    /\ UNCHANGED <<cmds, events, frames>> /\ ClientUnchanged

\* events.send(..).await: waits for a place, and fails when nobody receives.
EmitSends ==
    /\ task = "emit" /\ receiver # "dropped"
    /\ Len(events) < EventCapacity
    /\ events' = Append(events, emit.event)
    /\ task' = emit.next /\ emit' = NoEmit
    /\ UNCHANGED <<cmds, frames>> /\ ClientUnchanged

\* The result of announcing a lost connection is ignored; any other event
\* without a receiver ends the client.
EmitFails ==
    /\ task = "emit" /\ receiver = "dropped"
    /\ task' = IF emit.event = "disconnected" THEN emit.next ELSE "gone"
    /\ emit' = NoEmit
    /\ UNCHANGED <<cmds, events, frames>> /\ ClientUnchanged

ClientStep ==
    \/ ConnectFails \/ ConnectAccepted \/ ConnectRejected \/ BackoffEnds
    \/ LoopStops \/ LoopCommand \/ LoopFrame \/ LoopDies
    \/ EmitSends \/ EmitFails

(***************************************************************************)
(* create, send and poll on the calling thread.                            *)
(***************************************************************************)
\* create: a runtime of its own, and the client's task started in it.
StartClient == task' = "connect" /\ emit' = NoEmit

\* take_events and attach_pump: the pump thread owns the receiver from now on.
take_events == receiver' = "pump" /\ pump' = "recv"

Create(f) ==
    /\ caller = "none"
    /\ face' = f
    /\ StartClient
    /\ bridge' = IF f.surface = "jni" /\ f.callback THEN "held" ELSE "none"
    /\ \/ /\ IF f.callback THEN take_events ELSE receiver' = "core" /\ pump' = "none"
          /\ caller' = "idle"
          /\ UNCHANGED shutdown
       \/ \* The pump thread cannot be started: the client is destroyed.
          /\ f.callback
          /\ receiver' = "dropped" /\ pump' = "none"
          /\ caller' = "closing" /\ shutdown' = TRUE
    /\ UNCHANGED <<typed, cmds, events, unpolled, batch, serverUp, calls, frames, outages>>

CallerUnchanged == UNCHANGED <<face, receiver, pump, batch, bridge, shutdown, task, emit,
                               serverUp, frames, outages>>

\* The Rust face has no send before the handshake.
SendCall ==
    /\ caller = "idle" /\ calls < MaxCalls
    /\ face.surface = "native" => typed = "Connected"
    /\ caller' = "sending" /\ calls' = calls + 1
    /\ UNCHANGED <<typed, cmds, events, unpolled>> /\ CallerUnchanged

SendReturns ==
    /\ caller = "sending"
    /\ \/ task # "gone" /\ cmds < CmdCapacity /\ cmds' = cmds + 1
       \/ task = "gone" /\ UNCHANGED cmds          \* ERR_STOPPED
    /\ caller' = "idle"
    /\ UNCHANGED <<typed, events, unpolled, calls>> /\ CallerUnchanged

PollCall ==
    /\ caller = "idle" /\ calls < MaxCalls
    /\ caller' = "polling" /\ calls' = calls + 1
    /\ UNCHANGED <<typed, cmds, events, unpolled>> /\ CallerUnchanged

\* What one poll yields: an event, ERR_TIMEOUT, ERR_STOPPED or, with a pump,
\* ERR_POLL_WITH_CALLBACK.
Polled(e) ==
    \/ /\ receiver = "core" /\ unpolled # << >>
       /\ e = Head(unpolled) /\ unpolled' = Tail(unpolled)
       /\ UNCHANGED events
    \/ /\ receiver = "core" /\ unpolled = << >> /\ events # << >>
       /\ events' = Tail(events)
       /\ e = Head(normalize(Head(events)))
       /\ unpolled' = Tail(normalize(Head(events)))

NothingPolled ==
    /\ \/ receiver # "core"
       \/ receiver = "core" /\ unpolled = << >> /\ events = << >>
    /\ UNCHANGED <<events, unpolled>>

Kinds == {"connected", "disconnected", "message", "queued", "ack", "rejected"}

PollReturns ==
    /\ caller = "polling"
    /\ (\E e \in Kinds : Polled(e)) \/ NothingPolled
    /\ caller' = "idle"
    /\ UNCHANGED <<typed, cmds, calls>> /\ CallerUnchanged

WaitCall ==
    /\ caller = "idle" /\ calls < MaxCalls
    /\ face.surface = "native" /\ typed = "Disconnected"
    /\ caller' = "waiting" /\ calls' = calls + 1
    /\ UNCHANGED <<typed, cmds, events, unpolled>> /\ CallerUnchanged

\* One event seen while waiting: Connected changes the type, Rejected ends
\* the wait, anything else is dropped and the wait goes on.
WaitEvent ==
    /\ caller = "waiting"
    /\ \E e \in Kinds :
          /\ Polled(e)
          /\ typed' = IF e = "connected" THEN "Connected" ELSE typed
          /\ caller' = IF e \in {"connected", "rejected"} THEN "idle" ELSE "waiting"
    /\ UNCHANGED <<cmds, calls>> /\ CallerUnchanged

\* The budget is used up, or the client has stopped.
WaitEnds ==
    /\ caller = "waiting"
    /\ caller' = "idle"
    /\ UNCHANGED <<typed, cmds, events, unpolled, calls>> /\ CallerUnchanged

(***************************************************************************)
(* The pump thread: one event at a time to the callback, which uses the    *)
(* bridge in the JNI face.                                                 *)
(***************************************************************************)
PumpUnchanged == UNCHANGED <<appVars, taskVars, envVars, caller, cmds, receiver, unpolled, shutdown>>

PumpReceives ==
    /\ pump = "recv" /\ events # << >>
    /\ batch' = normalize(Head(events)) /\ events' = Tail(events)
    /\ pump' = "batch"
    /\ PumpUnchanged

PumpCalls ==
    /\ pump = "batch"
    /\ pump' = IF batch = << >> THEN "recv" ELSE "callback"
    /\ UNCHANGED <<events, batch>> /\ PumpUnchanged

PumpFrees ==
    /\ pump = "callback"
    /\ pump' = "batch" /\ batch' = Tail(batch)
    /\ UNCHANGED events /\ PumpUnchanged

\* The channel is closed and empty: the client's task dropped the sender.
PumpEnds ==
    /\ pump = "recv" /\ events = << >> /\ task = "gone"
    /\ pump' = "done"
    /\ UNCHANGED <<events, batch>> /\ PumpUnchanged

PumpStep == PumpReceives \/ PumpCalls \/ PumpFrees \/ PumpEnds

(***************************************************************************)
(* destroy: trigger, join the pump, drop the runtime (which cancels the    *)
(* task wherever it waits), and in the JNI face free the bridge.           *)
(***************************************************************************)
CloseUnchanged == UNCHANGED <<face, typed, cmds, events, unpolled, batch, serverUp, calls,
                              frames, outages>>

DestroyCall ==
    /\ caller = "idle"
    /\ caller' = "closing" /\ shutdown' = TRUE
    /\ UNCHANGED <<receiver, pump, bridge, task, emit>> /\ CloseUnchanged

\* A join left out.
PumpJoined_Not == TRUE

PumpJoined == pump \in {"none", "done"}

DestroyJoins ==
    /\ caller = "closing" /\ PumpJoined
    /\ task' = "gone" /\ emit' = NoEmit
    /\ receiver' = "dropped"
    /\ caller' = "destroyed"
    /\ UNCHANGED <<shutdown, pump, bridge>> /\ CloseUnchanged

DestroyReturns ==
    /\ caller = "destroyed"
    /\ bridge' = IF bridge = "held" THEN "freed" ELSE bridge
    /\ caller' = "closed"
    /\ UNCHANGED <<shutdown, pump, receiver, task, emit>> /\ CloseUnchanged

ServerToggles ==
    /\ serverUp => outages < MaxOutages
    /\ serverUp' = ~serverUp
    /\ outages' = IF serverUp THEN outages + 1 ELSE outages
    /\ UNCHANGED <<appVars, taskVars, caller, cmds, events, receiver, unpolled, pump, batch, shutdown>>

SdkInit ==
    /\ face = [surface |-> "none", callback |-> FALSE]
    /\ caller = "none" /\ typed = "Disconnected"
    /\ cmds = 0 /\ events = << >> /\ receiver = "dropped" /\ unpolled = << >>
    /\ pump = "none" /\ batch = << >> /\ bridge = "none" /\ shutdown = FALSE
    /\ task = "gone" /\ emit = NoEmit
    /\ serverUp \in BOOLEAN
    /\ calls = 0 /\ frames = 0 /\ outages = 0

\* What a call that was started does by itself.
CallStep ==
    \/ SendReturns \/ PollReturns \/ WaitEvent \/ WaitEnds
    \/ DestroyJoins \/ DestroyReturns

SdkNext ==
    \/ \E f \in Faces : Create(f)
    \/ SendCall \/ PollCall \/ WaitCall \/ DestroyCall
    \/ CallStep \/ PumpStep \/ ClientStep
    \/ ServerToggles

\* The task, the pump and a started call run whenever they can; nothing is
\* assumed of the server or of what the caller calls next.
SdkFairness ==
    /\ WF_sdkVars(ClientStep)
    /\ WF_sdkVars(LoopStops)
    /\ WF_sdkVars(PumpStep)
    /\ WF_sdkVars(CallStep)

SdkSpec == SdkInit /\ [][SdkNext]_sdkVars /\ SdkFairness

(***************************************************************************)
(* Properties.                                                             *)
(***************************************************************************)
\* The pump thread never runs with a freed bridge, on every path to the end of
\* a client: destroy by the caller, a refused handshake, a pump that could not
\* be started (jni.rs nativeClose, nativeCreate; core.rs destroy).
BridgeOutlivesPump == pump \in {"recv", "batch", "callback"} => bridge # "freed"

\* With a server that stays reachable from some point on, every call returns:
\* destroy in every mode, and send in the callback mode, although both
\* channels are bounded and the pump, the task and the caller wait for each
\* other (core.rs send, destroy; ffi.rs pump_loop).
CallsReturn ==
    <>[]serverUp =>
        /\ []<>~(caller = "sending" /\ face.callback)
        /\ []<>(caller \notin {"closing", "destroyed"})
=============================================================================
