------------------------------ MODULE Snowflake ------------------------------
(***************************************************************************)
(* The global id generator of im-server: Snowflake::next_id                *)
(* (crates/im-server/src/snowflake.rs) behind the mutex of Sessions, and   *)
(* Sessions::next_id (session.rs), which the connection tasks call         *)
(* concurrently and which retries an exhausted millisecond.                *)
(*                                                                         *)
(* One generator per server instance (machine id); the instances of a      *)
(* deployment run at the same time on their own clocks.                    *)
(***************************************************************************)
EXTENDS Integers, Sequences, FiniteSets

CONSTANTS
  Machines,      \* machine ids of the deployed instances
  Callers,       \* tasks that may be inside Sessions::next_id on an instance
  MachineSpan,   \* 2^MACHINE_BITS, 1024 in the code
  SequenceSpan,  \* 2^SEQUENCE_BITS, 4096 in the code
  Attempts,      \* ID_RETRY_ATTEMPTS, 3 in the code
  MaxMs,         \* bound: the clocks stay in 0..MaxMs
  MaxIssued      \* bound: ids asked for per instance

ASSUME SpanAssumption ==
  /\ MachineSpan \in Nat \ {0}
  /\ SequenceSpan \in Nat \ {0}
  /\ Machines \subseteq 0..(MachineSpan - 1)
  /\ Attempts \in Nat \ {0}
  /\ MaxMs \in Nat
  /\ MaxIssued \in Nat

VARIABLES
  clock,     \* clock[m]: what now_ms() returns on instance m
  last_ms,   \* last_ms[m]: millisecond of the last id, -1 for None
  sequence,  \* sequence[m]: sequence number used last in last_ms[m]
  left,      \* left[m][c]: attempts caller c has left, 0 when it is not calling
  issued     \* history: ids handed out by instance m, oldest first

vars == <<clock, last_ms, sequence, left, issued>>

MAX_SEQUENCE == SequenceSpan - 1

\* Mutant: the machine field forgotten.
assemble_NoMachine(timestamp, machine_id, seq) ==
  timestamp * (MachineSpan * SequenceSpan) + seq

\* (timestamp << 22) | (machine_id << 12) | sequence: the fields do not overlap
\* as long as each one fits its width, so the or is a sum.
assemble(timestamp, machine_id, seq) ==
  timestamp * (MachineSpan * SequenceSpan) + (machine_id * SequenceSpan + seq)

Init ==
  /\ clock \in [Machines -> 0..MaxMs]
  /\ last_ms = [m \in Machines |-> -1]
  /\ sequence = [m \in Machines |-> 0]
  /\ left = [m \in Machines |-> [c \in Callers |-> 0]]
  /\ issued = [m \in Machines |-> << >>]

(***************************************************************************)
(* Snowflake::next_id, one critical section of the mutex: the guards of    *)
(* its three outcomes.                                                     *)
(***************************************************************************)
\* Mutant: the check dropped.
ClockMovedBackwards_Never(m) == FALSE
ClockMovedBackwards(m) == clock[m] < last_ms[m]

SequenceExhausted(m) == clock[m] = last_ms[m] /\ sequence[m] = MAX_SEQUENCE

\* The sequence number next_id uses when it succeeds.
NextSequence(m) == IF clock[m] = last_ms[m] THEN sequence[m] + 1 ELSE 0

IssueId(m) ==
  /\ ~ClockMovedBackwards(m)
  /\ ~SequenceExhausted(m)
  /\ last_ms' = [last_ms EXCEPT ![m] = clock[m]]
  /\ sequence' = [sequence EXCEPT ![m] = NextSequence(m)]
  /\ issued' = [issued EXCEPT ![m] =
                  Append(@, assemble(clock[m], m, NextSequence(m)))]

\* The callers of instance m that are inside Sessions::next_id.
Calling(m) == {c \in Callers : left[m][c] > 0}

(***************************************************************************)
(* Sessions::next_id: up to Attempts tries; an exhausted millisecond is    *)
(* slept out, a clock that moved back ends the call with None.             *)
(***************************************************************************)
Call(m, c) ==
  /\ left[m][c] = 0
  /\ Len(issued[m]) + Cardinality(Calling(m)) < MaxIssued
  /\ left' = [left EXCEPT ![m][c] = Attempts]
  /\ UNCHANGED <<clock, last_ms, sequence, issued>>

Succeed(m, c) ==
  /\ left[m][c] > 0
  /\ IssueId(m)
  /\ left' = [left EXCEPT ![m][c] = 0]
  /\ UNCHANGED clock

\* Mutant: a retry that is not counted.
Retry_Uncounted(m, c) ==
  /\ left[m][c] > 0
  /\ SequenceExhausted(m)
  /\ UNCHANGED vars

Retry(m, c) ==
  /\ left[m][c] > 0
  /\ SequenceExhausted(m)
  /\ left' = [left EXCEPT ![m][c] = @ - 1]
  /\ UNCHANGED <<clock, last_ms, sequence, issued>>

GiveUp(m, c) ==
  /\ left[m][c] > 0
  /\ ClockMovedBackwards(m)
  /\ left' = [left EXCEPT ![m][c] = 0]
  /\ UNCHANGED <<clock, last_ms, sequence, issued>>

\* The wall clock is not ours: it ticks, and it may be set back or forward.
SetClock(m, t) ==
  /\ t # clock[m]
  /\ clock' = [clock EXCEPT ![m] = t]
  /\ UNCHANGED <<last_ms, sequence, left, issued>>

Next ==
  \E m \in Machines :
    \/ \E c \in Callers : Call(m, c) \/ Succeed(m, c) \/ Retry(m, c) \/ GiveUp(m, c)
    \/ \E t \in 0..MaxMs : SetClock(m, t)

Spec == Init /\ [][Next]_vars

\* A task inside next_id is runnable: its lock is held for microseconds and its
\* sleep ends, so it takes its next step.
Fairness ==
  \A m \in Machines, c \in Callers :
    WF_vars(Succeed(m, c) \/ Retry(m, c) \/ GiveUp(m, c))

FairSpec == Spec /\ Fairness
-----------------------------------------------------------------------------
TypeOK ==
  /\ clock \in [Machines -> 0..MaxMs]
  /\ last_ms \in [Machines -> -1..MaxMs]
  /\ sequence \in [Machines -> 0..MAX_SEQUENCE]
  /\ left \in [Machines -> [Callers -> 0..Attempts]]
  /\ issued \in [Machines -> Seq(Nat)]

(***************************************************************************)
(* Ids of one instance are issued in strictly increasing order, whatever   *)
(* the clock does and however the calls of the connection tasks interleave *)
(* (snowflake.rs: "sorting by id is sorting by time").                     *)
(***************************************************************************)
IdsIncrease ==
  \A m \in Machines : \A i, j \in 1..Len(issued[m]) :
    i < j => issued[m][i] < issued[m][j]

(***************************************************************************)
(* Two instances never issue the same id, although they share no state     *)
(* (snowflake.rs: the machine field keeps the ids of one millisecond       *)
(* apart).                                                                 *)
(***************************************************************************)
MachinesDisjoint ==
  \A m, n \in Machines : m # n =>
    \A i \in 1..Len(issued[m]), j \in 1..Len(issued[n]) :
      issued[m][i] # issued[n][j]

\* A call of Sessions::next_id returns, with an id or None: an exhausted
\* millisecond or a clock set back never keeps a connection task waiting for ever.
CallReturns ==
  \A m \in Machines, c \in Callers : []<>(left[m][c] = 0)
=============================================================================
