------------------------------ MODULE KVStore -------------------------------
(***************************************************************************)
(* What the storage engine of im-storage promises its caller: a map that   *)
(* changes by the puts and deletes of the caller and by nothing else, no   *)
(* crash, recovery, sealing or compaction included (engine.rs: "confirmed  *)
(* writes are not lost, unfinished ones are dropped"; "the newest wins").  *)
(* The calls are numbered so that every change is that of a call.          *)
(***************************************************************************)
EXTENDS Naturals

CONSTANTS Keys, Values, None, Nil

VARIABLES kv, call

Init ==
  /\ kv = [k \in Keys |-> Nil]
  /\ call = [n |-> 0, key |-> None, record |-> None]

\* put(k, v) is Write(k, v), delete(k) is Write(k, Nil).
Write(k, r) ==
  /\ call' = [n |-> call.n + 1, key |-> k, record |-> r]
  /\ kv' = [kv EXCEPT ![k] = r]

Next == \E k \in Keys, r \in Values \cup {Nil} : Write(k, r)

Spec == Init /\ [][Next]_<<kv, call>>
=============================================================================
