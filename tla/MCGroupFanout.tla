--------------------------- MODULE MCGroupFanout ----------------------------
(***************************************************************************)
(* A group of two senders that a third user may join.                      *)
(***************************************************************************)
EXTENDS GroupFanout

(***************************************************************************)
(* api.rs, add_group_member: the new member gets the next message of the   *)
(* group. Once the addition was answered and no stale snapshot is to blame,*)
(* every finished message has been copied to it.                           *)
(***************************************************************************)
NewMemberServed == ServedBut(stale)
=============================================================================
