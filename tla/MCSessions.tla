----------------------------- MODULE MCSessions -----------------------------
(***************************************************************************)
(* The session core with two users whose clients send what they like.      *)
(***************************************************************************)
EXTENDS Sessions

\* Logins (one with a bad token), messages to bob, pulls.
MCFrames ==
  {HandshakeFrame("alice", TRUE), HandshakeFrame("bob", TRUE),
   HandshakeFrame("bob", FALSE), MsgFrame("bob", 1), SyncReqFrame(0)}
=============================================================================
