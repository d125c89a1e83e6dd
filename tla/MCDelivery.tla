----------------------------- MODULE MCDelivery -----------------------------
(***************************************************************************)
(* A sender and a recipient, each with the client of im-client.            *)
(***************************************************************************)
EXTENDS Delivery

AliceToBob == {<<"alice", "bob">>}

(***************************************************************************)
(* client.rs, Rejected: no reconnection, a retry makes no sense. A client  *)
(* that stopped would be refused again.                                    *)
(***************************************************************************)
RetryWouldFail == \A u \in Users : phase[u] = "stopped" => router[u] # NoConn
=============================================================================
