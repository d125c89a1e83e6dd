------------------------------ MODULE Friends ------------------------------
(***************************************************************************)
(* The friend store (web/friends.rs) and its REST handlers (web/api.rs):   *)
(* friend requests, the undirected friendship edges, and the transactions  *)
(* that keep the two tables in step when handlers race.                    *)
(*                                                                         *)
(* The database is external.  It is modelled from how the code uses it:    *)
(* READ COMMITTED transactions whose UPDATE, DELETE and INSERT lock rows   *)
(* until they end.  A statement that meets a row locked by another         *)
(* transaction waits, which is a disabled action here; FriendDbError is    *)
(* the lost connection as well as the victim of a deadlock between two     *)
(* transactions.  A commit whose reply is lost takes effect and answers    *)
(* 500.                                                                    *)
(***************************************************************************)
EXTENDS Naturals

CONSTANTS People,          \* user ids that requests may name
          Registered,      \* the ones with a row in users
          FriendTasks,     \* handler tasks that may run at once
          MaxRequestIds,   \* bound: ids the generator hands out
          MaxFriendCalls   \* bound: handler calls

ASSUME FriendsAssumption == /\ People \subseteq Nat
                            /\ Registered \subseteq People
                            /\ MaxRequestIds \in Nat
                            /\ MaxFriendCalls \in Nat

VARIABLES requests,  \* friend_requests: rows [id, from, to, status]
          edges,     \* friends: rows <<user_a, user_b>> with user_a < user_b
          fcalls,    \* the handler each task runs
          lastId,    \* last request id handed out
          called     \* handler calls so far

friendVars == <<requests, edges, fcalls, lastId, called>>

Pairs == {p \in People \X People : p[1] # p[2]}
Edges == {p \in People \X People : p[1] < p[2]}
Requests == [id : 1..MaxRequestIds, from : Registered, to : Registered,
             status : {"pending", "accepted", "rejected"}]

\* A handler call: where it is, its user and arguments, the request rows and
\* the edge its transaction has locked, the rows its DELETE has in view, and
\* the HTTP status it answers with.
Idle == [at |-> "idle", me |-> 0, other |-> 0, id |-> 0,
         rows |-> {}, edge |-> {}, view |-> {}, code |-> 0]

\* The smaller id comes first, whoever asks.
Edge(a, b) == IF a < b THEN <<a, b>> ELSE <<b, a>>
is_friend(a, b) == Edge(a, b) \in edges

Between(a, b) == {r \in requests : {r.from, r.to} = {a, b}}
RowFree(t, r) == \A s \in FriendTasks \ {t} : r.id \notin fcalls[s].rows
EdgeFree(t, e) == \A s \in FriendTasks \ {t} : e \notin fcalls[s].edge

FriendsInit ==
    /\ requests = {}
    /\ edges = {}
    /\ fcalls = [t \in FriendTasks |-> Idle]
    /\ lastId = 0
    /\ called = 0

\* The handler answers: its transaction is over and its locks are gone.
Answers(t, code) ==
    fcalls' = [fcalls EXCEPT ![t] = [Idle EXCEPT !.at = "answered", !.code = code]]

Starts(t, call) ==
    /\ fcalls[t].at \in {"idle", "answered"}
    /\ called < MaxFriendCalls
    /\ called' = called + 1
    /\ fcalls' = [fcalls EXCEPT ![t] = call]
    /\ UNCHANGED <<requests, edges, lastId>>

At(t, label) == fcalls[t].at = label

-----------------------------------------------------------------------------
(* POST /api/friends/requests *)

CreateRequest(t, me, to) ==
    Starts(t, IF me = to \/ to \notin Registered
              THEN [Idle EXCEPT !.at = "answered", !.code = IF me = to THEN 400 ELSE 404]
              ELSE [Idle EXCEPT !.at = "number", !.me = me, !.other = to])

\* The id generator may refuse; then nothing is written.
NumberRequest(t) ==
    /\ At(t, "number")
    /\ \/ /\ Answers(t, 503)
          /\ UNCHANGED lastId
       \/ /\ lastId < MaxRequestIds
          /\ lastId' = lastId + 1
          /\ fcalls' = [fcalls EXCEPT ![t].at = "upsert", ![t].id = lastId + 1]
    /\ UNCHANGED <<requests, edges, called>>

\* INSERT ... ON CONFLICT (from_user, to_user) DO UPDATE SET status = 'pending'.
UpsertRequest(t) ==
    LET c == fcalls[t]
        same == {r \in requests : r.from = c.me /\ r.to = c.other}
    IN /\ At(t, "upsert")
       /\ \A r \in same : RowFree(t, r)
       /\ requests' = (requests \ same) \cup
             IF same = {} THEN {[id |-> c.id, from |-> c.me, to |-> c.other,
                                 status |-> "pending"]}
                          ELSE {[r EXCEPT !.status = "pending"] : r \in same}
       /\ fcalls' = [fcalls EXCEPT ![t] = [Idle EXCEPT !.at = "names", !.code = 201]]
       /\ UNCHANGED <<edges, lastId, called>>

\* The names of both ends for the answer; a failed look-up answers 404 although
\* the request is stored.
fetch_usernames(t) ==
    /\ At(t, "names")
    /\ \/ Answers(t, 404)
       \/ fcalls' = [fcalls EXCEPT ![t].at = "notify"]
    /\ UNCHANGED <<requests, edges, lastId, called>>

create_request(t) == NumberRequest(t) \/ UpsertRequest(t) \/ fetch_usernames(t)

\* The other end is told by an event (WsLoop!PushEvent) once the transaction is
\* over and its locks are gone; then the handler answers.
Notify(t) ==
    /\ At(t, "notify")
    /\ Answers(t, fcalls[t].code)
    /\ UNCHANGED <<requests, edges, lastId, called>>

-----------------------------------------------------------------------------
(* POST /api/friends/requests/{id}/accept and .../reject *)

\* The rows a conditional UPDATE by receiver `me` of request `id` touches.
Pending(id, me) == {r \in requests : r.id = id /\ r.to = me /\ r.status = "pending"}

AcceptCall(t, me, id) ==
    Starts(t, [Idle EXCEPT !.at = "update", !.me = me, !.id = id])

AcceptUpdate(t) ==
    LET c == fcalls[t]
        hit == Pending(c.id, c.me)
    IN /\ At(t, "update")
       /\ \/ /\ hit = {}
             /\ Answers(t, 404)
          \/ \E r \in hit :
                /\ RowFree(t, r)
                /\ fcalls' = [fcalls EXCEPT ![t].at = "insert", ![t].other = r.from,
                                            ![t].rows = {r.id}]
       /\ UNCHANGED <<requests, edges, lastId, called>>

\* INSERT ... ON CONFLICT DO NOTHING: an edge that is there is left alone, and
\* not locked.
AcceptInsert(t) ==
    LET e == Edge(fcalls[t].me, fcalls[t].other)
    IN /\ At(t, "insert")
       /\ EdgeFree(t, e)
       /\ fcalls' = [fcalls EXCEPT ![t].at = "commit",
                                   ![t].edge = IF e \in edges THEN {} ELSE {e}]
       /\ UNCHANGED <<requests, edges, lastId, called>>

\* What the transaction wrote stands, also when its reply, or the look-up of
\* the user to notify, is lost.
AfterCommit(t) ==
    \/ fcalls' = [fcalls EXCEPT ![t] = [Idle EXCEPT !.at = "notify", !.code = 200]]
    \/ Answers(t, 500)

AcceptCommit(t) ==
    LET c == fcalls[t]
    IN /\ At(t, "commit")
       /\ requests' = {IF r.id \in c.rows THEN [r EXCEPT !.status = "accepted"] ELSE r
                          : r \in requests}
       /\ edges' = edges \cup c.edge
       /\ AfterCommit(t)
       /\ UNCHANGED <<lastId, called>>

accept_request(t) == AcceptUpdate(t) \/ AcceptInsert(t) \/ AcceptCommit(t)

\* One statement, so one step: the whole of reject_request.
RejectRequest(t, me, id) ==
    LET hit == Pending(id, me)
    IN /\ \A r \in hit : RowFree(t, r)
       /\ fcalls[t].at \in {"idle", "answered"}
       /\ called < MaxFriendCalls
       /\ called' = called + 1
       /\ requests' = (requests \ hit) \cup {[r EXCEPT !.status = "rejected"] : r \in hit}
       /\ Answers(t, IF hit = {} THEN 404 ELSE 200)
       /\ UNCHANGED <<edges, lastId>>

-----------------------------------------------------------------------------
(* DELETE /api/friends/{user_id} *)

RemoveCall(t, me, other) ==
    Starts(t, [Idle EXCEPT !.at = "delete", !.me = me, !.other = other])

RemoveDelete(t) ==
    LET e == Edge(fcalls[t].me, fcalls[t].other)
    IN /\ At(t, "delete")
       /\ \/ /\ e \notin edges
             /\ Answers(t, 404)
          \/ /\ e \in edges
             /\ EdgeFree(t, e)
             /\ fcalls' = [fcalls EXCEPT ![t].at = "look", ![t].edge = {e}]
       /\ UNCHANGED <<requests, edges, lastId, called>>

\* Mutant of Purged: only what its comment calls leftover pending requests.
Purged_PendingOnly(a, b) == {r \in Between(a, b) : r.status = "pending"}

\* The rows the second DELETE names: both directions, whatever their status.
Purged(a, b) == Between(a, b)

\* The statement's snapshot: rows inserted after it are not deleted.
RemoveLook(t) ==
    LET c == fcalls[t]
    IN /\ At(t, "look")
       /\ fcalls' = [fcalls EXCEPT ![t].at = "purge",
                                   ![t].view = {r.id : r \in Purged(c.me, c.other)}]
       /\ UNCHANGED <<requests, edges, lastId, called>>

RemovePurge(t) ==
    LET c == fcalls[t]
        rows == {r \in requests : r.id \in c.view}
    IN /\ At(t, "purge")
       /\ \A r \in rows : RowFree(t, r)
       /\ fcalls' = [fcalls EXCEPT ![t].at = "close", ![t].rows = {r.id : r \in rows}]
       /\ UNCHANGED <<requests, edges, lastId, called>>

RemoveCommit(t) ==
    LET c == fcalls[t]
    IN /\ At(t, "close")
       /\ edges' = edges \ c.edge
       /\ requests' = {r \in requests : r.id \notin c.rows}
       /\ AfterCommit(t)
       /\ UNCHANGED <<lastId, called>>

remove_friend(t) == \/ RemoveDelete(t) \/ RemoveLook(t)
                    \/ RemovePurge(t) \/ RemoveCommit(t)

-----------------------------------------------------------------------------
\* A statement fails, or its transaction is the victim of a deadlock: rolled
\* back, answered 500.
FriendDbError(t) ==
    /\ fcalls[t].at \in {"upsert", "update", "insert", "commit",
                         "delete", "look", "purge", "close"}
    /\ Answers(t, 500)
    /\ UNCHANGED <<requests, edges, lastId, called>>

\* The lists the REST layer answers with.
pending_requests(u) == [incoming |-> {r \in requests : r.to = u /\ r.status = "pending"},
                        outgoing |-> {r \in requests : r.from = u /\ r.status = "pending"}]
list_friends(u) == {v \in Registered : v # u /\ is_friend(u, v)}

FriendsNext ==
    \E t \in FriendTasks :
       \/ \E me \in Registered :
             \/ \E other \in People : CreateRequest(t, me, other) \/ RemoveCall(t, me, other)
             \/ \E id \in 1..MaxRequestIds : AcceptCall(t, me, id) \/ RejectRequest(t, me, id)
       \/ create_request(t) \/ accept_request(t) \/ remove_friend(t) \/ Notify(t)
       \/ FriendDbError(t)

FriendsSpec == FriendsInit /\ [][FriendsNext]_friendVars

-----------------------------------------------------------------------------
\* The two tables agree at every commit, whatever races: an accepted request
\* stands beside its edge, one row at most per direction, edges are stored
\* smaller id first, a pending request is listed to both its ends, and the two
\* ends of a friendship list each other.
FriendTablesAgree ==
    /\ requests \subseteq Requests
    /\ edges \subseteq Edges
    /\ \A r \in requests : r.status = "accepted" => is_friend(r.from, r.to)
    /\ \A q, r \in requests : (q.from = r.from /\ q.to = r.to) \/ q.id = r.id => q = r
    /\ \A r \in requests : r.status = "pending" <=>
          r \in pending_requests(r.to).incoming \cap pending_requests(r.from).outgoing
    /\ \A u, v \in Registered : v \in list_friends(u) => u \in list_friends(v)
=============================================================================
