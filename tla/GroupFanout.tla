---------------------------- MODULE GroupFanout -----------------------------
(***************************************************************************)
(* Group fan-out of im-server (crates/im-server/src/web/fanout.rs, with    *)
(* add_member of groups.rs and its handler in api.rs), for one group: the  *)
(* tasks of sending connections in route, the REST handler that adds a     *)
(* member, and the actors that copy each message to every member.          *)
(*                                                                         *)
(* A GroupHub is its table of actors, and a clone copies the table.        *)
(* AppState::new gives the session core a clone of the hub and keeps the   *)
(* original, with a table of its own, for the REST handlers; the tests of  *)
(* fanout.rs use one hub for both.                                         *)
(***************************************************************************)
EXTENDS Naturals, Sequences, FiniteSets

CONSTANTS
  Users,      \* user ids, ordered: the member list is sorted by them
  Owner,      \* creator of the group
  Senders,    \* members that send
  MaxMsgs,    \* bound: messages to the group
  MaxActors,  \* bound: actors (each sender spawns at most one at a time)
  INBOX,      \* ACTOR_INBOX_CAPACITY, 256 in the code
  Wirings,    \* TRUE: REST has a table of its own, FALSE: one table for all
  DbMayFail   \* whether list_members may fail

ASSUME GroupAssumption ==
  /\ Users \subseteq Nat /\ Owner \in Users /\ Senders \subseteq Users
  /\ MaxMsgs \in Nat /\ MaxActors \in Nat \ {0} /\ INBOX \in Nat \ {0}
  /\ Wirings \subseteq BOOLEAN /\ DbMayFail \in BOOLEAN

NoActor == 0
Actors == 1..MaxActors
Msgs == 1..MaxMsgs
Invalidate == 0   \* the job Invalidate in an inbox; a Fanout job is its message

VARIABLES
  db,       \* group_members, the truth about the group
  table,    \* the actor of the group in each hub there is
  spawned,  \* actors spawned so far
  members,  \* members[a]: the snapshot of actor a
  dirty,    \* dirty[a]
  inbox,    \* inbox[a]
  current,  \* current[a]: message being copied, 0 for none
  left,     \* left[a]: members that are still to get it
  route,    \* route[s]: the task of sender s
  adding,   \* members in the table whose handler has yet to invalidate
  sent,     \* messages sent so far, numbered in the order of route
  from,     \* from[n]: sender of message n
  joined,   \* history: members whose add_member has been answered
  promised, \* history: promised[n]: joined when n was sent
  tried,    \* history: tried[n]: members for which fanout_one was called
  got,      \* got[u]: messages put into the channel of u
  stray,    \* messages that fell back to single chat
  raced,    \* history: two tasks have loaded a first snapshot at once
  stale,    \* history: joined members a snapshot misses for good
  unheard   \* history: members whose addition no actor was told of

vars == <<db, table, spawned, members, dirty, inbox, current, left, route,
          adding, sent, from, joined, promised, tried, got, stray,
          raced, stale, unheard>>
missed == <<stale, unheard>>
actorVars == <<members, dirty, current, left, tried, got>>

Idle == [pc |-> "idle"]

\* The hub set_group_router has given the session core, and the one REST uses.
HookedHub == "router"
RestHub == IF "web" \in DOMAIN table THEN "web" ELSE HookedHub

Init ==
  /\ db = Senders \cup {Owner}
  /\ spawned = 0
  /\ \E cloned \in Wirings :
       table = [h \in (IF cloned THEN {HookedHub, "web"} ELSE {HookedHub}) |-> NoActor]
  /\ members = [a \in Actors |-> {}]
  /\ dirty = [a \in Actors |-> FALSE]
  /\ inbox = [a \in Actors |-> << >>]
  /\ current = [a \in Actors |-> 0]
  /\ left = [a \in Actors |-> {}]
  /\ route = [s \in Senders |-> Idle]
  /\ adding = {}
  /\ sent = 0
  /\ from = [n \in Msgs |-> Owner]
  /\ joined = Senders \cup {Owner}
  /\ promised = [n \in Msgs |-> {}]
  /\ tried = [n \in Msgs |-> {}]
  /\ got = [u \in Users |-> << >>]
  /\ stray = {}
  /\ raced = FALSE
  /\ stale = {} /\ unheard = {}

(***************************************************************************)
(* GroupHub::route, in the task of a sending connection.                   *)
(***************************************************************************)
Loading(s) == route[s].pc \in {"load", "spawn"}

\* A lookup that never finds the actor.
RouteLookup_Miss(s) ==
  /\ route[s] = Idle
  /\ sent < MaxMsgs /\ sent' = sent + 1
  /\ from' = [from EXCEPT ![sent + 1] = s]
  /\ promised' = [promised EXCEPT ![sent + 1] = joined \ {s}]
  /\ route' = [route EXCEPT ![s] = [pc |-> "load", msg |-> sent + 1]]
  /\ raced' = (raced \/ \E t \in Senders : Loading(t))
  /\ UNCHANGED <<missed, db, table, spawned, actorVars, inbox, adding, joined, stray>>

\* Look the actor up. Hit: enqueue. Miss: load the members.
RouteLookup(s) ==
  /\ route[s] = Idle
  /\ sent < MaxMsgs /\ sent' = sent + 1
  /\ from' = [from EXCEPT ![sent + 1] = s]
  /\ promised' = [promised EXCEPT ![sent + 1] = joined \ {s}]
  /\ route' = [route EXCEPT ![s] =
       IF table[HookedHub] # NoActor
       THEN [pc |-> "enqueue", msg |-> sent + 1, actor |-> table[HookedHub]]
       ELSE [pc |-> "load", msg |-> sent + 1]]
  /\ raced' = (raced \/ \E t \in Senders : Loading(t))
  /\ UNCHANGED <<missed, db, table, spawned, actorVars, inbox, adding, joined, stray>>

\* list_members answers: a snapshot, or no member or an error, which sends the
\* message down the path of single chat.
RouteLoad(s) ==
  /\ route[s].pc = "load"
  /\ \/ /\ db # {}
        /\ route' = [route EXCEPT ![s] =
             [pc |-> "spawn", msg |-> route[s].msg, members |-> db]]
        /\ UNCHANGED stray
     \/ /\ db = {} \/ DbMayFail
        /\ route' = [route EXCEPT ![s] = Idle]
        /\ stray' = stray \cup {route[s].msg}
  /\ UNCHANGED <<db, table, spawned, actorVars, inbox, adding, sent, from, joined, promised,
                 raced, missed>>

\* spawn_actor: start the actor, put it into the table.
RouteSpawn(s) ==
  /\ route[s].pc = "spawn"
  /\ spawned < MaxActors /\ spawned' = spawned + 1
  /\ members' = [members EXCEPT ![spawned + 1] = route[s].members]
  /\ table' = [table EXCEPT ![HookedHub] = spawned + 1]
  /\ route' = [route EXCEPT ![s] =
       [pc |-> "enqueue", msg |-> route[s].msg, actor |-> spawned + 1]]
  /\ stale' = stale \cup (joined \ route[s].members)
  /\ UNCHANGED <<unheard, raced, db, dirty, inbox, current, left, tried, got, adding, sent,
                 from, joined, promised, stray>>

\* An enqueue that gives up on a full inbox.
RouteEnqueue_TrySend(s) ==
  /\ route[s].pc = "enqueue"
  /\ LET a == route[s].actor IN
       inbox' = IF Len(inbox[a]) < INBOX
                THEN [inbox EXCEPT ![a] = Append(@, route[s].msg)] ELSE inbox
  /\ route' = [route EXCEPT ![s] = Idle]
  /\ UNCHANGED <<db, table, spawned, actorVars, adding, sent, from, joined, promised, stray, raced, missed>>

\* enqueue: wait for room in the inbox.
RouteEnqueue(s) ==
  /\ route[s].pc = "enqueue"
  /\ Len(inbox[route[s].actor]) < INBOX
  /\ inbox' = [inbox EXCEPT ![route[s].actor] = Append(@, route[s].msg)]
  /\ route' = [route EXCEPT ![s] = Idle]
  /\ UNCHANGED <<db, table, spawned, actorVars, adding, sent, from, joined, promised, stray, raced, missed>>

(***************************************************************************)
(* add_group_member: the row first, then the invalidation.                 *)
(***************************************************************************)
AddMember(u) ==
  /\ u \notin db
  /\ db' = db \cup {u}
  /\ adding' = adding \cup {u}
  /\ UNCHANGED <<table, spawned, actorVars, inbox, route, sent, from, joined, promised, stray,
                 raced, missed>>

\* An answer before the invalidation is sent.
InvalidateHub_Skip(u) ==
  /\ u \in adding
  /\ adding' = adding \ {u}
  /\ joined' = joined \cup {u}
  /\ UNCHANGED <<db, table, spawned, actorVars, inbox, route, sent, from, promised, stray, raced, missed>>

\* invalidate: a try_send to the actor in the table of the REST side, if any.
\* A full inbox drops the signal; an actor in another table hears nothing.
InvalidateHub(u) ==
  /\ u \in adding
  /\ adding' = adding \ {u}
  /\ joined' = joined \cup {u}
  /\ LET a == table[RestHub] IN
       \/ /\ a # NoActor /\ Len(inbox[a]) < INBOX
          /\ inbox' = [inbox EXCEPT ![a] = Append(@, Invalidate)]
          /\ UNCHANGED missed
       \/ /\ a # NoActor /\ Len(inbox[a]) = INBOX
          /\ stale' = stale \cup {u}
          /\ UNCHANGED <<inbox, unheard>>
       \/ /\ a = NoActor
          /\ unheard' = IF table[HookedHub] = NoActor THEN unheard ELSE unheard \cup {u}
          /\ UNCHANGED <<inbox, stale>>
  /\ UNCHANGED <<db, table, spawned, actorVars, route, sent, from, promised, stray, raced>>

(***************************************************************************)
(* actor_loop                                                              *)
(***************************************************************************)
ActorTakes(a) ==
  /\ current[a] = 0
  /\ inbox[a] # << >>
  /\ inbox' = [inbox EXCEPT ![a] = Tail(@)]

ActorInvalidate(a) ==
  /\ ActorTakes(a)
  /\ Head(inbox[a]) = Invalidate
  /\ dirty' = [dirty EXCEPT ![a] = TRUE]
  /\ UNCHANGED <<db, table, spawned, members, current, left, route, adding,
                 sent, from, joined, promised, tried, got, stray, raced, missed>>

\* A Fanout job: reload a dirty snapshot (a failure keeps the old one and
\* clears the mark all the same), then go through the members.
ActorFanout(a) ==
  /\ ActorTakes(a)
  /\ Head(inbox[a]) # Invalidate
  /\ current' = [current EXCEPT ![a] = Head(inbox[a])]
  /\ \/ ~dirty[a] /\ UNCHANGED <<members, stale>>
     \/ dirty[a] /\ members' = [members EXCEPT ![a] = db] /\ UNCHANGED stale
     \/ /\ dirty[a] /\ DbMayFail /\ UNCHANGED members
        /\ stale' = stale \cup (joined \ members[a])
  /\ dirty' = [dirty EXCEPT ![a] = FALSE]
  /\ left' = [left EXCEPT ![a] = members'[a]]
  /\ UNCHANGED <<db, table, spawned, route, adding, sent, from, joined, promised,
                 tried, got, stray, raced, unheard>>

\* The next member of the snapshot.
NextMember(a) == CHOOSE u \in left[a] : \A v \in left[a] : u <= v

\* Into the channel of an online member; skipped because the channel is full;
\* kept in the offline queue because the member is off line or its channel closed.
FanoutOutcome == {"Delivered", "Skipped", "Offline"}

\* fanout_one: what happens to the copy of message n for member u.
fanout_one(n, u) ==
  /\ tried' = [tried EXCEPT ![n] = @ \cup {u}]
  /\ \E outcome \in FanoutOutcome :
       got' = IF outcome = "Delivered" THEN [got EXCEPT ![u] = Append(@, n)] ELSE got

\* The next member; the sender is passed over. No await: other actors run on
\* other threads.
ActorCopy(a) ==
  /\ current[a] # 0
  /\ left[a] # {}
  /\ LET u == NextMember(a)
         n == current[a]
     IN  /\ left' = [left EXCEPT ![a] = @ \ {u}]
         /\ \/ u = from[n] /\ UNCHANGED <<tried, got>>
            \/ u # from[n] /\ fanout_one(n, u)
  /\ UNCHANGED <<db, table, spawned, members, dirty, inbox, current, route,
                 adding, sent, from, joined, promised, stray, raced, missed>>

ActorDone(a) ==
  /\ current[a] # 0
  /\ left[a] = {}
  /\ current' = [current EXCEPT ![a] = 0]
  /\ UNCHANGED <<db, table, spawned, members, dirty, inbox, left, route,
                 adding, sent, from, joined, promised, tried, got, stray, raced, missed>>

ActorStep(a) ==
  ActorInvalidate(a) \/ ActorFanout(a) \/ ActorCopy(a) \/ ActorDone(a)

RouteStep(s) == RouteLoad(s) \/ RouteSpawn(s) \/ RouteEnqueue(s)

Next ==
  \/ \E s \in Senders : RouteLookup(s) \/ RouteStep(s)
  \/ \E u \in Users : AddMember(u) \/ InvalidateHub(u)
  \/ \E a \in Actors : ActorStep(a)

Spec == Init /\ [][Next]_vars

\* Tasks that can proceed are polled: senders waiting for room, and actors.
FairSpec ==
  /\ Spec
  /\ \A s \in Senders : WF_vars(RouteStep(s))
  /\ \A a \in Actors : WF_vars(ActorStep(a))
-----------------------------------------------------------------------------
\* Message n has been copied to its last member.
Finished(n) ==
  /\ n <= sent /\ n \notin stray
  /\ \A s \in Senders : route[s] # Idle => route[s].msg # n
  /\ \A a \in Actors :
       /\ current[a] # n
       /\ \A i \in 1..Len(inbox[a]) : inbox[a][i] # n

(***************************************************************************)
(* A member whose addition was answered before a message was sent gets     *)
(* that message, unless a snapshot misses that very member for good: its   *)
(* signal met a full inbox, or the snapshot was loaded before the member   *)
(* joined and registered after, or its reload failed (stale), or the       *)
(* signal went to a table without the actor (unheard). Invalidation,       *)
(* reload and fan-out have no other gap, under either wiring.              *)
(***************************************************************************)
ServedBut(excepted) ==
  \A n \in Msgs : Finished(n) => promised[n] \ excepted \subseteq tried[n]
ServedUnlessStale == ServedBut(stale \cup unheard)

(***************************************************************************)
(* All members see the messages of a group in one order, and none twice,   *)
(* whatever is skipped for slow or absent members (fanout.rs: the order    *)
(* seen = the order of the actor), unless first messages raced.            *)
(***************************************************************************)
Before(u, m, n) ==
  \E i, j \in 1..Len(got[u]) : i < j /\ got[u][i] = m /\ got[u][j] = n
OneOrder ==
  ~raced =>
    \A u, v \in Users, m, n \in Msgs : Before(u, m, n) => ~Before(v, n, m)

(***************************************************************************)
(* A message the hub has taken over is copied to the members in the end:   *)
(* a full inbox makes its sender wait and loses nothing.                   *)
(***************************************************************************)
TakenIsCopied ==
  \A n \in Msgs : []<>(n <= sent => n \in stray \/ (Finished(n) /\ tried[n] # {}))
=============================================================================
