------------------------- MODULE GroupFanoutProofs --------------------------
(***************************************************************************)
(* Proofs about module GroupFanout, for any number of users, senders,      *)
(* messages and actors, every capacity of an inbox, and a database that    *)
(* may fail at any time.                                                   *)
(***************************************************************************)
EXTENDS GroupFanout, WellFoundedInduction, TLAPS

RouteStates ==
  {Idle} \cup [pc : {"load"}, msg : Msgs]
         \cup [pc : {"spawn"}, msg : Msgs, members : SUBSET Users]
         \cup [pc : {"enqueue"}, msg : Msgs, actor : Actors]

Hubs == DOMAIN table

FanoutTypes ==
  /\ sent \in 0..MaxMsgs /\ spawned \in 0..MaxActors
  /\ db \subseteq Users /\ joined \subseteq db /\ adding \subseteq db
  /\ Hubs \in {{HookedHub}, {HookedHub, "web"}}
  /\ table \in [Hubs -> 0..MaxActors]
  /\ members \in [Actors -> SUBSET Users]
  /\ dirty \in [Actors -> BOOLEAN]
  /\ inbox \in [Actors -> Seq(0..MaxMsgs)]
  /\ current \in [Actors -> 0..MaxMsgs]
  /\ left \in [Actors -> SUBSET Users]
  /\ route \in [Senders -> RouteStates]
  /\ from \in [Msgs -> Users]
  /\ promised \in [Msgs -> SUBSET Users]
  /\ tried \in [Msgs -> SUBSET Users]
  /\ got \in [Users -> Seq(Msgs)]
  /\ stray \subseteq Msgs
  /\ raced \in BOOLEAN /\ stale \subseteq Users /\ unheard \subseteq Users

\* Only messages that were sent are anywhere.
Past ==
  /\ \A s \in Senders : route[s] # Idle => route[s].msg <= sent
  /\ \A a \in Actors : current[a] <= sent
  /\ \A a \in Actors : \A i \in 1..Len(inbox[a]) : inbox[a][i] <= sent
  /\ \A u \in Users : \A i \in 1..Len(got[u]) : got[u][i] <= sent

\* Only actors that were started are known to anyone or have anything to do;
\* no one ever writes to a table of the REST side.
Started ==
  /\ \A h \in Hubs : table[h] <= spawned
  /\ \A h \in Hubs \ {HookedHub} : table[h] = NoActor
  /\ \A s \in Senders : route[s].pc = "enqueue" => route[s].actor <= spawned
  /\ \A a \in Actors : a > spawned => inbox[a] = << >> /\ current[a] = 0

InboxBound == \A a \in Actors : Len(inbox[a]) <= INBOX

\* A message is promised to members who have joined, never to its sender.
PromisedJoined == \A n \in Msgs : promised[n] \subseteq joined /\ from[n] \notin promised[n]

Basics == FanoutTypes /\ Past /\ Started /\ InboxBound /\ PromisedJoined

(***************************************************************************)
(* Whom a message was promised to is reached wherever the message is: the  *)
(* snapshot has them, or the actor reloads it before this message. X are   *)
(* the users excepted: any set with those who are stale or unheard, so     *)
(* that one more exception leaves the rest as it was.                      *)
(***************************************************************************)
WillReload(a, i) == dirty[a] \/ \E k \in 1..(i - 1) : inbox[a][k] = Invalidate
Reaches(a, i, S) == S \subseteq members[a] \/ WillReload(a, i)
AtEnd(a) == Len(inbox[a]) + 1

\* The actor new messages go to knows everyone who has joined.
TableKnows(X) ==
  table[HookedHub] # NoActor => Reaches(table[HookedHub], AtEnd(table[HookedHub]), joined \ X)
RouteKnows(X) ==
  \A s \in Senders : route[s].pc = "enqueue" =>
    Reaches(route[s].actor, AtEnd(route[s].actor), promised[route[s].msg] \ X)
InboxKnows(X) ==
  \A a \in Actors : \A i \in 1..Len(inbox[a]) :
    inbox[a][i] # Invalidate => Reaches(a, i, promised[inbox[a][i]] \ X)
CurrentKnows(X) ==
  \A a \in Actors : current[a] # 0 =>
    promised[current[a]] \ X \subseteq left[a] \cup tried[current[a]]

Covered(X) ==
  TableKnows(X) /\ RouteKnows(X) /\ InboxKnows(X) /\ CurrentKnows(X) /\ ServedBut(X)
ServedInv == \A X \in SUBSET Users : stale \cup unheard \subseteq X => Covered(X)

(***************************************************************************)
(* Without a race there is one actor, and a message is in one place.       *)
(***************************************************************************)
\* The first message spawns the actor; only its task is not past the table.
OneActor ==
  /\ spawned <= 1
  /\ table[HookedHub] = spawned
  /\ \A s, t \in Senders : Loading(s) /\ Loading(t) => s = t
  /\ \A s \in Senders : Loading(s) => spawned = 0

\* A message in the task of its sender or in an inbox has been copied to no one.
Fresh(n) == \A u \in Users : \A i \in 1..Len(got[u]) : got[u][i] # n
OnceInRoute ==
  \A s \in Senders : route[s] # Idle =>
    /\ Fresh(route[s].msg)
    /\ \A t \in Senders : route[t] # Idle /\ route[t].msg = route[s].msg => s = t
    /\ \A a \in Actors :
         /\ current[a] # route[s].msg
         /\ \A i \in 1..Len(inbox[a]) : inbox[a][i] # route[s].msg
OnceInInbox ==
  \A a \in Actors : \A i \in 1..Len(inbox[a]) : inbox[a][i] # Invalidate =>
    /\ Fresh(inbox[a][i])
    /\ current[a] # inbox[a][i]
    /\ \A j \in 1..Len(inbox[a]) : inbox[a][j] = inbox[a][i] => i = j

\* The message being copied is the newest anyone has.
NewestLast ==
  \A a \in Actors : current[a] # 0 =>
    \A u \in Users : \A i \in 1..Len(got[u]) :
      got[u][i] = current[a] => i = Len(got[u]) /\ u \notin left[a]

OrderedGot ==
  \A u, v \in Users, m, n \in Msgs : Before(u, m, n) => ~Before(v, n, m)

InOnePlace == OneActor /\ OnceInRoute /\ OnceInInbox /\ NewestLast /\ OrderedGot
OrderInv == ~raced => InOnePlace

(***************************************************************************)
(* The smallest number of a set exists, so NextMember is a member.         *)
(***************************************************************************)
LEMMA NatMin ==
  ASSUME NEW T, T \subseteq Nat, T # {}
  PROVE  \E x \in T : \A y \in T : x <= y
<1> DEFINE R == OpToRel(<, Nat)
<1>1. IsWellFoundedOn(R, Nat)
  BY NatLessThanWellFounded
<1>2. \A x, y \in Nat : x < y => <<x, y>> \in R
  BY DEF OpToRel
<1> HIDE DEF R
<1>3. PICK x \in T : \A y \in T : <<y, x>> \notin R
  BY <1>1, WFMin
<1>4. ASSUME NEW y \in T PROVE x <= y
  <2>1. x \in Nat /\ y \in Nat
    OBVIOUS
  <2>2. ~(y < x)
    BY <1>2, <1>3, <2>1
  <2> QED BY <2>1, <2>2
<1> QED BY <1>4

LEMMA NextMemberIn ==
  ASSUME NEW a \in Actors, FanoutTypes, left[a] # {}
  PROVE  NextMember(a) \in left[a]
<1>1. left[a] \subseteq Nat
  BY GroupAssumption DEF FanoutTypes
<1>2. \E u \in left[a] : \A v \in left[a] : u <= v
  BY <1>1, NatMin
<1> QED BY <1>2 DEF NextMember

\* What the state of a task can be.
LEMMA RouteShape ==
  ASSUME FanoutTypes, NEW s \in Senders
  PROVE  /\ route[s] # Idle => route[s].msg \in Msgs
         /\ route[s].pc \in {"idle", "load", "spawn", "enqueue"}
         /\ route[s].pc = "idle" <=> route[s] = Idle
         /\ route[s].pc = "spawn" => route[s].members \subseteq Users
         /\ route[s].pc = "enqueue" => route[s].actor \in Actors
<1>1. route[s] \in RouteStates
  BY DEF FanoutTypes
<1> QED BY <1>1 DEF RouteStates, Idle

LEMMA FanoutConstants ==
  /\ MaxMsgs \in Nat /\ MaxActors \in Nat /\ INBOX \in Nat /\ INBOX > 0
  /\ Senders \subseteq Users /\ Owner \in Users
BY GroupAssumption

\* Both sides have an entry for the group.
LEMMA HubsKnown ==
  ASSUME FanoutTypes
  PROVE  HookedHub \in Hubs /\ RestHub \in Hubs
BY DEF FanoutTypes, Hubs, HookedHub, RestHub

LEMMA FanoutTypeStep ==
  ASSUME FanoutTypes, Started, Next
  PROVE  FanoutTypes'
<1> USE FanoutConstants, HubsKnown DEF FanoutTypes, Hubs
<1>0. MaxMsgs \in Nat /\ MaxActors \in Nat
  OBVIOUS
<1>1. ASSUME NEW s \in Senders, RouteLookup(s) PROVE FanoutTypes'
  <2>1. sent + 1 \in Msgs /\ sent' = sent + 1 /\ s \in Users
    BY <1>1 DEF RouteLookup, Msgs
  <2>2. [pc |-> "load", msg |-> sent + 1] \in RouteStates
    BY <2>1 DEF RouteStates
  <2>3. table[HookedHub] # NoActor => table[HookedHub] \in Actors
    BY DEF NoActor, Actors
  <2>4. table[HookedHub] # NoActor =>
          [pc |-> "enqueue", msg |-> sent + 1, actor |-> table[HookedHub]] \in RouteStates
    BY <2>1, <2>3 DEF RouteStates
  <2>5. route' \in [Senders -> RouteStates]
    BY <1>1, <2>2, <2>4 DEF RouteLookup
  <2>6. from' \in [Msgs -> Users] /\ promised' \in [Msgs -> SUBSET Users]
    BY <1>1, <2>1 DEF RouteLookup
  <2>7. raced' \in BOOLEAN
    BY <1>1 DEF RouteLookup
  <2>8. UNCHANGED <<db, table, spawned, members, dirty, current, left, tried, got, inbox,
                    adding, joined, stray, stale, unheard>>
    BY <1>1 DEF RouteLookup, actorVars, missed
  <2>9. sent' \in 0..MaxMsgs
    BY <2>1 DEF Msgs
  <2> QED BY <2>9, <2>5, <2>6, <2>7, <2>8
<1>2. ASSUME NEW s \in Senders, RouteLoad(s) PROVE FanoutTypes'
  <2>1. route[s].msg \in Msgs
    BY <1>2, RouteShape DEF RouteLoad, Idle
  <2>2. [pc |-> "spawn", msg |-> route[s].msg, members |-> db] \in RouteStates
          /\ Idle \in RouteStates
    BY <2>1 DEF RouteStates
  <2>3. route' \in [Senders -> RouteStates] /\ stray' \subseteq Msgs
    BY <1>2, <2>1, <2>2 DEF RouteLoad
  <2>4. UNCHANGED <<db, table, spawned, members, dirty, current, left, tried, got, inbox,
                    adding, sent, from, joined, promised, raced, stale, unheard>>
    BY <1>2 DEF RouteLoad, actorVars, missed
  <2> QED BY <2>3, <2>4
<1>3. ASSUME NEW s \in Senders, RouteSpawn(s) PROVE FanoutTypes'
  <2>1. route[s].msg \in Msgs /\ route[s].members \subseteq Users
    BY <1>3, RouteShape DEF RouteSpawn, Idle
  <2>2. spawned' = spawned + 1 /\ spawned + 1 \in Actors
    <3>1. spawned < MaxActors /\ spawned' = spawned + 1
      BY <1>3, Zenon DEF RouteSpawn
    <3>2. spawned \in 0..MaxActors
      OBVIOUS
    <3> QED BY <3>1, <3>2, <1>0 DEF Actors
  <2>3. [pc |-> "enqueue", msg |-> route[s].msg, actor |-> spawned + 1] \in RouteStates
    BY <2>1, <2>2 DEF RouteStates
  <2>4. route' \in [Senders -> RouteStates]
    BY <1>3, <2>3 DEF RouteSpawn
  <2>t. table' = [table EXCEPT ![HookedHub] = spawned + 1] /\ spawned + 1 \in 0..MaxActors
    <3>1. table' = [table EXCEPT ![HookedHub] = spawned + 1]
      BY <1>3, SMT DEF RouteSpawn
    <3>2. spawned + 1 \in 0..MaxActors
      BY <2>2 DEF Actors
    <3> QED BY <3>1, <3>2
  <2>5. table' \in [Hubs -> 0..MaxActors] /\ DOMAIN table' = Hubs
    BY <2>t
  <2>m. members' \in [Actors -> SUBSET Users]
    BY <1>3, <2>1, <2>2 DEF RouteSpawn
  <2>6. stale' \subseteq Users
    BY <1>3 DEF RouteSpawn
  <2>7. UNCHANGED <<db, dirty, inbox, current, left, tried, got, adding, sent,
                    from, joined, promised, stray, unheard, raced>>
    BY <1>3 DEF RouteSpawn
  <2>8. spawned' \in 0..MaxActors /\ Hubs' = Hubs
    BY <2>2, <2>5 DEF Actors
  <2> QED BY <2>8, <2>4, <2>5, <2>m, <2>6, <2>7
<1>4. ASSUME NEW s \in Senders, RouteEnqueue(s) PROVE FanoutTypes'
  <2>1. route[s].msg \in Msgs /\ route[s].actor \in Actors
    BY <1>4, RouteShape DEF RouteEnqueue, Idle
  <2>2. Append(inbox[route[s].actor], route[s].msg) \in Seq(0..MaxMsgs)
    BY <2>1 DEF Msgs
  <2>3. inbox' \in [Actors -> Seq(0..MaxMsgs)]
    BY <1>4, <2>2 DEF RouteEnqueue
  <2>4. route' \in [Senders -> RouteStates]
    BY <1>4 DEF RouteEnqueue, RouteStates
  <2>5. UNCHANGED <<db, table, spawned, members, dirty, current, left, tried, got,
                    adding, sent, from, joined, promised, stray, raced, stale, unheard>>
    BY <1>4 DEF RouteEnqueue, actorVars, missed
  <2> QED BY <2>3, <2>4, <2>5
<1>5. ASSUME NEW u \in Users, AddMember(u) PROVE FanoutTypes'
  BY <1>5 DEF AddMember, actorVars, missed
<1>6. ASSUME NEW u \in Users, InvalidateHub(u) PROVE FanoutTypes'
  <2>1. joined' \subseteq db /\ adding' \subseteq db
    BY <1>6 DEF InvalidateHub
  <2>2. inbox' \in [Actors -> Seq(0..MaxMsgs)]
    <3>1. CASE inbox' = inbox
      BY <3>1
    <3>2. CASE inbox' # inbox
      <4>1. table[RestHub] \in Actors
        BY <1>6, <3>2 DEF InvalidateHub, NoActor, Actors
      <4>2. Append(inbox[table[RestHub]], Invalidate) \in Seq(0..MaxMsgs)
        BY <4>1 DEF Invalidate
      <4> QED BY <1>6, <3>2, <4>2 DEF InvalidateHub
    <3> QED BY <3>1, <3>2
  <2>3. stale' \subseteq Users /\ unheard' \subseteq Users
    BY <1>6 DEF InvalidateHub, missed
  <2>4. UNCHANGED <<db, table, spawned, members, dirty, current, left, tried, got, route,
                    sent, from, promised, stray, raced>>
    BY <1>6 DEF InvalidateHub, actorVars
  <2> QED BY <2>1, <2>2, <2>3, <2>4
<1>7. ASSUME NEW a \in Actors, ActorTakes(a)
      PROVE  inbox' \in [Actors -> Seq(0..MaxMsgs)] /\ Head(inbox[a]) \in 0..MaxMsgs
  <2>1. inbox[a] \in Seq(0..MaxMsgs) /\ inbox[a] # << >>
    BY <1>7 DEF ActorTakes
  <2>2. Tail(inbox[a]) \in Seq(0..MaxMsgs) /\ Head(inbox[a]) \in 0..MaxMsgs
    BY <2>1
  <2> QED BY <1>7, <2>2 DEF ActorTakes
<1>8. ASSUME NEW a \in Actors, ActorInvalidate(a) PROVE FanoutTypes'
  <2>1. inbox' \in [Actors -> Seq(0..MaxMsgs)]
    BY <1>7, <1>8 DEF ActorInvalidate
  <2> QED BY <1>8, <2>1 DEF ActorInvalidate, missed
<1>9. ASSUME NEW a \in Actors, ActorFanout(a) PROVE FanoutTypes'
  <2>1. inbox' \in [Actors -> Seq(0..MaxMsgs)] /\ Head(inbox[a]) \in 0..MaxMsgs
    BY <1>7, <1>9 DEF ActorFanout
  <2>2. current' \in [Actors -> 0..MaxMsgs] /\ dirty' \in [Actors -> BOOLEAN]
    BY <1>9, <2>1 DEF ActorFanout
  <2>3. members' \in [Actors -> SUBSET Users] /\ stale' \subseteq Users
    BY <1>9 DEF ActorFanout
  <2>4. left' \in [Actors -> SUBSET Users]
    BY <1>9, <2>3 DEF ActorFanout
  <2>5. UNCHANGED <<db, table, spawned, route, adding, sent, from, joined, promised,
                    tried, got, stray, raced, unheard>>
    BY <1>9 DEF ActorFanout
  <2> QED BY <2>1, <2>2, <2>3, <2>4, <2>5
<1>10. ASSUME NEW a \in Actors, ActorCopy(a) PROVE FanoutTypes'
  <2> DEFINE u == NextMember(a)
             n == current[a]
  <2>a. left[a] # {} /\ n # 0
    BY <1>10 DEF ActorCopy
  <2>b. u \in left[a]
    BY <2>a, NextMemberIn
  <2>c. left[a] \subseteq Users /\ n \in 0..MaxMsgs
    OBVIOUS
  <2>1. u \in Users /\ n \in Msgs
    BY <2>a, <2>b, <2>c DEF Msgs
  <2>2. left' \in [Actors -> SUBSET Users]
    BY <1>10 DEF ActorCopy
  <2>3. /\ tried' = tried \/ tried' = [tried EXCEPT ![n] = @ \cup {u}]
        /\ got' = got \/ got' = [got EXCEPT ![u] = Append(@, n)]
    BY <1>10 DEF ActorCopy, fanout_one
  <2>4. UNCHANGED <<db, table, spawned, members, dirty, inbox, current, route,
                    adding, sent, from, joined, promised, stray, raced, stale, unheard>>
    BY <1>10 DEF ActorCopy, missed
  <2> HIDE DEF u, n
  <2>5. tried' \in [Msgs -> SUBSET Users]
    <3>1. tried[n] \cup {u} \in SUBSET Users
      BY <2>1
    <3> QED BY <2>3, <3>1
  <2>6. Append(got[u], n) \in Seq(Msgs)
    BY <2>1
  <2>7. got' \in [Users -> Seq(Msgs)]
    BY <2>3, <2>6
  <2> QED BY <2>2, <2>4, <2>5, <2>7
<1>11. ASSUME NEW a \in Actors, ActorDone(a) PROVE FanoutTypes'
  BY <1>11 DEF ActorDone, missed
<1> QED
  BY <1>1, <1>2, <1>3, <1>4, <1>5, <1>6, <1>8, <1>9, <1>10, <1>11
     DEF Next, RouteStep, ActorStep

\* An inbox after an append, and after its first job was taken.
LEMMA InboxAppended ==
  ASSUME FanoutTypes, NEW a \in Actors, NEW x \in 0..MaxMsgs,
         inbox' = [inbox EXCEPT ![a] = Append(@, x)]
  PROVE  /\ Len(inbox'[a]) = Len(inbox[a]) + 1
         /\ Len(inbox[a]) \in Nat
         /\ \A i \in 1..Len(inbox[a]) : inbox'[a][i] = inbox[a][i]
         /\ inbox'[a][Len(inbox[a]) + 1] = x
         /\ \A b \in Actors : b # a => inbox'[b] = inbox[b]
<1>1. inbox[a] \in Seq(0..MaxMsgs) /\ inbox'[a] = Append(inbox[a], x)
  BY DEF FanoutTypes
<1> QED BY <1>1 DEF FanoutTypes

LEMMA InboxTaken ==
  ASSUME FanoutTypes, NEW a \in Actors, ActorTakes(a)
  PROVE  /\ Len(inbox[a]) \in Nat \ {0}
         /\ Len(inbox'[a]) = Len(inbox[a]) - 1
         /\ \A i \in 1..Len(inbox'[a]) : i + 1 \in 1..Len(inbox[a]) /\ inbox'[a][i] = inbox[a][i + 1]
         /\ Head(inbox[a]) = inbox[a][1] /\ 1 \in 1..Len(inbox[a])
         /\ \A b \in Actors : b # a => inbox'[b] = inbox[b]
         /\ current[a] = 0
<1>1. inbox[a] \in Seq(0..MaxMsgs) /\ inbox[a] # << >> /\ inbox'[a] = Tail(inbox[a])
         /\ current[a] = 0
  BY DEF FanoutTypes, ActorTakes
<1>2. \A b \in Actors : b # a => inbox'[b] = inbox[b]
  BY DEF FanoutTypes, ActorTakes
<1> QED BY <1>1, <1>2

\* Every queue has a length.
LEMMA Lengths ==
  ASSUME FanoutTypes
  PROVE  /\ \A a \in Actors : Len(inbox[a]) \in Nat
         /\ \A u \in Users : Len(got[u]) \in Nat
         /\ \A a \in Actors : \A i \in 1..Len(inbox[a]) : inbox[a][i] \in 0..MaxMsgs
         /\ \A u \in Users : \A i \in 1..Len(got[u]) : got[u][i] \in Msgs
<1>1. ASSUME NEW S, NEW s \in Seq(S)
      PROVE  Len(s) \in Nat /\ \A i \in 1..Len(s) : s[i] \in S
  OBVIOUS
<1>2. ASSUME NEW a \in Actors
      PROVE  inbox[a] \in Seq(0..MaxMsgs)
  BY DEF FanoutTypes
<1>3. ASSUME NEW u \in Users
      PROVE  got[u] \in Seq(Msgs)
  BY DEF FanoutTypes
<1>4. \A a \in Actors : Len(inbox[a]) \in Nat /\ \A i \in 1..Len(inbox[a]) : inbox[a][i] \in 0..MaxMsgs
  BY <1>1, <1>2
<1>5. \A u \in Users : Len(got[u]) \in Nat /\ \A i \in 1..Len(got[u]) : got[u][i] \in Msgs
  BY <1>1, <1>3
<1> QED BY <1>4, <1>5

\* The channel of a member after a copy.
LEMMA GotAppended ==
  ASSUME FanoutTypes, NEW u \in Users, NEW n \in Msgs,
         got' = [got EXCEPT ![u] = Append(@, n)]
  PROVE  /\ Len(got'[u]) = Len(got[u]) + 1
         /\ Len(got[u]) \in Nat
         /\ \A i \in 1..Len(got[u]) : got'[u][i] = got[u][i]
         /\ got'[u][Len(got[u]) + 1] = n
         /\ \A v \in Users : v # u => got'[v] = got[v]
<1>1. got[u] \in Seq(Msgs) /\ got'[u] = Append(got[u], n)
  BY DEF FanoutTypes
<1> QED BY <1>1 DEF FanoutTypes

LEMMA BasicsStep ==
  ASSUME Basics, Next
  PROVE  Basics'
<1>a. FanoutTypes' /\ FanoutTypes /\ Past /\ Started /\ InboxBound /\ PromisedJoined
  BY FanoutTypeStep DEF Basics
<1>b. sent \in Nat /\ spawned \in Nat /\ MaxMsgs \in Nat
  BY <1>a, FanoutConstants DEF FanoutTypes
<1> SUFFICES Past' /\ Started' /\ InboxBound' /\ PromisedJoined'
  BY <1>a DEF Basics
<1>1. ASSUME NEW s \in Senders, RouteLookup(s)
      PROVE  Past' /\ Started' /\ InboxBound' /\ PromisedJoined'
  <2>1. sent' = sent + 1 /\ sent + 1 \in Msgs
    BY <1>1, <1>b DEF RouteLookup, Msgs
  <2>2. UNCHANGED <<table, spawned, current, got, inbox, joined>>
    BY <1>1 DEF RouteLookup, actorVars
  <2>3. /\ route'[s] # Idle /\ route'[s].msg = sent + 1
        /\ route'[s].pc = "enqueue" => route'[s].actor = table[HookedHub]
        /\ \A t \in Senders : t # s => route'[t] = route[t]
    BY <1>1, <1>a DEF RouteLookup, FanoutTypes, Idle
  <2>4. Past'
    <3>1. \A n : n <= sent /\ n \in Int => n <= sent + 1
      BY <1>b
    <3>2. \A t \in Senders : route'[t] # Idle => route'[t].msg <= sent + 1
      <4>1. \A t \in Senders : route[t] # Idle => route[t].msg \in Int
        BY <1>a, RouteShape DEF Msgs
      <4> QED BY <2>3, <3>1, <4>1, <1>a, <1>b DEF Past
    <3>3. \A a \in Actors : current[a] <= sent + 1
      BY <1>a, <3>1 DEF Past, FanoutTypes
    <3>4. \A a \in Actors : \A i \in 1..Len(inbox[a]) : inbox[a][i] <= sent + 1
      BY <1>a, <3>1, Lengths DEF Past
    <3>5. \A u \in Users : \A i \in 1..Len(got[u]) : got[u][i] <= sent + 1
      <4>1. \A u \in Users : \A i \in 1..Len(got[u]) : got[u][i] \in Int
        BY <1>a, Lengths DEF Msgs
      <4> QED BY <1>a, <3>1, <4>1 DEF Past
    <3> QED BY <2>1, <2>2, <3>2, <3>3, <3>4, <3>5 DEF Past
  <2>5. Started' /\ InboxBound'
    BY <1>a, <2>2, <2>3, FanoutConstants, HubsKnown DEF Started, InboxBound, Hubs
  <2>6. /\ promised' = [promised EXCEPT ![sent + 1] = joined \ {s}]
        /\ from' = [from EXCEPT ![sent + 1] = s]
    BY <1>1 DEF RouteLookup
  <2>7. PromisedJoined'
    <3>1. promised'[sent + 1] = joined \ {s} /\ from'[sent + 1] = s
      BY <1>a, <2>1, <2>6 DEF FanoutTypes
    <3>2. \A n \in Msgs : n # sent + 1 => promised'[n] = promised[n] /\ from'[n] = from[n]
      BY <1>a, <2>6 DEF FanoutTypes
    <3> QED BY <1>a, <2>2, <3>1, <3>2 DEF PromisedJoined
  <2> QED BY <2>4, <2>5, <2>7
<1>2. ASSUME NEW s \in Senders, RouteLoad(s)
      PROVE  Past' /\ Started' /\ InboxBound' /\ PromisedJoined'
  <2>1. UNCHANGED <<sent, table, spawned, current, got, inbox, joined, promised, from>>
    BY <1>2 DEF RouteLoad, actorVars
  <2>2. /\ route[s] # Idle
        /\ route'[s] # Idle => route'[s].msg = route[s].msg
        /\ route'[s].pc # "enqueue"
        /\ \A t \in Senders : t # s => route'[t] = route[t]
    BY <1>2, <1>a DEF RouteLoad, FanoutTypes, Idle
  <2> QED BY <1>a, <2>1, <2>2 DEF Past, Started, InboxBound, PromisedJoined, Hubs
<1>3. ASSUME NEW s \in Senders, RouteSpawn(s)
      PROVE  Past' /\ Started' /\ InboxBound' /\ PromisedJoined'
  <2>1. UNCHANGED <<sent, current, got, inbox, joined, promised, from>>
    BY <1>3 DEF RouteSpawn
  <2>2. /\ route[s] # Idle /\ route'[s].msg = route[s].msg
        /\ route'[s].pc = "enqueue" => route'[s].actor = spawned + 1
        /\ \A t \in Senders : t # s => route'[t] = route[t]
    BY <1>3, <1>a DEF RouteSpawn, FanoutTypes, Idle
  <2>3. spawned' = spawned + 1
    BY <1>3 DEF RouteSpawn
  <2>4. /\ \A h \in Hubs : table'[h] = table[h] \/ (table'[h] = spawned + 1 /\ h = HookedHub)
        /\ DOMAIN table' = Hubs
    BY <1>3, <1>a DEF RouteSpawn, FanoutTypes
  <2>5. Past'
    BY <1>a, <2>1, <2>2 DEF Past
  <2>6. Started'
    <3>1. \A h \in Hubs : table[h] \in Int
      BY <1>a DEF FanoutTypes
    <3>2. \A h \in Hubs : table'[h] <= spawned'
      BY <1>a, <1>b, <2>3, <2>4, <3>1 DEF Started, Hubs
    <3>3. \A t \in Senders : route[t].pc = "enqueue" => route[t].actor \in Int
      BY <1>a, RouteShape DEF Actors
    <3>4. \A t \in Senders : route'[t].pc = "enqueue" => route'[t].actor <= spawned'
      BY <1>a, <1>b, <2>2, <2>3, <3>3 DEF Started, Hubs
    <3>5. \A a \in Actors : a > spawned' => a > spawned
      BY <1>b, <2>3 DEF Actors
    <3>6. Hubs' = Hubs /\ \A h \in Hubs \ {HookedHub} : table'[h] = NoActor
      BY <1>a, <2>4 DEF Started, Hubs
    <3> QED BY <1>a, <2>1, <3>2, <3>4, <3>5, <3>6 DEF Started
  <2> QED BY <1>a, <2>1, <2>5, <2>6 DEF InboxBound, PromisedJoined
<1>4. ASSUME NEW s \in Senders, RouteEnqueue(s)
      PROVE  Past' /\ Started' /\ InboxBound' /\ PromisedJoined'
  <2>1. UNCHANGED <<sent, table, spawned, current, got, joined, promised, from>>
    BY <1>4 DEF RouteEnqueue, actorVars
  <2>2. PICK a \in Actors, n \in Msgs :
          /\ a = route[s].actor /\ n = route[s].msg /\ route[s] # Idle
          /\ a <= spawned /\ n <= sent
    BY <1>4, <1>a, RouteShape DEF RouteEnqueue, Idle, Started, Past, Hubs
  <2>3. inbox' = [inbox EXCEPT ![a] = Append(@, n)] /\ Len(inbox[a]) < INBOX /\ n \in 0..MaxMsgs
    BY <1>4, <2>2 DEF RouteEnqueue, Msgs
  <2>4. /\ route'[s] = Idle
        /\ \A t \in Senders : t # s => route'[t] = route[t]
    BY <1>4, <1>a DEF RouteEnqueue, FanoutTypes
  <2>5. /\ Len(inbox'[a]) = Len(inbox[a]) + 1
        /\ Len(inbox[a]) \in Nat
        /\ \A i \in 1..Len(inbox[a]) : inbox'[a][i] = inbox[a][i]
        /\ inbox'[a][Len(inbox[a]) + 1] = n
        /\ \A b \in Actors : b # a => inbox'[b] = inbox[b]
    BY <1>a, <2>3, InboxAppended
  <2>6. ASSUME NEW b \in Actors, NEW i \in 1..Len(inbox'[b]) PROVE inbox'[b][i] <= sent
    <3>1. CASE b = a /\ i = Len(inbox[a]) + 1
      BY <2>2, <2>5, <3>1
    <3>2. CASE ~(b = a /\ i = Len(inbox[a]) + 1)
      <4>1. i \in 1..Len(inbox[b]) /\ inbox'[b][i] = inbox[b][i]
        BY <2>5, <3>2
      <4> QED BY <1>a, <4>1 DEF Past
    <3> QED BY <3>1, <3>2
  <2>7. Past'
    BY <1>a, <2>1, <2>4, <2>6 DEF Past
  <2>8. Started' /\ InboxBound'
    <3>1. ~(a > spawned)
      BY <1>b, <2>2 DEF Actors
    <3> QED BY <1>a, <2>1, <2>3, <2>4, <2>5, <3>1, FanoutConstants, HubsKnown DEF Started, InboxBound, Idle, Hubs
  <2> QED BY <1>a, <2>1, <2>7, <2>8 DEF PromisedJoined
<1>5. ASSUME NEW u \in Users, AddMember(u)
      PROVE  Past' /\ Started' /\ InboxBound' /\ PromisedJoined'
  BY <1>5, <1>a DEF AddMember, actorVars, Past, Started, InboxBound, PromisedJoined, Hubs
<1>6. ASSUME NEW u \in Users, InvalidateHub(u)
      PROVE  Past' /\ Started' /\ InboxBound' /\ PromisedJoined'
  <2>1. UNCHANGED <<sent, table, spawned, current, got, route, promised, from>>
           /\ joined' = joined \cup {u}
    BY <1>6 DEF InvalidateHub, actorVars
  <2>2. CASE inbox' = inbox
    BY <1>a, <2>1, <2>2 DEF Past, Started, InboxBound, PromisedJoined, Hubs
  <2>3. CASE inbox' # inbox
    <3>1. PICK a \in Actors : a = table[RestHub] /\ Len(inbox[a]) < INBOX
      BY <1>6, <1>a, <2>3, HubsKnown DEF InvalidateHub, FanoutTypes, NoActor, Actors
    <3>2. inbox' = [inbox EXCEPT ![a] = Append(@, Invalidate)] /\ Invalidate \in 0..MaxMsgs
      BY <1>6, <1>b, <2>3, <3>1 DEF InvalidateHub, Invalidate
    <3>3. /\ Len(inbox'[a]) = Len(inbox[a]) + 1
          /\ Len(inbox[a]) \in Nat
          /\ \A i \in 1..Len(inbox[a]) : inbox'[a][i] = inbox[a][i]
          /\ inbox'[a][Len(inbox[a]) + 1] = Invalidate
          /\ \A b \in Actors : b # a => inbox'[b] = inbox[b]
      BY <1>a, <3>2, InboxAppended
    <3>4. \A b \in Actors : \A i \in 1..Len(inbox'[b]) : inbox'[b][i] <= sent
      BY <1>a, <1>b, <3>3 DEF Past, Invalidate
    <3>5. ~(a > spawned)
      BY <1>a, <1>b, <3>1, FanoutConstants, HubsKnown DEF Started, Actors, Hubs
    <3>6. Past' /\ Started'
      BY <1>a, <2>1, <3>3, <3>4, <3>5 DEF Past, Started, Hubs
    <3>7. InboxBound'
      BY <1>a, <3>1, <3>3, FanoutConstants DEF InboxBound
    <3> QED BY <1>a, <2>1, <3>6, <3>7 DEF PromisedJoined
  <2> QED BY <2>2, <2>3
<1>7. ASSUME NEW a \in Actors, ActorTakes(a),
             UNCHANGED <<sent, table, spawned, got, route, joined, promised, from>>,
             \A b \in Actors : current'[b] <= sent,
             \A b \in Actors : b # a => current'[b] = current[b]
      PROVE  Past' /\ Started' /\ InboxBound' /\ PromisedJoined'
  <2>1. /\ Len(inbox[a]) \in Nat \ {0}
        /\ Len(inbox'[a]) = Len(inbox[a]) - 1
        /\ \A i \in 1..Len(inbox'[a]) : i + 1 \in 1..Len(inbox[a]) /\ inbox'[a][i] = inbox[a][i + 1]
        /\ \A b \in Actors : b # a => inbox'[b] = inbox[b]
    BY <1>a, <1>7, InboxTaken
  <2>2. ~(a > spawned)
    BY <1>a, <1>7 DEF ActorTakes, Started, Hubs
  <2>3. Past'
    BY <1>a, <1>7, <2>1 DEF Past
  <2>4. Started'
    BY <1>a, <1>7, <2>1, <2>2 DEF Started, Hubs
  <2>5. InboxBound'
    BY <1>a, <2>1, FanoutConstants DEF InboxBound
  <2> QED BY <1>a, <1>7, <2>3, <2>4, <2>5 DEF PromisedJoined
<1>8. ASSUME NEW a \in Actors, ActorInvalidate(a)
      PROVE  Past' /\ Started' /\ InboxBound' /\ PromisedJoined'
  BY <1>7, <1>8, <1>a DEF ActorInvalidate, Past
<1>9. ASSUME NEW a \in Actors, ActorFanout(a)
      PROVE  Past' /\ Started' /\ InboxBound' /\ PromisedJoined'
  <2>1. Head(inbox[a]) <= sent
    BY <1>9, <1>a, InboxTaken DEF ActorFanout, Past
  <2>2. current'[a] = Head(inbox[a]) /\ \A b \in Actors : b # a => current'[b] = current[b]
    BY <1>9, <1>a DEF ActorFanout, FanoutTypes
  <2>3. \A b \in Actors : current'[b] <= sent
    BY <1>a, <2>1, <2>2 DEF Past
  <2> QED BY <1>7, <1>9, <2>2, <2>3 DEF ActorFanout
<1>10. ASSUME NEW a \in Actors, ActorCopy(a)
      PROVE  Past' /\ Started' /\ InboxBound' /\ PromisedJoined'
  <2>1. UNCHANGED <<sent, table, spawned, current, inbox, route, joined, promised, from>>
    BY <1>10 DEF ActorCopy
  <2>m. PICK u \in Users : u = NextMember(a)
    <3>1. NextMember(a) \in left[a] /\ left[a] \subseteq Users
      BY <1>10, <1>a, NextMemberIn DEF ActorCopy, FanoutTypes
    <3> QED BY <3>1
  <2>n. PICK n : n = current[a]
    OBVIOUS
  <2>2. u = NextMember(a) /\ n = current[a]
    BY <2>m, <2>n
  <2>3. got' = got \/ got' = [got EXCEPT ![u] = Append(@, n)]
    BY <1>10, <2>2 DEF ActorCopy, fanout_one
  <2>4. n <= sent /\ n \in Msgs
    BY <1>10, <1>a, <2>2 DEF ActorCopy, Past, FanoutTypes, Msgs
  <2>5. ASSUME NEW v \in Users, NEW i \in 1..Len(got'[v]) PROVE got'[v][i] <= sent
    <3>1. CASE got' = got
      BY <1>a, <3>1 DEF Past
    <3>2. CASE got' = [got EXCEPT ![u] = Append(@, n)]
      <4>1. /\ Len(got'[u]) = Len(got[u]) + 1
            /\ Len(got[u]) \in Nat
            /\ \A j \in 1..Len(got[u]) : got'[u][j] = got[u][j]
            /\ got'[u][Len(got[u]) + 1] = n
            /\ \A w \in Users : w # u => got'[w] = got[w]
        BY <1>a, <2>4, <3>2, GotAppended
      <4>2. CASE v = u /\ i = Len(got[u]) + 1
        BY <2>4, <4>1, <4>2
      <4>3. CASE ~(v = u /\ i = Len(got[u]) + 1)
        <5>1. i \in 1..Len(got[v]) /\ got'[v][i] = got[v][i]
          BY <4>1, <4>3
        <5> QED BY <1>a, <5>1 DEF Past
      <4> QED BY <4>2, <4>3
    <3> QED BY <2>3, <3>1, <3>2
  <2> QED BY <1>a, <2>1, <2>5 DEF Past, Started, InboxBound, PromisedJoined, Hubs
<1>11. ASSUME NEW a \in Actors, ActorDone(a)
      PROVE  Past' /\ Started' /\ InboxBound' /\ PromisedJoined'
  <2>1. UNCHANGED <<sent, table, spawned, got, inbox, route, joined, promised, from>>
    BY <1>11 DEF ActorDone
  <2>2. \A b \in Actors : current'[b] = current[b] \/ current'[b] = 0
    BY <1>11, <1>a DEF ActorDone, FanoutTypes
  <2> QED BY <1>a, <1>b, <2>1, <2>2 DEF Past, Started, InboxBound, PromisedJoined, Hubs
<1> QED
  BY <1>1, <1>2, <1>3, <1>4, <1>5, <1>6, <1>8, <1>9, <1>10, <1>11
     DEF Next, RouteStep, ActorStep

(***************************************************************************)
(* What an inbox promises is not undone by another job behind it, nor by   *)
(* taking the job in front.                                                *)
(***************************************************************************)
LEMMA ReachesKept ==
  ASSUME FanoutTypes, NEW a \in Actors, NEW x \in 0..MaxMsgs,
         inbox' = [inbox EXCEPT ![a] = Append(@, x)], members' = members, dirty' = dirty
  PROVE  /\ \A b \in Actors : \A S : \A i \in 1..Len(inbox[b]) : Reaches(b, i, S) => Reaches(b, i, S)'
         /\ \A b \in Actors : \A S : Reaches(b, AtEnd(b), S) => Reaches(b, AtEnd(b), S)'
<1>1. /\ Len(inbox'[a]) = Len(inbox[a]) + 1
      /\ Len(inbox[a]) \in Nat
      /\ \A i \in 1..Len(inbox[a]) : inbox'[a][i] = inbox[a][i]
      /\ \A b \in Actors : b # a => inbox'[b] = inbox[b]
  BY InboxAppended
<1>2. \A b \in Actors : /\ Len(inbox[b]) \in Nat /\ Len(inbox'[b]) \in Nat
                        /\ Len(inbox'[b]) >= Len(inbox[b])
                        /\ \A i \in 1..Len(inbox[b]) : inbox'[b][i] = inbox[b][i]
  BY <1>1, Lengths
<1>3. ASSUME NEW b \in Actors, NEW S, NEW i \in 1..Len(inbox[b]), Reaches(b, i, S)
      PROVE  Reaches(b, i, S)'
  <2>1. \A k \in 1..(i - 1) : inbox'[b][k] = inbox[b][k]
    BY <1>2
  <2> QED BY <1>3, <2>1 DEF Reaches, WillReload
<1>4. ASSUME NEW b \in Actors, NEW S, Reaches(b, AtEnd(b), S)
      PROVE  Reaches(b, AtEnd(b), S)'
  <2>1. \A k \in 1..(Len(inbox[b]) + 1 - 1) :
          k \in 1..(Len(inbox'[b]) + 1 - 1) /\ inbox'[b][k] = inbox[b][k]
    BY <1>2
  <2> QED BY <1>4, <2>1 DEF Reaches, WillReload, AtEnd
<1> QED BY <1>3, <1>4

\* Taking a Fanout job from in front.
LEMMA ReachesTaken ==
  ASSUME FanoutTypes, NEW a \in Actors, ActorTakes(a), Head(inbox[a]) # Invalidate,
         members' = members, dirty' = dirty
  PROVE  /\ \A b \in Actors : \A S : Reaches(b, AtEnd(b), S) => Reaches(b, AtEnd(b), S)'
         /\ \A b \in Actors : \A S : b # a =>
              \A i \in 1..Len(inbox[b]) : Reaches(b, i, S) => Reaches(b, i, S)'
         /\ \A S : \A i \in 1..Len(inbox'[a]) : Reaches(a, i + 1, S) => Reaches(a, i, S)'
<1>1. /\ Len(inbox[a]) \in Nat \ {0}
      /\ Len(inbox'[a]) = Len(inbox[a]) - 1
      /\ \A i \in 1..Len(inbox'[a]) : i + 1 \in 1..Len(inbox[a]) /\ inbox'[a][i] = inbox[a][i + 1]
      /\ Head(inbox[a]) = inbox[a][1]
      /\ \A b \in Actors : b # a => inbox'[b] = inbox[b]
  BY InboxTaken
<1>2. ASSUME NEW i \in 1..(Len(inbox'[a]) + 1), NEW S, Reaches(a, i + 1, S)
      PROVE  Reaches(a, i, S)'
  <2>1. ASSUME NEW k \in 1..((i + 1) - 1), inbox[a][k] = Invalidate
        PROVE  \E h \in 1..(i - 1) : inbox'[a][h] = Invalidate
    <3>1. k # 1
      BY <1>1, <2>1
    <3>2. k - 1 \in 1..(i - 1) /\ k - 1 \in 1..Len(inbox'[a]) /\ (k - 1) + 1 = k
      BY <1>1, <3>1
    <3>3. inbox'[a][k - 1] = inbox[a][k]
      BY <1>1, <3>2
    <3> QED BY <2>1, <3>2, <3>3
  <2> QED BY <1>2, <2>1 DEF Reaches, WillReload
<1>3. ASSUME NEW b \in Actors, NEW S, Reaches(b, AtEnd(b), S)
      PROVE  Reaches(b, AtEnd(b), S)'
  <2>1. CASE b = a
    <3>1. PICK i : i = Len(inbox'[a]) + 1
      OBVIOUS
    <3>2. i \in 1..(Len(inbox'[a]) + 1) /\ i + 1 = AtEnd(a) /\ i = (AtEnd(a))'
      BY <1>1, <3>1 DEF AtEnd
    <3>3. Reaches(a, i, S)'
      BY <1>2, <1>3, <2>1, <3>2
    <3> QED BY <2>1, <3>2, <3>3 DEF Reaches, WillReload
  <2>2. CASE b # a
    BY <1>1, <1>3, <2>2 DEF Reaches, WillReload, AtEnd
  <2> QED BY <2>1, <2>2
<1>4. \A b \in Actors : \A S : b # a =>
        \A i \in 1..Len(inbox[b]) : Reaches(b, i, S) => Reaches(b, i, S)'
  BY <1>1 DEF Reaches, WillReload
<1>5. Len(inbox'[a]) \in Nat
  BY <1>1
<1> QED BY <1>2, <1>3, <1>4, <1>5

\* Whoever reaches more reaches less.
LEMMA ReachesLess ==
  ASSUME NEW a, NEW i, NEW S, NEW T \in SUBSET S, Reaches(a, i, S)
  PROVE  Reaches(a, i, T)
BY DEF Reaches

LEMMA ServedStep ==
  ASSUME Basics, ServedInv, Next
  PROVE  ServedInv'
<1> SUFFICES ASSUME NEW X \in SUBSET Users, stale' \subseteq X, unheard' \subseteq X
             PROVE  Covered(X)'
  BY DEF ServedInv
<1>m. stale \subseteq stale' /\ unheard \subseteq unheard'
  BY DEF Next, RouteStep, ActorStep, RouteLookup, RouteLoad, RouteSpawn, RouteEnqueue,
         AddMember, InvalidateHub, ActorInvalidate, ActorFanout, ActorCopy, ActorDone, missed
<1>c. TableKnows(X) /\ RouteKnows(X) /\ InboxKnows(X) /\ CurrentKnows(X) /\ ServedBut(X)
  BY <1>m DEF ServedInv, Covered
<1>a. FanoutTypes /\ Past /\ Started /\ InboxBound /\ PromisedJoined
  BY DEF Basics
<1>b. /\ sent \in Nat /\ spawned \in Nat /\ MaxMsgs \in Nat /\ HookedHub \in Hubs
      /\ RestHub # HookedHub => table[RestHub] = NoActor
  BY <1>a, FanoutConstants, HubsKnown DEF Started, FanoutTypes
<1>1. ASSUME NEW s \in Senders, RouteLookup(s) PROVE Covered(X)'
  <2>1. sent' = sent + 1 /\ sent + 1 \in Msgs
    BY <1>1, <1>b DEF RouteLookup, Msgs
  <2>2. UNCHANGED <<db, table, spawned, members, dirty, current, left, tried, inbox, joined, stray>>
    BY <1>1 DEF RouteLookup, actorVars
  <2>3. /\ route[s] = Idle /\ route'[s] # Idle /\ route'[s].msg = sent + 1
        /\ route'[s].pc = "enqueue" =>
             route'[s].actor = table[HookedHub] /\ table[HookedHub] # NoActor
        /\ \A t \in Senders : t # s => route'[t] = route[t]
    BY <1>1, <1>a DEF RouteLookup, FanoutTypes, Idle
  <2>4. /\ promised'[sent + 1] = joined \ {s}
        /\ \A n \in Msgs : n # sent + 1 => promised'[n] = promised[n]
    BY <1>1, <1>a, <2>1 DEF RouteLookup, FanoutTypes
  <2>5. \A n \in Msgs : n <= sent => promised'[n] = promised[n]
    BY <1>b, <2>4
  <2>6. \A b, i, S : Reaches(b, i, S)' <=> Reaches(b, i, S)
    BY <2>2 DEF Reaches, WillReload
  <2>7. \A b : (AtEnd(b))' = AtEnd(b)
    BY <2>2 DEF AtEnd
  <2>8. TableKnows(X)'
    BY <1>c, <2>2, <2>6, <2>7 DEF TableKnows
  <2>9. RouteKnows(X)'
    <3> SUFFICES ASSUME NEW t \in Senders, route'[t].pc = "enqueue"
                 PROVE  Reaches(route'[t].actor, AtEnd(route'[t].actor), promised'[route'[t].msg] \ X)
      BY <2>2, <2>6, <2>7 DEF RouteKnows, Reaches, WillReload, AtEnd
    <3>1. CASE t = s
      BY <1>c, <2>3, <2>4, <3>1, ReachesLess DEF TableKnows
    <3>2. CASE t # s
      <4>1. route[t].pc = "enqueue" /\ route'[t] = route[t]
        BY <2>3, <3>2
      <4>2. route[t].msg \in Msgs /\ route[t].msg <= sent
        BY <1>a, <4>1, RouteShape DEF Past, Idle
      <4> QED BY <1>c, <2>5, <4>1, <4>2 DEF RouteKnows
    <3> QED BY <3>1, <3>2
  <2>10. InboxKnows(X)'
    <3>1. \A b \in Actors : \A i \in 1..Len(inbox[b]) :
            inbox[b][i] # Invalidate => promised'[inbox[b][i]] = promised[inbox[b][i]]
      <4>1. \A b \in Actors : \A i \in 1..Len(inbox[b]) :
              inbox[b][i] # Invalidate => inbox[b][i] \in Msgs /\ inbox[b][i] <= sent
        BY <1>a, <1>b, Lengths DEF Past, Msgs, Invalidate
      <4> QED BY <2>5, <4>1
    <3> QED BY <1>c, <2>2, <2>6, <3>1 DEF InboxKnows
  <2>11. CurrentKnows(X)'
    <3>1. \A b \in Actors : current[b] # 0 => current[b] \in Msgs /\ current[b] <= sent
      BY <1>a, <1>b DEF Past, FanoutTypes, Msgs
    <3> QED BY <1>c, <2>2, <2>5, <3>1 DEF CurrentKnows
  <2>12. ServedBut(X)'
    <3> SUFFICES ASSUME NEW n \in Msgs, Finished(n)' PROVE promised'[n] \ X \subseteq tried[n]
      BY <2>2 DEF ServedBut
    <3>1. n # sent + 1
      BY <2>3 DEF Finished
    <3>2. n <= sent
      BY <1>b, <2>1, <3>1 DEF Finished, Msgs
    <3>3. Finished(n)
      BY <2>2, <2>3, <3>2 DEF Finished
    <3> QED BY <1>c, <2>5, <3>2, <3>3 DEF ServedBut
  <2> QED BY <2>8, <2>9, <2>10, <2>11, <2>12 DEF Covered
<1>2. ASSUME NEW s \in Senders, RouteLoad(s) PROVE Covered(X)'
  <2>1. UNCHANGED <<table, spawned, members, dirty, current, left, tried, inbox, sent, joined, promised>>
    BY <1>2 DEF RouteLoad, actorVars
  <2>2. /\ route[s] # Idle /\ route'[s].pc # "enqueue"
        /\ (route'[s] # Idle /\ route'[s].msg = route[s].msg /\ stray' = stray)
             \/ (route'[s] = Idle /\ stray' = stray \cup {route[s].msg})
        /\ \A t \in Senders : t # s => route'[t] = route[t]
    BY <1>2, <1>a DEF RouteLoad, FanoutTypes, Idle
  <2>3. \A b, i, S : Reaches(b, i, S)' <=> Reaches(b, i, S)
    BY <2>1 DEF Reaches, WillReload
  <2>4. \A b : (AtEnd(b))' = AtEnd(b)
    BY <2>1 DEF AtEnd
  <2>5. TableKnows(X)'
    BY <1>c, <2>1, <2>3, <2>4 DEF TableKnows
  <2>6. RouteKnows(X)'
    <3>1. \A t \in Senders : route'[t].pc = "enqueue" => route'[t] = route[t]
      BY <2>2
    <3> QED BY <1>c, <2>1, <3>1 DEF RouteKnows, Reaches, WillReload, AtEnd
  <2>7. InboxKnows(X)' /\ CurrentKnows(X)'
    BY <1>c, <2>1, <2>3 DEF InboxKnows, CurrentKnows
  <2>8. ServedBut(X)'
    <3>1. \A n \in Msgs : Finished(n)' => Finished(n)
      BY <2>1, <2>2 DEF Finished
    <3> QED BY <1>c, <2>1, <3>1 DEF ServedBut
  <2> QED BY <2>5, <2>6, <2>7, <2>8 DEF Covered
<1>3. ASSUME NEW s \in Senders, RouteSpawn(s) PROVE Covered(X)'
  <2>1. UNCHANGED <<dirty, current, left, tried, inbox, sent, joined, promised, stray>>
    BY <1>3 DEF RouteSpawn
  <2>2. PICK n \in Msgs, M \in SUBSET Users, b \in Actors :
          n = route[s].msg /\ M = route[s].members /\ b = spawned + 1
    <3>1. spawned + 1 \in Actors
      BY <1>3, <1>b, FanoutConstants DEF RouteSpawn, Actors
    <3> QED BY <1>3, <1>a, <3>1, RouteShape DEF RouteSpawn, Idle
  <2>3. /\ route[s] # Idle /\ route'[s] # Idle /\ route'[s].msg = n
        /\ route'[s].pc = "enqueue" => route'[s].actor = b
        /\ \A t \in Senders : t # s => route'[t] = route[t]
    BY <1>3, <1>a, <2>2 DEF RouteSpawn, FanoutTypes, Idle
  <2>4. /\ joined \ X \subseteq M
        /\ members' = [members EXCEPT ![b] = M]
        /\ table' = [table EXCEPT ![HookedHub] = b]
    BY <1>3, <2>2 DEF RouteSpawn
  <2>5. /\ members'[b] = M /\ table'[HookedHub] = b
        /\ \A d \in Actors : d # b => members'[d] = members[d]
    BY <1>a, <1>b, <2>4 DEF FanoutTypes
  <2>6. b > spawned /\ inbox[b] = << >> /\ current[b] = 0
    BY <1>a, <1>b, <2>2 DEF Started
  <2>7. \A d \in Actors : d # b => \A i, S : Reaches(d, i, S)' <=> Reaches(d, i, S)
    BY <2>1, <2>5 DEF Reaches, WillReload
  <2>8. \A d : (AtEnd(d))' = AtEnd(d)
    BY <2>1 DEF AtEnd
  <2>9. TableKnows(X)'
    BY <2>1, <2>4, <2>5 DEF TableKnows, Reaches
  <2>10. RouteKnows(X)'
    <3> SUFFICES ASSUME NEW t \in Senders, route'[t].pc = "enqueue"
                 PROVE  LET d == route'[t].actor IN
                        promised[route'[t].msg] \ X \subseteq members'[d]
                        \/ dirty[d] \/ \E k \in 1..(Len(inbox[d]) + 1 - 1) : inbox[d][k] = Invalidate
      BY <2>1 DEF RouteKnows, Reaches, WillReload, AtEnd
    <3>1. CASE t = s
      BY <1>a, <2>3, <2>4, <2>5, <3>1 DEF PromisedJoined
    <3>2. CASE t # s
      <4>1. route[t].pc = "enqueue" /\ route'[t] = route[t]
        BY <2>3, <3>2
      <4>2. route[t].actor \in Actors /\ route[t].actor <= spawned
        BY <1>a, <4>1, RouteShape DEF Started
      <4>3. route[t].actor # b
        BY <1>b, <2>2, <4>2 DEF Actors
      <4>4. members'[route[t].actor] = members[route[t].actor]
        BY <2>5, <4>2, <4>3
      <4> QED BY <1>c, <4>1, <4>4 DEF RouteKnows, Reaches, WillReload, AtEnd
    <3> QED BY <3>1, <3>2
  <2>11. InboxKnows(X)'
    <3> SUFFICES ASSUME NEW d \in Actors, NEW i \in 1..Len(inbox[d]), inbox[d][i] # Invalidate
                 PROVE  Reaches(d, i, promised[inbox[d][i]] \ X)'
      BY <2>1 DEF InboxKnows, Reaches, WillReload
    <3>1. d # b
      BY <2>6
    <3> QED BY <1>c, <2>1, <2>5, <3>1 DEF InboxKnows, Reaches, WillReload
  <2>12. CurrentKnows(X)'
    BY <1>c, <2>1 DEF CurrentKnows
  <2>13. ServedBut(X)'
    <3>1. \A k \in Msgs : Finished(k)' => Finished(k)
      BY <2>1, <2>2, <2>3 DEF Finished
    <3> QED BY <1>c, <2>1, <3>1 DEF ServedBut
  <2> QED BY <2>9, <2>10, <2>11, <2>12, <2>13 DEF Covered
<1>4. ASSUME NEW s \in Senders, RouteEnqueue(s) PROVE Covered(X)'
  <2>1. UNCHANGED <<table, spawned, members, dirty, current, left, tried, sent, joined,
                    promised, stray>>
    BY <1>4 DEF RouteEnqueue, actorVars
  <2>2. PICK a \in Actors, n \in Msgs :
          a = route[s].actor /\ n = route[s].msg /\ route[s] # Idle /\ route[s].pc = "enqueue"
    BY <1>4, <1>a, RouteShape DEF RouteEnqueue, Idle
  <2>3. inbox' = [inbox EXCEPT ![a] = Append(@, n)] /\ n \in 0..MaxMsgs
    BY <1>4, <2>2 DEF RouteEnqueue, Msgs
  <2>4. /\ Len(inbox'[a]) = Len(inbox[a]) + 1 /\ Len(inbox[a]) \in Nat
        /\ \A i \in 1..Len(inbox[a]) : inbox'[a][i] = inbox[a][i]
        /\ inbox'[a][Len(inbox[a]) + 1] = n
        /\ \A b \in Actors : b # a => inbox'[b] = inbox[b]
    BY <1>a, <2>3, InboxAppended
  <2>5. /\ \A b \in Actors : \A S : \A i \in 1..Len(inbox[b]) : Reaches(b, i, S) => Reaches(b, i, S)'
        /\ \A b \in Actors : \A S : Reaches(b, AtEnd(b), S) => Reaches(b, AtEnd(b), S)'
    BY <1>a, <2>1, <2>3, ReachesKept
  <2>6. route'[s] = Idle /\ \A t \in Senders : t # s => route'[t] = route[t]
    BY <1>4, <1>a DEF RouteEnqueue, FanoutTypes
  <2>7. TableKnows(X)'
    <3>1. table[HookedHub] # NoActor => table[HookedHub] \in Actors
      BY <1>a, <1>b DEF FanoutTypes, NoActor, Actors
    <3> QED BY <1>c, <2>1, <2>5, <3>1 DEF TableKnows
  <2>8. RouteKnows(X)'
    <3>1. \A t \in Senders : route'[t].pc = "enqueue" =>
            route'[t] = route[t] /\ route[t].actor \in Actors
      BY <1>a, <2>6, RouteShape DEF Idle
    <3> QED BY <1>c, <2>1, <2>5, <3>1 DEF RouteKnows
  <2>9. ASSUME NEW b \in Actors, NEW i \in 1..Len(inbox'[b]), inbox'[b][i] # Invalidate
        PROVE  Reaches(b, i, promised[inbox[b][i]] \ X)'
    <3>1. CASE b = a /\ i = Len(inbox[a]) + 1
      <4>1. Reaches(a, AtEnd(a), promised[n] \ X)
        BY <1>c, <2>2 DEF RouteKnows
      <4>2. promised[n] \ X \subseteq members[a] \/ dirty[a]
              \/ \E k \in 1..(i - 1) : inbox[a][k] = Invalidate
        BY <3>1, <4>1 DEF Reaches, WillReload, AtEnd
      <4>3. \A k \in 1..(i - 1) : inbox'[a][k] = inbox[a][k]
        BY <2>4, <3>1
      <4> QED BY <2>1, <2>4, <3>1, <4>2, <4>3 DEF Reaches, WillReload
    <3>2. CASE ~(b = a /\ i = Len(inbox[a]) + 1)
      <4>1. i \in 1..Len(inbox[b]) /\ inbox'[b][i] = inbox[b][i]
        BY <2>4, <3>2
      <4>2. Reaches(b, i, promised[inbox[b][i]] \ X)
        BY <1>c, <2>9, <4>1 DEF InboxKnows
      <4> QED BY <2>1, <2>4, <4>1, <4>2, <2>5 DEF Reaches, WillReload
    <3> QED BY <3>1, <3>2
  <2>10. InboxKnows(X)'
    BY <2>1, <2>9 DEF InboxKnows, Reaches, WillReload
  <2>11. CurrentKnows(X)'
    BY <1>c, <2>1 DEF CurrentKnows
  <2>12. ServedBut(X)'
    <3> SUFFICES ASSUME NEW k \in Msgs, Finished(k)' PROVE promised[k] \ X \subseteq tried[k]
      BY <2>1 DEF ServedBut
    <3>1. k # n
      <4>1. Len(inbox[a]) + 1 \in 1..Len(inbox'[a])
        BY <2>4
      <4> QED BY <2>4, <4>1 DEF Finished
    <3>2. \A b \in Actors : \A i \in 1..Len(inbox[b]) :
            i \in 1..Len(inbox'[b]) /\ inbox'[b][i] = inbox[b][i]
      BY <2>4
    <3>3. Finished(k)
      BY <2>1, <2>2, <2>6, <3>1, <3>2 DEF Finished
    <3> QED BY <1>c, <3>3 DEF ServedBut
  <2> QED BY <2>7, <2>8, <2>10, <2>11, <2>12 DEF Covered
<1>5. ASSUME NEW u \in Users, AddMember(u) PROVE Covered(X)'
  <2>1. UNCHANGED <<table, spawned, members, dirty, current, left, tried, got, inbox, route,
                    sent, joined, promised, stray>>
    BY <1>5 DEF AddMember, actorVars
  <2> QED BY <1>c, <2>1 DEF Covered, TableKnows, RouteKnows, InboxKnows, CurrentKnows, ServedBut,
                          Finished, Reaches, WillReload, AtEnd
<1>6. ASSUME NEW u \in Users, InvalidateHub(u) PROVE Covered(X)'
  <2>1. UNCHANGED <<table, spawned, members, dirty, current, left, tried, route, sent,
                    promised, stray>>
    BY <1>6 DEF InvalidateHub, actorVars
  <2>u. joined' = joined \cup {u}
    BY <1>6 DEF InvalidateHub
  <2>n. table[HookedHub] = NoActor => inbox' = inbox
    BY <1>6, <1>b DEF InvalidateHub
  \* Nothing was sent: nobody routes to an actor, or the member is excepted.
  <2>2. CASE inbox' = inbox /\ (table[HookedHub] = NoActor \/ u \in X)
    <3>1. inbox' = inbox /\ (table[HookedHub] # NoActor => joined' \ X = joined \ X)
      BY <2>2, <2>u
    <3> QED BY <1>c, <2>1, <2>2, <3>1 DEF Covered, TableKnows, RouteKnows, InboxKnows,
                          CurrentKnows, ServedBut, Finished, Reaches, WillReload, AtEnd
  <2>3. CASE ~(inbox' = inbox /\ (table[HookedHub] = NoActor \/ u \in X))
    <3>a. RestHub = HookedHub /\ table[HookedHub] # NoActor
          /\ inbox' = [inbox EXCEPT ![table[HookedHub]] = Append(@, Invalidate)]
      BY <1>6, <1>b, <2>3, <2>n DEF InvalidateHub
    <3>1. PICK a \in Actors : a = table[HookedHub]
      BY <1>a, <1>b, <3>a DEF FanoutTypes, NoActor, Actors
    <3>3. inbox' = [inbox EXCEPT ![a] = Append(@, Invalidate)] /\ Invalidate \in 0..MaxMsgs
      BY <1>b, <3>a, <3>1 DEF Invalidate
    <3>4. /\ Len(inbox'[a]) = Len(inbox[a]) + 1 /\ Len(inbox[a]) \in Nat
          /\ \A i \in 1..Len(inbox[a]) : inbox'[a][i] = inbox[a][i]
          /\ inbox'[a][Len(inbox[a]) + 1] = Invalidate
          /\ \A b \in Actors : b # a => inbox'[b] = inbox[b]
      BY <1>a, <3>3, InboxAppended
    <3>5. /\ \A b \in Actors : \A S : \A i \in 1..Len(inbox[b]) : Reaches(b, i, S) => Reaches(b, i, S)'
          /\ \A b \in Actors : \A S : Reaches(b, AtEnd(b), S) => Reaches(b, AtEnd(b), S)'
      BY <1>a, <2>1, <3>3, ReachesKept
    <3>6. TableKnows(X)'
      <4>1. Len(inbox[a]) + 1 \in 1..(Len(inbox'[a]) + 1 - 1)
        BY <3>4
      <4> QED BY <2>1, <3>1, <3>4, <4>1 DEF TableKnows, Reaches, WillReload, AtEnd
    <3>7. RouteKnows(X)'
      <4>1. \A t \in Senders : route[t].pc = "enqueue" => route[t].actor \in Actors
        BY <1>a, RouteShape
      <4> QED BY <1>c, <2>1, <3>5, <4>1 DEF RouteKnows
    <3>8. ASSUME NEW b \in Actors, NEW i \in 1..Len(inbox'[b]), inbox'[b][i] # Invalidate
          PROVE  Reaches(b, i, promised[inbox[b][i]] \ X)'
      <4>1. i \in 1..Len(inbox[b]) /\ inbox'[b][i] = inbox[b][i]
        BY <3>4, <3>8
      <4>2. Reaches(b, i, promised[inbox[b][i]] \ X)
        BY <1>c, <3>8, <4>1 DEF InboxKnows
      <4> QED BY <2>1, <3>4, <4>1, <4>2, <3>5 DEF Reaches, WillReload
    <3>9. InboxKnows(X)'
      BY <2>1, <3>8 DEF InboxKnows, Reaches, WillReload
    <3>10. CurrentKnows(X)'
      BY <1>c, <2>1 DEF CurrentKnows
    <3>11. ServedBut(X)'
      <4>1. \A b \in Actors : \A i \in 1..Len(inbox[b]) :
              i \in 1..Len(inbox'[b]) /\ inbox'[b][i] = inbox[b][i]
        BY <3>4
      <4>2. \A k \in Msgs : Finished(k)' => Finished(k)
        BY <2>1, <4>1 DEF Finished
      <4> QED BY <1>c, <2>1, <4>2 DEF ServedBut
    <3> QED BY <3>6, <3>7, <3>9, <3>10, <3>11 DEF Covered
  <2> QED BY <2>2, <2>3
<1>7. ASSUME NEW a \in Actors, ActorInvalidate(a) PROVE Covered(X)'
  <2>1. UNCHANGED <<table, spawned, members, current, left, tried, route, sent, joined,
                    promised, stray>>
    BY <1>7 DEF ActorInvalidate
  <2>2. /\ dirty'[a] = TRUE
        /\ \A b \in Actors : b # a => dirty'[b] = dirty[b]
        /\ ActorTakes(a) /\ Head(inbox[a]) = Invalidate
    BY <1>7, <1>a DEF ActorInvalidate, FanoutTypes
  <2>3. /\ Len(inbox[a]) \in Nat \ {0}
        /\ Len(inbox'[a]) = Len(inbox[a]) - 1
        /\ \A i \in 1..Len(inbox'[a]) : i + 1 \in 1..Len(inbox[a]) /\ inbox'[a][i] = inbox[a][i + 1]
        /\ Head(inbox[a]) = inbox[a][1]
        /\ \A b \in Actors : b # a => inbox'[b] = inbox[b]
    BY <1>a, <2>2, InboxTaken
  <2>4. /\ \A i, S : Reaches(a, i, S)'
        /\ \A b \in Actors : b # a => \A i, S : Reaches(b, i, S)' <=> Reaches(b, i, S)
        /\ \A b \in Actors : b # a => (AtEnd(b))' = AtEnd(b)
    BY <2>1, <2>2, <2>3 DEF Reaches, WillReload, AtEnd
  <2>5. TableKnows(X)'
    <3>1. table[HookedHub] # NoActor => table[HookedHub] \in Actors
      BY <1>a, <1>b DEF FanoutTypes, NoActor, Actors
    <3> QED BY <1>c, <2>1, <2>4, <3>1 DEF TableKnows
  <2>6. RouteKnows(X)'
    <3>1. \A t \in Senders : route[t].pc = "enqueue" => route[t].actor \in Actors
      BY <1>a, RouteShape
    <3> QED BY <1>c, <2>1, <2>4, <3>1 DEF RouteKnows
  <2>7. InboxKnows(X)'
    <3> SUFFICES ASSUME NEW b \in Actors, NEW i \in 1..Len(inbox'[b]), inbox'[b][i] # Invalidate
                 PROVE  Reaches(b, i, promised[inbox[b][i]] \ X)'
      BY <2>1 DEF InboxKnows, Reaches, WillReload
    <3>1. CASE b = a
      BY <2>2, <3>1 DEF Reaches, WillReload
    <3>2. CASE b # a
      <4>1. inbox'[b] = inbox[b]
        BY <2>3, <3>2
      <4>2. Reaches(b, i, promised[inbox[b][i]] \ X)
        BY <1>c, <4>1 DEF InboxKnows
      <4> QED BY <2>1, <2>2, <3>2, <4>1, <4>2 DEF Reaches, WillReload
    <3> QED BY <3>1, <3>2
  <2>8. CurrentKnows(X)'
    BY <1>c, <2>1 DEF CurrentKnows
  <2>9. ServedBut(X)'
    <3>1. ASSUME NEW k \in Msgs, Finished(k)' PROVE Finished(k)
      <4>1. ASSUME NEW i \in 1..Len(inbox[a]) PROVE inbox[a][i] # k
        <5>1. CASE i = 1
          BY <2>2, <2>3, <5>1 DEF Invalidate, Msgs
        <5>2. CASE i # 1
          <6>1. i - 1 \in 1..Len(inbox'[a]) /\ (i - 1) + 1 = i
            BY <2>3, <5>2
          <6>2. inbox'[a][i - 1] = inbox[a][i]
            BY <2>3, <6>1
          <6> QED BY <3>1, <6>1, <6>2 DEF Finished
        <5> QED BY <5>1, <5>2
      <4> QED BY <2>1, <2>3, <3>1, <4>1 DEF Finished
    <3> QED BY <1>c, <2>1, <3>1 DEF ServedBut
  <2> QED BY <2>5, <2>6, <2>7, <2>8, <2>9 DEF Covered
<1>8. ASSUME NEW a \in Actors, ActorFanout(a) PROVE Covered(X)'
  <2>1. UNCHANGED <<table, spawned, route, sent, joined, promised, tried, stray>>
    BY <1>8 DEF ActorFanout
  <2>2. PICK n \in Msgs : n = Head(inbox[a])
    <3>1. Head(inbox[a]) \in 0..MaxMsgs /\ Head(inbox[a]) # 0
      BY <1>8, <1>a, InboxTaken, Lengths DEF ActorFanout, Invalidate
    <3> QED BY <3>1 DEF Msgs
  <2>3. /\ ActorTakes(a) /\ n # Invalidate
        /\ current' = [current EXCEPT ![a] = n]
        /\ dirty' = [dirty EXCEPT ![a] = FALSE]
        /\ left' = [left EXCEPT ![a] = members'[a]]
        /\ \/ ~dirty[a] /\ members' = members
           \/ members' = [members EXCEPT ![a] = db]
           \/ members' = members /\ joined \ members[a] \subseteq X
    BY <1>8, <2>2 DEF ActorFanout
  <2>4. /\ Len(inbox[a]) \in Nat \ {0}
        /\ Len(inbox'[a]) = Len(inbox[a]) - 1
        /\ \A i \in 1..Len(inbox'[a]) : i + 1 \in 1..Len(inbox[a]) /\ inbox'[a][i] = inbox[a][i + 1]
        /\ n = inbox[a][1] /\ 1 \in 1..Len(inbox[a])
        /\ \A b \in Actors : b # a => inbox'[b] = inbox[b]
    BY <1>a, <2>2, <2>3, InboxTaken
  <2>5. /\ current'[a] = n /\ left'[a] = members'[a] /\ dirty'[a] = FALSE
        /\ \A b \in Actors : b # a => /\ current'[b] = current[b] /\ left'[b] = left[b]
                                      /\ dirty'[b] = dirty[b] /\ members'[b] = members[b]
    BY <1>a, <2>3 DEF FanoutTypes
  \* The reloaded snapshot has everyone, but for those a failure excepts; one
  \* that is clean reaches as before.
  <2>6. \/ joined \ X \subseteq members'[a]
        \/ members' = members /\ dirty' = dirty
    <3>1. CASE members' = [members EXCEPT ![a] = db]
      BY <1>a, <3>1 DEF FanoutTypes
    <3>3. CASE members' = members /\ joined \ members[a] \subseteq X
      BY <3>3
    <3>2. CASE ~dirty[a] /\ members' = members
      <4>1. \A b \in Actors : dirty'[b] = dirty[b]
        BY <1>a, <2>5, <3>2 DEF FanoutTypes
      <4> QED BY <1>a, <2>3, <3>2, <4>1 DEF FanoutTypes
    <3> QED BY <2>3, <3>1, <3>2, <3>3
  <2>7. promised[n] \ X \subseteq members'[a]
    <3>1. CASE joined \ X \subseteq members'[a]
      BY <1>a, <3>1 DEF PromisedJoined
    <3>2. CASE members' = members /\ dirty' = dirty
      <4>1. Reaches(a, 1, promised[n] \ X) /\ ~dirty[a]
        BY <1>c, <2>3, <2>4, <2>5, <3>2 DEF InboxKnows
      <4> QED BY <3>2, <4>1 DEF Reaches, WillReload
    <3> QED BY <2>6, <3>1, <3>2
  <2>8. /\ \A b \in Actors : \A S : S \subseteq joined \ X /\ Reaches(b, AtEnd(b), S) => Reaches(b, AtEnd(b), S)'
        /\ \A b \in Actors : \A S : b # a =>
             \A i \in 1..Len(inbox[b]) : Reaches(b, i, S) => Reaches(b, i, S)'
        /\ \A S : S \subseteq joined \ X =>
             \A i \in 1..Len(inbox'[a]) : Reaches(a, i + 1, S) => Reaches(a, i, S)'
    <3>1. \A b \in Actors : b # a => \A i, S : Reaches(b, i, S)' <=> Reaches(b, i, S)
      BY <2>4, <2>5 DEF Reaches, WillReload
    <3>2. \A b \in Actors : b # a => (AtEnd(b))' = AtEnd(b)
      BY <2>4 DEF AtEnd
    <3>3. CASE joined \ X \subseteq members'[a]
      <4>1. \A i, S : S \subseteq joined \ X => Reaches(a, i, S)'
        BY <3>3 DEF Reaches
      <4>2. \A S : S \subseteq joined \ X => Reaches(a, AtEnd(a), S)'
        BY <3>3 DEF Reaches
      <4>3. \A b \in Actors : \A S : b # a /\ Reaches(b, AtEnd(b), S) => Reaches(b, AtEnd(b), S)'
        BY <2>4, <2>5 DEF Reaches, WillReload, AtEnd
      <4> QED BY <3>1, <4>1, <4>2, <4>3
    <3>4. CASE members' = members /\ dirty' = dirty
      BY <1>a, <2>2, <2>3, <3>4, ReachesTaken
    <3> QED BY <2>6, <3>3, <3>4
  <2>p. \A k \in Msgs : promised[k] \ X \subseteq joined \ X
    BY <1>a DEF PromisedJoined
  <2>9. TableKnows(X)'
    <3>1. table[HookedHub] # NoActor => table[HookedHub] \in Actors
      BY <1>a, <1>b DEF FanoutTypes, NoActor, Actors
    <3> QED BY <1>c, <2>1, <2>8, <2>p, <3>1 DEF TableKnows
  <2>10. RouteKnows(X)'
    <3>1. \A t \in Senders : route[t].pc = "enqueue" => route[t].actor \in Actors /\ route[t].msg \in Msgs
      BY <1>a, RouteShape DEF Idle
    <3> QED BY <1>c, <2>1, <2>8, <2>p, <3>1 DEF RouteKnows
  <2>11. InboxKnows(X)'
    <3> SUFFICES ASSUME NEW b \in Actors, NEW i \in 1..Len(inbox'[b]), inbox'[b][i] # Invalidate
                 PROVE  promised[inbox'[b][i]] \ X \subseteq members'[b] \/ dirty'[b]
                        \/ \E k \in 1..(i - 1) : inbox'[b][k] = Invalidate
      BY <2>1 DEF InboxKnows, Reaches, WillReload
    <3>1. PICK j, x : /\ x = inbox'[b][i] /\ x = inbox[b][j] /\ j \in 1..Len(inbox[b])
                      /\ j = IF b = a THEN i + 1 ELSE i
      BY <2>4
    <3>2. x \in Msgs
      <4>1. x \in 0..MaxMsgs /\ x # 0
        BY <1>a, <3>1, Lengths DEF Invalidate
      <4> QED BY <4>1 DEF Msgs
    <3>3. Reaches(b, j, promised[x] \ X)
      BY <1>c, <3>1 DEF InboxKnows
    <3>4. PICK S : S = promised[x] \ X
      OBVIOUS
    <3>5. Reaches(b, i, S)'
      BY <2>8, <2>p, <3>1, <3>2, <3>3, <3>4
    <3> QED BY <3>1, <3>4, <3>5 DEF Reaches, WillReload
  <2>12. CurrentKnows(X)'
    BY <1>c, <2>1, <2>5, <2>7 DEF CurrentKnows
  <2>13. ServedBut(X)'
    <3>1. ASSUME NEW k \in Msgs, Finished(k)' PROVE Finished(k)
      <4>1. ASSUME NEW i \in 1..Len(inbox[a]) PROVE inbox[a][i] # k
        <5>1. CASE i = 1
          BY <2>4, <2>5, <3>1, <5>1 DEF Finished
        <5>2. CASE i # 1
          <6>1. i - 1 \in 1..Len(inbox'[a]) /\ (i - 1) + 1 = i
            BY <2>4, <5>2
          <6>2. inbox'[a][i - 1] = inbox[a][i]
            BY <2>4, <6>1
          <6> QED BY <3>1, <6>1, <6>2 DEF Finished
        <5> QED BY <5>1, <5>2
      <4>2. current[a] # k
        BY <2>3 DEF ActorTakes, Msgs
      <4> QED BY <2>1, <2>4, <2>5, <3>1, <4>1, <4>2 DEF Finished
    <3> QED BY <1>c, <2>1, <3>1 DEF ServedBut
  <2> QED BY <2>9, <2>10, <2>11, <2>12, <2>13 DEF Covered
<1>9. ASSUME NEW a \in Actors, ActorCopy(a) PROVE Covered(X)'
  <2>1. UNCHANGED <<table, spawned, members, dirty, inbox, current, route, sent, joined,
                    promised, stray>>
    BY <1>9 DEF ActorCopy
  <2>2. PICK u, n : n \in Msgs /\ u = NextMember(a) /\ n = current[a]
    <3>1. current[a] \in Msgs
      BY <1>9, <1>a DEF ActorCopy, FanoutTypes, Msgs
    <3> QED BY <3>1
  <2>3. /\ left' = [left EXCEPT ![a] = @ \ {u}]
        /\ \/ u = from[n] /\ tried' = tried
           \/ tried' = [tried EXCEPT ![n] = @ \cup {u}]
    BY <1>9, <2>2 DEF ActorCopy, fanout_one
  <2>4. \A k \in Msgs : tried[k] \subseteq tried'[k]
    BY <1>a, <2>3 DEF FanoutTypes
  <2>5. u \in tried'[n] \/ u \notin promised[n]
    BY <1>a, <2>2, <2>3 DEF FanoutTypes, PromisedJoined
  <2>6. CurrentKnows(X)'
    <3> SUFFICES ASSUME NEW b \in Actors, current[b] # 0
                 PROVE  promised[current[b]] \ X \subseteq left'[b] \cup tried'[current[b]]
      BY <2>1 DEF CurrentKnows
    <3>1. current[b] \in Msgs
      BY <1>a DEF FanoutTypes, Msgs
    <3>2. promised[current[b]] \ X \subseteq left[b] \cup tried[current[b]]
      BY <1>c DEF CurrentKnows
    <3>3. CASE b = a
      <4>1. left'[a] = left[a] \ {u}
        BY <1>a, <2>3 DEF FanoutTypes
      <4> QED BY <2>2, <2>4, <2>5, <3>1, <3>2, <3>3, <4>1
    <3>4. CASE b # a
      <4>1. left'[b] = left[b]
        BY <1>a, <2>3, <3>4 DEF FanoutTypes
      <4> QED BY <2>4, <3>1, <3>2, <4>1
    <3> QED BY <3>3, <3>4
  <2>7. TableKnows(X)' /\ RouteKnows(X)' /\ InboxKnows(X)'
    BY <1>c, <2>1 DEF TableKnows, RouteKnows, InboxKnows, Reaches, WillReload, AtEnd
  <2>8. ServedBut(X)'
    BY <1>c, <2>1, <2>4 DEF ServedBut, Finished
  <2> QED BY <2>6, <2>7, <2>8 DEF Covered
<1>10. ASSUME NEW a \in Actors, ActorDone(a) PROVE Covered(X)'
  <2>1. UNCHANGED <<table, spawned, members, dirty, inbox, left, tried, route, sent, joined,
                    promised, stray>>
    BY <1>10 DEF ActorDone
  <2>2. /\ current[a] # 0 /\ left[a] = {} /\ current'[a] = 0
        /\ \A b \in Actors : b # a => current'[b] = current[b]
    BY <1>10, <1>a DEF ActorDone, FanoutTypes
  <2>3. TableKnows(X)' /\ RouteKnows(X)' /\ InboxKnows(X)'
    BY <1>c, <2>1 DEF TableKnows, RouteKnows, InboxKnows, Reaches, WillReload, AtEnd
  <2>4. CurrentKnows(X)'
    BY <1>c, <2>1, <2>2 DEF CurrentKnows
  <2>5. promised[current[a]] \ X \subseteq tried[current[a]]
    BY <1>c, <2>2 DEF CurrentKnows
  <2>6. ServedBut(X)'
    <3>1. \A k \in Msgs : Finished(k)' => Finished(k) \/ k = current[a]
      BY <2>1, <2>2 DEF Finished
    <3> QED BY <1>c, <2>1, <2>5, <3>1 DEF ServedBut
  <2> QED BY <2>3, <2>4, <2>6 DEF Covered
<1> QED
  BY <1>1, <1>2, <1>3, <1>4, <1>5, <1>6, <1>7, <1>8, <1>9, <1>10
     DEF Next, RouteStep, ActorStep

\* A job of an inbox after the first was taken, and where it was before.
LEMMA TakenFrom ==
  ASSUME FanoutTypes, NEW a \in Actors, ActorTakes(a), NEW b \in Actors,
         NEW i \in 1..Len(inbox'[b])
  PROVE  \E j \in 1..Len(inbox[b]) :
           inbox'[b][i] = inbox[b][j] /\ j = (IF b = a THEN i + 1 ELSE i)
BY InboxTaken

LEMMA OrderStep ==
  ASSUME Basics, OrderInv, Next
  PROVE  OrderInv'
<1> SUFFICES ASSUME ~raced' PROVE InOnePlace'
  BY DEF OrderInv
<1>m. ~raced
  BY DEF Next, RouteStep, ActorStep, RouteLookup, RouteLoad, RouteSpawn, RouteEnqueue,
         AddMember, InvalidateHub, ActorInvalidate, ActorFanout, ActorCopy, ActorDone
<1>c. OneActor /\ OnceInRoute /\ OnceInInbox /\ NewestLast /\ OrderedGot
  BY <1>m DEF OrderInv, InOnePlace
<1>a. FanoutTypes /\ Past /\ Started /\ InboxBound /\ PromisedJoined
  BY DEF Basics
<1>b. sent \in Nat /\ spawned \in Nat /\ MaxMsgs \in Nat /\ HookedHub \in Hubs
      /\ (RestHub # HookedHub => table[RestHub] = NoActor)
  BY <1>a, FanoutConstants, HubsKnown DEF Started, FanoutTypes
<1>d. \A n \in Msgs : n \in Int /\ n # 0 /\ n # Invalidate
  BY DEF Msgs, Invalidate
<1>1. ASSUME NEW s \in Senders, RouteLookup(s) PROVE InOnePlace'
  <2>1. sent' = sent + 1 /\ sent + 1 \in Msgs
    BY <1>1, <1>b DEF RouteLookup, Msgs
  <2>2. UNCHANGED <<table, spawned, current, left, inbox, got>>
    BY <1>1 DEF RouteLookup, actorVars
  <2>3. /\ route[s] = Idle /\ route'[s] # Idle /\ route'[s].msg = sent + 1
        /\ route'[s].pc \in {"load", "spawn"} => table[HookedHub] = NoActor
        /\ \A t \in Senders : t # s => route'[t] = route[t]
        /\ \A t \in Senders : ~Loading(t)
    BY <1>1, <1>a DEF RouteLookup, FanoutTypes, Idle
  <2>4. OneActor'
    <3>1. \A t \in Senders : t # s => ~(Loading(t))'
      BY <2>3 DEF Loading
    <3>2. (Loading(s))' => spawned = 0
      BY <1>c, <2>3 DEF Loading, OneActor, NoActor
    <3> QED BY <1>c, <2>2, <3>1, <3>2 DEF OneActor
  <2>5. OnceInRoute'
    <3>1. /\ \A u \in Users : \A i \in 1..Len(got[u]) : got[u][i] # sent + 1
          /\ \A a \in Actors : current[a] # sent + 1
          /\ \A a \in Actors : \A i \in 1..Len(inbox[a]) : inbox[a][i] # sent + 1
          /\ \A t \in Senders : route[t] # Idle => route[t].msg # sent + 1
      BY <1>a, <1>b DEF Past
    <3> QED BY <1>c, <2>2, <2>3, <3>1 DEF OnceInRoute, Fresh
  <2>6. OnceInInbox' /\ NewestLast' /\ OrderedGot'
    BY <1>c, <2>2 DEF OnceInInbox, NewestLast, OrderedGot, Fresh, Before
  <2> QED BY <2>4, <2>5, <2>6 DEF InOnePlace
<1>2. ASSUME NEW s \in Senders, RouteLoad(s) PROVE InOnePlace'
  <2>1. UNCHANGED <<table, spawned, current, left, inbox, got>>
    BY <1>2 DEF RouteLoad, actorVars
  <2>2. /\ route[s] # Idle /\ Loading(s)
        /\ route'[s] # Idle => route'[s].msg = route[s].msg
        /\ \A t \in Senders : t # s => route'[t] = route[t]
    BY <1>2, <1>a DEF RouteLoad, FanoutTypes, Idle, Loading
  <2>3. OneActor'
    BY <1>c, <2>1, <2>2 DEF OneActor, Loading
  <2>4. OnceInRoute'
    BY <1>c, <2>1, <2>2 DEF OnceInRoute, Fresh
  <2>5. OnceInInbox' /\ NewestLast' /\ OrderedGot'
    BY <1>c, <2>1 DEF OnceInInbox, NewestLast, OrderedGot, Fresh, Before
  <2> QED BY <2>3, <2>4, <2>5 DEF InOnePlace
<1>3. ASSUME NEW s \in Senders, RouteSpawn(s) PROVE InOnePlace'
  <2>1. UNCHANGED <<current, left, inbox, got>>
    BY <1>3 DEF RouteSpawn
  <2>2. /\ route[s] # Idle /\ Loading(s) /\ route'[s].msg = route[s].msg
        /\ route'[s].pc = "enqueue"
        /\ \A t \in Senders : t # s => route'[t] = route[t]
        /\ spawned' = spawned + 1 /\ table'[HookedHub] = spawned + 1
    BY <1>3, <1>a, <1>b DEF RouteSpawn, FanoutTypes, Idle, Loading
  <2>3. OneActor'
    <3>1. spawned = 0 /\ \A t \in Senders : ~(Loading(t))'
      BY <1>c, <2>2 DEF OneActor, Loading
    <3> QED BY <2>2, <3>1 DEF OneActor
  <2>4. OnceInRoute'
    BY <1>c, <2>1, <2>2 DEF OnceInRoute, Fresh
  <2>5. OnceInInbox' /\ NewestLast' /\ OrderedGot'
    BY <1>c, <2>1 DEF OnceInInbox, NewestLast, OrderedGot, Fresh, Before
  <2> QED BY <2>3, <2>4, <2>5 DEF InOnePlace
<1>4. ASSUME NEW s \in Senders, RouteEnqueue(s) PROVE InOnePlace'
  <2>1. UNCHANGED <<table, spawned, current, left, got>>
    BY <1>4 DEF RouteEnqueue, actorVars
  <2>2. PICK a \in Actors, n \in Msgs :
          a = route[s].actor /\ n = route[s].msg /\ route[s] # Idle
    BY <1>4, <1>a, RouteShape DEF RouteEnqueue, Idle
  <2>3. inbox' = [inbox EXCEPT ![a] = Append(@, n)] /\ n \in 0..MaxMsgs
    BY <1>4, <2>2 DEF RouteEnqueue, Msgs
  <2>4. /\ Len(inbox'[a]) = Len(inbox[a]) + 1 /\ Len(inbox[a]) \in Nat
        /\ \A i \in 1..Len(inbox[a]) : inbox'[a][i] = inbox[a][i]
        /\ inbox'[a][Len(inbox[a]) + 1] = n
        /\ \A b \in Actors : b # a => inbox'[b] = inbox[b]
    BY <1>a, <2>3, InboxAppended
  <2>5. route'[s] = Idle /\ \A t \in Senders : t # s => route'[t] = route[t]
    BY <1>4, <1>a DEF RouteEnqueue, FanoutTypes
  <2>6. /\ Fresh(n)
        /\ \A t \in Senders : t # s /\ route[t] # Idle => route[t].msg # n
        /\ \A b \in Actors : current[b] # n /\ \A i \in 1..Len(inbox[b]) : inbox[b][i] # n
    BY <1>c, <2>2 DEF OnceInRoute
  <2>7. \A b \in Actors : \A i \in 1..Len(inbox'[b]) :
          \/ i \in 1..Len(inbox[b]) /\ inbox'[b][i] = inbox[b][i]
          \/ b = a /\ i = Len(inbox[a]) + 1 /\ inbox'[b][i] = n
    BY <2>4
  <2>8. OneActor'
    BY <1>c, <2>1, <2>5 DEF OneActor, Loading, Idle
  <2>9. OnceInRoute'
    <3>1. ASSUME NEW t \in Senders, route'[t] # Idle
          PROVE  route'[t] = route[t] /\ t # s /\ route[t].msg # n
      BY <2>5, <2>6, <3>1
    <3> QED BY <1>c, <2>1, <2>5, <2>7, <3>1 DEF OnceInRoute, Fresh
  <2>10. OnceInInbox'
    <3> SUFFICES ASSUME NEW b \in Actors, NEW i \in 1..Len(inbox'[b]), inbox'[b][i] # Invalidate
                 PROVE  /\ Fresh(inbox'[b][i])
                        /\ current[b] # inbox'[b][i]
                        /\ \A j \in 1..Len(inbox'[b]) : inbox'[b][j] = inbox'[b][i] => i = j
      BY <2>1 DEF OnceInInbox, Fresh
    <3>1. CASE i \in 1..Len(inbox[b]) /\ inbox'[b][i] = inbox[b][i]
      BY <1>c, <2>6, <2>7, <3>1 DEF OnceInInbox
    <3>2. CASE b = a /\ i = Len(inbox[a]) + 1 /\ inbox'[b][i] = n
      BY <2>6, <2>7, <3>2
    <3> QED BY <2>7, <3>1, <3>2
  <2>11. NewestLast' /\ OrderedGot'
    BY <1>c, <2>1 DEF NewestLast, OrderedGot, Before
  <2> QED BY <2>8, <2>9, <2>10, <2>11 DEF InOnePlace
<1>5. ASSUME NEW u \in Users, AddMember(u) PROVE InOnePlace'
  <2>1. UNCHANGED <<table, spawned, current, left, inbox, got, route>>
    BY <1>5 DEF AddMember, actorVars
  <2> QED BY <1>c, <2>1 DEF InOnePlace, OneActor, Loading, OnceInRoute, OnceInInbox, Fresh,
                          NewestLast, OrderedGot, Before
<1>6. ASSUME NEW u \in Users, InvalidateHub(u) PROVE InOnePlace'
  <2>1. UNCHANGED <<table, spawned, current, left, route, got>>
    BY <1>6 DEF InvalidateHub, actorVars
  <2>2. \A b \in Actors : \A i \in 1..Len(inbox'[b]) :
          \/ i \in 1..Len(inbox[b]) /\ inbox'[b][i] = inbox[b][i]
          \/ inbox'[b][i] = Invalidate
    <3>1. CASE inbox' = inbox
      BY <3>1
    <3>2. CASE inbox' # inbox
      <4>1. PICK a \in Actors : a = table[RestHub]
        BY <1>6, <1>a, <3>2, HubsKnown DEF InvalidateHub, FanoutTypes, NoActor, Actors
      <4>2. inbox' = [inbox EXCEPT ![a] = Append(@, Invalidate)] /\ Invalidate \in 0..MaxMsgs
        BY <1>6, <1>b, <3>2, <4>1 DEF InvalidateHub, Invalidate
      <4>3. /\ Len(inbox'[a]) = Len(inbox[a]) + 1 /\ Len(inbox[a]) \in Nat
            /\ \A i \in 1..Len(inbox[a]) : inbox'[a][i] = inbox[a][i]
            /\ inbox'[a][Len(inbox[a]) + 1] = Invalidate
            /\ \A b \in Actors : b # a => inbox'[b] = inbox[b]
        BY <1>a, <4>2, InboxAppended
      <4> QED BY <4>3
    <3> QED BY <3>1, <3>2
  <2>3. OneActor' /\ NewestLast' /\ OrderedGot'
    BY <1>c, <2>1 DEF OneActor, Loading, NewestLast, OrderedGot, Before
  <2>4. OnceInRoute'
    <3>1. \A t \in Senders : route[t] # Idle => route[t].msg # Invalidate
      BY <1>a, <1>d, RouteShape
    <3> QED BY <1>c, <2>1, <2>2, <3>1 DEF OnceInRoute, Fresh
  <2>5. OnceInInbox'
    <3> SUFFICES ASSUME NEW b \in Actors, NEW i \in 1..Len(inbox'[b]), inbox'[b][i] # Invalidate
                 PROVE  /\ Fresh(inbox'[b][i])
                        /\ current[b] # inbox'[b][i]
                        /\ \A j \in 1..Len(inbox'[b]) : inbox'[b][j] = inbox'[b][i] => i = j
      BY <2>1 DEF OnceInInbox, Fresh
    <3> QED BY <1>c, <2>2 DEF OnceInInbox
  <2> QED BY <2>3, <2>4, <2>5 DEF InOnePlace
\* The first job of an inbox is taken; what is current becomes that job or nothing.
<1>7. ASSUME NEW a \in Actors, ActorTakes(a),
             UNCHANGED <<table, spawned, route, got>>
      PROVE  /\ OneActor' /\ OrderedGot'
             /\ \A t \in Senders : route'[t] # Idle =>
                  /\ Fresh(route'[t].msg)
                  /\ \A r \in Senders : route'[r] # Idle /\ route'[r].msg = route'[t].msg => t = r
                  /\ \A b \in Actors : \A i \in 1..Len(inbox'[b]) : inbox'[b][i] # route'[t].msg
             /\ \A b \in Actors : \A i \in 1..Len(inbox'[b]) : inbox'[b][i] # Invalidate =>
                  /\ Fresh(inbox'[b][i])
                  /\ current[b] # inbox'[b][i]
                  /\ b = a => inbox'[b][i] # Head(inbox[a])
                  /\ \A j \in 1..Len(inbox'[b]) : inbox'[b][j] = inbox'[b][i] => i = j
  <2>1. OneActor' /\ OrderedGot'
    BY <1>c, <1>7 DEF OneActor, Loading, OrderedGot, Before
  <2>2. \A b \in Actors : \A i \in 1..Len(inbox'[b]) : \E j \in 1..Len(inbox[b]) :
           inbox'[b][i] = inbox[b][j] /\ j = (IF b = a THEN i + 1 ELSE i)
    BY <1>a, <1>7, TakenFrom
  <2>3. Head(inbox[a]) = inbox[a][1] /\ 1 \in 1..Len(inbox[a])
    BY <1>a, <1>7, InboxTaken
  <2>4. \A t \in Senders : route'[t] # Idle =>
          /\ Fresh(route'[t].msg)
          /\ \A r \in Senders : route'[r] # Idle /\ route'[r].msg = route'[t].msg => t = r
          /\ \A b \in Actors : \A i \in 1..Len(inbox'[b]) : inbox'[b][i] # route'[t].msg
    BY <1>c, <1>7, <2>2 DEF OnceInRoute
  <2>5. ASSUME NEW b \in Actors, NEW i \in 1..Len(inbox'[b]), inbox'[b][i] # Invalidate
        PROVE  /\ Fresh(inbox'[b][i])
               /\ current[b] # inbox'[b][i]
               /\ b = a => inbox'[b][i] # Head(inbox[a])
               /\ \A j \in 1..Len(inbox'[b]) : inbox'[b][j] = inbox'[b][i] => i = j
    <3>1. PICK j \in 1..Len(inbox[b]) :
            inbox'[b][i] = inbox[b][j] /\ j = (IF b = a THEN i + 1 ELSE i)
      BY <2>2
    <3>2. /\ Fresh(inbox[b][j]) /\ current[b] # inbox[b][j]
          /\ \A k \in 1..Len(inbox[b]) : inbox[b][k] = inbox[b][j] => j = k
      BY <1>c, <2>5, <3>1 DEF OnceInInbox
    <3>3. b = a => inbox[b][j] # Head(inbox[a])
      <4>1. b = a => j # 1
        BY <3>1
      <4> QED BY <2>3, <3>2, <4>1
    <3>4. ASSUME NEW k \in 1..Len(inbox'[b]), inbox'[b][k] = inbox'[b][i] PROVE i = k
      <4>1. PICK h \in 1..Len(inbox[b]) :
              inbox'[b][k] = inbox[b][h] /\ h = (IF b = a THEN k + 1 ELSE k)
        BY <2>2
      <4>2. j = h
        BY <3>1, <3>2, <3>4, <4>1
      <4> QED BY <3>1, <4>1, <4>2
    <3> QED BY <3>1, <3>2, <3>3, <3>4
  <2> QED BY <2>1, <2>4, <2>5
<1>8. ASSUME NEW a \in Actors, ActorInvalidate(a) PROVE InOnePlace'
  <2>1. ActorTakes(a) /\ UNCHANGED <<table, spawned, route, got, current, left>>
    BY <1>8 DEF ActorInvalidate
  <2>2. OnceInRoute'
    BY <1>7, <1>c, <2>1 DEF OnceInRoute, Fresh
  <2>3. OnceInInbox'
    BY <1>7, <2>1 DEF OnceInInbox, Fresh
  <2>4. NewestLast'
    BY <1>c, <2>1 DEF NewestLast
  <2> QED BY <1>7, <2>1, <2>2, <2>3, <2>4 DEF InOnePlace
<1>9. ASSUME NEW a \in Actors, ActorFanout(a) PROVE InOnePlace'
  <2>1. ActorTakes(a) /\ UNCHANGED <<table, spawned, route, got>>
    BY <1>9 DEF ActorFanout
  <2>2. PICK n : n = Head(inbox[a])
    OBVIOUS
  <2>3. /\ current'[a] = n /\ n # Invalidate
        /\ \A b \in Actors : b # a => current'[b] = current[b] /\ left'[b] = left[b]
    BY <1>9, <1>a, <2>2 DEF ActorFanout, FanoutTypes
  <2>4. n = inbox[a][1] /\ 1 \in 1..Len(inbox[a])
    BY <1>a, <2>1, <2>2, InboxTaken
  <2>5. Fresh(n) /\ \A t \in Senders : route[t] # Idle => route[t].msg # n
    BY <1>c, <2>3, <2>4 DEF OnceInInbox, OnceInRoute
  <2>6. OnceInRoute'
    <3>1. ASSUME NEW t \in Senders, route[t] # Idle, NEW b \in Actors PROVE current'[b] # route[t].msg
      BY <1>c, <2>3, <2>5, <3>1 DEF OnceInRoute
    <3> QED BY <1>7, <2>1, <3>1 DEF OnceInRoute, Fresh
  <2>7. OnceInInbox'
    <3>1. ASSUME NEW b \in Actors, NEW i \in 1..Len(inbox'[b]), inbox'[b][i] # Invalidate
          PROVE  current'[b] # inbox'[b][i]
      BY <1>7, <2>1, <2>2, <2>3, <3>1
    <3> QED BY <1>7, <2>1, <3>1 DEF OnceInInbox, Fresh
  <2>8. NewestLast'
    <3> SUFFICES ASSUME NEW b \in Actors, current'[b] # 0, NEW u \in Users,
                        NEW i \in 1..Len(got[u]), got[u][i] = current'[b]
                 PROVE  i = Len(got[u]) /\ u \notin left'[b]
      BY <2>1 DEF NewestLast
    <3>1. b # a
      BY <2>3, <2>5 DEF Fresh
    <3> QED BY <1>c, <2>3, <3>1 DEF NewestLast
  <2> QED BY <1>7, <2>1, <2>6, <2>7, <2>8 DEF InOnePlace
<1>10. ASSUME NEW a \in Actors, ActorCopy(a) PROVE InOnePlace'
  <2>1. UNCHANGED <<table, spawned, inbox, current, route>>
    BY <1>10 DEF ActorCopy
  <2>2. PICK u \in Users, n \in Msgs : u = NextMember(a) /\ n = current[a] /\ u \in left[a]
    <3>1. NextMember(a) \in left[a] /\ left[a] \subseteq Users
      BY <1>10, <1>a, NextMemberIn DEF ActorCopy, FanoutTypes
    <3>2. current[a] \in Msgs
      BY <1>10, <1>a DEF ActorCopy, FanoutTypes, Msgs
    <3> QED BY <3>1, <3>2
  <2>3. /\ left' = [left EXCEPT ![a] = @ \ {u}]
        /\ got' = got \/ got' = [got EXCEPT ![u] = Append(@, n)]
    BY <1>10, <2>2 DEF ActorCopy, fanout_one
  <2>4. /\ left'[a] = left[a] \ {u}
        /\ \A b \in Actors : b # a => left'[b] = left[b]
    BY <1>a, <2>3 DEF FanoutTypes
  \* a is the only actor with anything to do
  <2>5. \A b \in Actors : current[b] # 0 => b = a
    <3>1. \A b \in Actors : current[b] # 0 => b = 1
      <4>1. \A b \in Actors : current[b] # 0 => ~(b > spawned)
        BY <1>a DEF Started
      <4> QED BY <1>b, <1>c, <4>1 DEF OneActor, Actors
    <3>2. current[a] # 0
      BY <1>d, <2>2
    <3> QED BY <3>1, <3>2
  <2>6. OneActor'
    BY <1>c, <2>1 DEF OneActor, Loading
  <2>7. CASE got' = got
    <3>1. OnceInRoute' /\ OnceInInbox' /\ OrderedGot'
      BY <1>c, <2>1, <2>7 DEF OnceInRoute, OnceInInbox, Fresh, OrderedGot, Before
    <3>2. NewestLast'
      BY <1>c, <2>1, <2>4, <2>7 DEF NewestLast
    <3> QED BY <2>6, <3>1, <3>2 DEF InOnePlace
  <2>8. CASE got' = [got EXCEPT ![u] = Append(@, n)]
    <3>1. /\ Len(got'[u]) = Len(got[u]) + 1 /\ Len(got[u]) \in Nat
          /\ \A i \in 1..Len(got[u]) : got'[u][i] = got[u][i]
          /\ got'[u][Len(got[u]) + 1] = n
          /\ \A v \in Users : v # u => got'[v] = got[v]
      BY <1>a, <2>8, GotAppended
    <3>2. \A v \in Users : \A i \in 1..Len(got'[v]) :
            \/ i \in 1..Len(got[v]) /\ got'[v][i] = got[v][i]
            \/ v = u /\ i = Len(got'[u]) /\ got'[v][i] = n
      BY <3>1
    <3>3. \A m : Fresh(m) /\ m # n => Fresh(m)'
      BY <3>2 DEF Fresh
    <3>4. OnceInRoute'
      <4>1. \A t \in Senders : route[t] # Idle => route[t].msg # n
        BY <1>c, <2>2 DEF OnceInRoute
      <4>2. \A t \in Senders : route[t] # Idle => \A v \in Users : \A i \in 1..Len(got'[v]) : got'[v][i] # route[t].msg
        BY <1>c, <3>3, <4>1 DEF OnceInRoute, Fresh
      <4> QED BY <1>c, <2>1, <4>2 DEF OnceInRoute, Fresh
    <3>5. OnceInInbox'
      <4>1. ASSUME NEW b \in Actors, NEW i \in 1..Len(inbox[b]), inbox[b][i] # Invalidate
            PROVE  inbox[b][i] # n
        <5>1. i \in 1..Len(inbox[b]) => inbox[b] # << >>
          BY Lengths, <1>a
        <5>2. b = a
          <6>1. ~(b > spawned) /\ ~(a > spawned)
            BY <1>a, <1>d, <2>2, <5>1 DEF Started
          <6> QED BY <1>b, <1>c, <6>1 DEF OneActor, Actors
        <5> QED BY <1>c, <2>2, <4>1, <5>2 DEF OnceInInbox
      <4>2. \A b \in Actors : \A i \in 1..Len(inbox[b]) : inbox[b][i] # Invalidate =>
              \A v \in Users : \A j \in 1..Len(got'[v]) : got'[v][j] # inbox[b][i]
        BY <1>c, <3>3, <4>1 DEF OnceInInbox, Fresh
      <4> QED BY <1>c, <2>1, <4>2 DEF OnceInInbox, Fresh
    \* n is nowhere but last
    <3>6. \A v \in Users : \A i \in 1..Len(got'[v]) :
            got'[v][i] = n => i = Len(got'[v]) /\ v \notin left'[a]
      <4>1. \A v \in Users : \A i \in 1..Len(got[v]) :
              got[v][i] = n => i = Len(got[v]) /\ v \notin left[a]
        BY <1>c, <1>d, <2>2 DEF NewestLast
      <4> QED BY <2>2, <2>4, <3>1, <3>2, <4>1
    <3>7. NewestLast'
      BY <2>1, <2>2, <2>5, <3>6 DEF NewestLast
    <3>8. ASSUME NEW v \in Users, NEW k, NEW m \in Msgs, Before(v, k, m)'
          PROVE  k # n /\ (m # n => Before(v, k, m))
      <4>1. PICK i, j \in 1..Len(got'[v]) : i < j /\ got'[v][i] = k /\ got'[v][j] = m
        BY <3>8 DEF Before
      <4>2. Len(got'[v]) \in Nat
        BY <3>1, <1>a, Lengths
      <4>3. i # Len(got'[v])
        BY <4>1, <4>2
      <4>4. k # n
        BY <3>6, <4>1, <4>3
      <4>5. m # n => Before(v, k, m)
        BY <3>2, <4>1, <4>4 DEF Before
      <4> QED BY <4>4, <4>5
    <3>9. OrderedGot'
      <4> SUFFICES ASSUME NEW v \in Users, NEW w \in Users, NEW k \in Msgs, NEW m \in Msgs,
                          Before(v, k, m)', Before(w, m, k)'
                   PROVE  FALSE
        BY DEF OrderedGot
      <4>1. k # n /\ (m # n => Before(v, k, m))
        BY <3>8
      <4>2. m # n /\ (k # n => Before(w, m, k))
        BY <3>8
      <4> QED BY <1>c, <4>1, <4>2 DEF OrderedGot
    <3> QED BY <2>6, <3>4, <3>5, <3>7, <3>9 DEF InOnePlace
  <2> QED BY <2>3, <2>7, <2>8
<1>11. ASSUME NEW a \in Actors, ActorDone(a) PROVE InOnePlace'
  <2>1. UNCHANGED <<table, spawned, inbox, left, route, got>>
    BY <1>11 DEF ActorDone
  <2>2. \A b \in Actors : current'[b] = current[b] \/ current'[b] = 0
    BY <1>11, <1>a DEF ActorDone, FanoutTypes
  <2>3. OneActor' /\ OrderedGot'
    BY <1>c, <2>1 DEF OneActor, Loading, OrderedGot, Before
  <2>4. OnceInRoute'
    <3>1. \A t \in Senders : route[t] # Idle => route[t].msg # 0
      BY <1>a, <1>d, RouteShape
    <3> QED BY <1>c, <2>1, <2>2, <3>1 DEF OnceInRoute, Fresh
  <2>5. OnceInInbox'
    BY <1>c, <2>1, <2>2 DEF OnceInInbox, Fresh, Invalidate
  <2>6. NewestLast'
    BY <1>c, <2>1, <2>2 DEF NewestLast
  <2> QED BY <2>3, <2>4, <2>5, <2>6 DEF InOnePlace
<1> QED
  BY <1>1, <1>2, <1>3, <1>4, <1>5, <1>6, <1>8, <1>9, <1>10, <1>11
     DEF Next, RouteStep, ActorStep

(***************************************************************************)
(* The invariants hold initially and are kept.                             *)
(***************************************************************************)
LEMMA FanoutInit == Init => Basics /\ ServedInv /\ OrderInv
<1> SUFFICES ASSUME Init PROVE Basics /\ ServedInv /\ OrderInv
  OBVIOUS
<1>1. /\ MaxMsgs \in Nat /\ MaxActors \in Nat /\ INBOX \in Nat
      /\ Senders \subseteq Users /\ Owner \in Users
  BY FanoutConstants
<1>2. /\ db = Senders \cup {Owner} /\ joined = db /\ adding = {} /\ sent = 0 /\ spawned = 0
      /\ \A h \in Hubs : table[h] = 0
      /\ \A a \in Actors : inbox[a] = << >> /\ current[a] = 0
      /\ \A s \in Senders : route[s] = Idle
      /\ \A u \in Users : got[u] = << >>
      /\ \A n \in Msgs : promised[n] = {}
  BY DEF Init, Hubs, NoActor, HookedHub
<1>3. FanoutTypes
  <2>1. /\ Hubs \in {{HookedHub}, {HookedHub, "web"}} /\ table \in [Hubs -> 0..MaxActors]
        /\ members \in [Actors -> SUBSET Users]
        /\ dirty \in [Actors -> BOOLEAN] /\ inbox \in [Actors -> Seq(0..MaxMsgs)]
        /\ current \in [Actors -> 0..MaxMsgs] /\ left \in [Actors -> SUBSET Users]
    <3>1. PICK cloned \in Wirings :
            table = [h \in (IF cloned THEN {HookedHub, "web"} ELSE {HookedHub}) |-> NoActor]
      BY DEF Init
    <3>2. Hubs \in {{HookedHub}, {HookedHub, "web"}}
      BY <3>1 DEF Hubs
    <3>3. table \in [Hubs -> 0..MaxActors]
      BY <1>1, <3>1 DEF Hubs, NoActor
    <3>4. /\ members \in [Actors -> SUBSET Users] /\ dirty \in [Actors -> BOOLEAN]
          /\ inbox \in [Actors -> Seq(0..MaxMsgs)] /\ current \in [Actors -> 0..MaxMsgs]
          /\ left \in [Actors -> SUBSET Users]
      BY <1>1 DEF Init
    <3> QED BY <3>2, <3>3, <3>4
  <2>2. /\ from \in [Msgs -> Users] /\ promised \in [Msgs -> SUBSET Users]
        /\ tried \in [Msgs -> SUBSET Users] /\ got \in [Users -> Seq(Msgs)]
        /\ stray = {} /\ stale = {} /\ unheard = {}
    BY <1>1 DEF Init
  <2>r. raced \in BOOLEAN
    BY Zenon DEF Init
  <2>3. route \in [Senders -> RouteStates]
    BY DEF Init, RouteStates
  <2> QED BY <1>1, <1>2, <2>1, <2>2, <2>r, <2>3 DEF FanoutTypes
<1>4. Past /\ Started /\ InboxBound /\ PromisedJoined
  BY <1>1, <1>2 DEF Past, Started, InboxBound, PromisedJoined, Idle, NoActor
<1>5. ServedInv
  <2> SUFFICES ASSUME NEW X \in SUBSET Users PROVE Covered(X)
    BY DEF ServedInv
  <2>1. ServedBut(X)
    BY <1>2 DEF ServedBut
  <2>2. table[HookedHub] = NoActor
    BY <1>2, <1>3, HubsKnown DEF NoActor
  <2>3. TableKnows(X) /\ RouteKnows(X) /\ InboxKnows(X) /\ CurrentKnows(X)
    BY <1>2, <2>2 DEF TableKnows, RouteKnows, InboxKnows, CurrentKnows, Idle
  <2> QED BY <2>1, <2>3 DEF Covered
<1>6. OrderInv
  <2>1. OneActor
    BY <1>2, <1>3, HubsKnown DEF OneActor, Loading, Idle
  <2>2. OnceInRoute /\ OnceInInbox /\ NewestLast /\ OrderedGot
    BY <1>2 DEF OnceInRoute, OnceInInbox, NewestLast, OrderedGot, Before
  <2> QED BY <2>1, <2>2 DEF OrderInv, InOnePlace
<1> QED BY <1>3, <1>4, <1>5, <1>6 DEF Basics

LEMMA BasicsInvariant == Spec => []Basics
<1>1. Basics /\ UNCHANGED vars => Basics'
  BY DEF vars, actorVars, missed, Hubs, Basics, FanoutTypes, Past, Started, InboxBound, PromisedJoined
<1>2. Basics /\ [Next]_vars => Basics'
  BY <1>1, BasicsStep
<1> QED BY <1>2, FanoutInit, PTL DEF Spec

(***************************************************************************)
(* Every member whose addition was answered before a message was sent gets *)
(* it, unless a snapshot misses that member for good (stale) or the signal *)
(* went to a table without the actor (unheard): for the hub of             *)
(* AppState::new, which the session core has a clone of, and for one that  *)
(* is shared (GroupHub::route, invalidate and clone, actor_loop).          *)
(***************************************************************************)
THEOREM MembersServed == Spec => []ServedUnlessStale
<1>1. ASSUME ServedInv, UNCHANGED vars PROVE ServedInv'
  <2> SUFFICES ASSUME NEW X \in SUBSET Users, stale' \cup unheard' \subseteq X
               PROVE  Covered(X)'
    BY DEF ServedInv
  <2>1. Covered(X)
    BY <1>1 DEF ServedInv, vars
  <2>2. UNCHANGED <<table, members, dirty, inbox, current, left, route, sent, joined,
                    promised, tried, stray>>
    BY <1>1 DEF vars
  <2> QED
    BY <2>1, <2>2 DEF Covered, TableKnows, RouteKnows, InboxKnows, CurrentKnows, ServedBut,
       Finished, Reaches, WillReload, AtEnd
<1>2. Basics /\ ServedInv /\ [Next]_vars => ServedInv'
  BY <1>1, ServedStep
<1>3. Basics /\ ServedInv => ServedUnlessStale
  BY DEF Basics, FanoutTypes, ServedInv, Covered, ServedUnlessStale
<1> QED BY <1>2, <1>3, FanoutInit, BasicsInvariant, PTL DEF Spec

(***************************************************************************)
(* All members get the messages of a group in one order and none twice,    *)
(* unless the first messages of a group raced to start its actor           *)
(* (actor_loop: the order seen is the order of the actor).                 *)
(***************************************************************************)
THEOREM OneOrderForAll == Spec => []OneOrder
<1>1. ASSUME OrderInv, UNCHANGED vars PROVE OrderInv'
  <2> SUFFICES ASSUME ~raced' PROVE InOnePlace'
    BY DEF OrderInv
  <2>1. InOnePlace
    BY <1>1 DEF OrderInv, vars
  <2>2. UNCHANGED <<table, spawned, inbox, current, left, route, got>>
    BY <1>1 DEF vars
  <2> QED
    BY <2>1, <2>2 DEF InOnePlace, OneActor, Loading, OnceInRoute, OnceInInbox,
       Fresh, NewestLast, OrderedGot, Before
<1>2. Basics /\ OrderInv /\ [Next]_vars => OrderInv'
  BY <1>1, OrderStep
<1>3. OrderInv => OneOrder
  BY DEF OrderInv, InOnePlace, OrderedGot, OneOrder
<1> QED BY <1>2, <1>3, FanoutInit, BasicsInvariant, PTL DEF Spec
=============================================================================
