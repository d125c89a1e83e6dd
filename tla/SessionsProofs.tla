--------------------------- MODULE SessionsProofs ---------------------------
(***************************************************************************)
(* Proofs about module Sessions, for any set of users, any number of       *)
(* connections, messages and frames, and any capacities.                   *)
(***************************************************************************)
EXTENDS Sessions, FiniteSetTheorems, TLAPS

(***************************************************************************)
(* The part of the type invariant the arguments need.                      *)
(***************************************************************************)
Shape ==
  /\ conn_seq \in 0..MaxConn
  /\ task \in [Conns -> {"none", "live", "ended"}]
  /\ user \in [Conns -> Users \cup {NoUser}]
  /\ router \in [Users -> Conns \cup {NoConn}]
  /\ up \in [Conns -> Seq(UpFrames)]
  /\ DOMAIN job = Conns /\ job = [c \in Conns |-> job[c]]

\* A connection that has not been accepted has no session and no user.
Fresh == \A c \in Conns : c > conn_seq => task[c] = "none" /\ user[c] = NoUser

\* The message of an acknowledgement about to be sent is in custody.
AckPending ==
  \A c \in Conns : job[c].kind = "reply" /\ job[c].frame.cmd = "MsgAck" =>
    job[c].frame.msg \in placed

RInv == Shape /\ Fresh /\ RouterMatchesSessions
AInv == AckPending /\ AckAfterCustody

\* The frame a session task takes.
LEMMA HeadOfUp ==
  ASSUME Shape, NEW c \in Conns, NEW cmd, Takes(c, cmd)
  PROVE /\ Head(up[c]) \in UpFrames
        /\ up' \in [Conns -> Seq(UpFrames)]
<1>1. up[c] \in Seq(UpFrames) /\ up[c] # << >>
  BY DEF Shape, Takes
<1>2. Head(up[c]) \in UpFrames /\ Tail(up[c]) \in Seq(UpFrames)
  BY <1>1
<1> QED BY <1>2 DEF Takes, Shape

\* The user of a Handshake is a user.
LEMMA HandshakeUser ==
  ASSUME NEW f \in UpFrames, f.cmd = "Handshake"
  PROVE f.user \in Users
BY DEF UpFrames

(***************************************************************************)
(* A step keeps the shape of the state.                                    *)
(***************************************************************************)
LEMMA ShapeStep ==
  ASSUME Shape, [Next]_vars
  PROVE Shape'
<1> USE SessionsAssumption DEF Shape
<1>1. CASE Accept
  <2>1. conn_seq + 1 \in Conns /\ conn_seq' \in 0..MaxConn
    BY <1>1 DEF Accept, AcceptConn, Conns
  <2> QED BY <1>1, <2>1 DEF Accept, AcceptConn, wires
<1>2. ASSUME NEW c \in Conns, HandshakeRefused(c) PROVE Shape'
  BY <1>2, HeadOfUp DEF HandshakeRefused
<1>3. ASSUME NEW c \in Conns, HandshakeAccepted(c) PROVE Shape'
  <2>1. Head(up[c]).user \in Users /\ up' \in [Conns -> Seq(UpFrames)]
    BY <1>3, HeadOfUp, HandshakeUser DEF HandshakeAccepted, Takes
  <2>2. user' \in [Conns -> Users \cup {NoUser}]
    BY <1>3, <2>1 DEF HandshakeAccepted
  <2>3. router' \in [Users -> Conns \cup {NoConn}]
    BY <1>3, <2>1 DEF HandshakeAccepted, register, Router_register
  <2>4. DOMAIN job' = Conns /\ job' = [d \in Conns |-> job'[d]]
    BY <1>3 DEF HandshakeAccepted
  <2> QED BY <1>3, <2>1, <2>2, <2>3, <2>4 DEF HandshakeAccepted
<1>4. ASSUME NEW c \in Conns, MsgDropped(c) PROVE Shape'
  BY <1>4, HeadOfUp DEF MsgDropped
<1>5. ASSUME NEW c \in Conns, MsgNumbered(c) PROVE Shape'
  BY <1>5, HeadOfUp DEF MsgNumbered
<1>6. ASSUME NEW c \in Conns, DeliverLookup(c) PROVE Shape'
  BY <1>6 DEF DeliverLookup, Router_get, wires
<1>7. ASSUME NEW c \in Conns, DeliverSend(c) PROVE Shape'
  BY <1>7 DEF DeliverSend
<1>8. ASSUME NEW c \in Conns, DeliverStore(c) PROVE Shape'
  BY <1>8 DEF DeliverStore, wires
<1>9. ASSUME NEW c \in Conns, SyncIgnored(c) PROVE Shape'
  BY <1>9, HeadOfUp DEF SyncIgnored
<1>10. ASSUME NEW c \in Conns, SyncTaken(c) PROVE Shape'
  BY <1>10, HeadOfUp DEF SyncTaken
<1>11. ASSUME NEW c \in Conns, Reply(c) PROVE Shape'
  BY <1>11 DEF Reply
<1>12. ASSUME NEW c \in Conns, SessionEnd(c) PROVE Shape'
  <2>1. router' \in [Users -> Conns \cup {NoConn}]
    BY <1>12 DEF SessionEnd, unregister, Router_remove_if
  <2>2. task' \in [Conns -> {"none", "live", "ended"}]
    BY <1>12 DEF SessionEnd
  <2> QED BY <1>12, <2>1, <2>2 DEF SessionEnd, wires
<1>13. ASSUME NEW c \in Conns, ReaderExit(c) PROVE Shape'
  <2>1. PICK k \in 0..Len(up[c]) : up' = [up EXCEPT ![c] = SubSeq(@, 1, k)]
    BY <1>13 DEF ReaderExit
  <2>2. SubSeq(up[c], 1, k) \in Seq(UpFrames)
    OBVIOUS
  <2> QED BY <1>13, <2>1, <2>2 DEF ReaderExit
<1>14. ASSUME NEW c \in Conns, WriterExit(c) PROVE Shape'
  BY <1>14 DEF WriterExit
<1>15. ASSUME NEW c \in Conns, ClientRead(c) PROVE Shape'
  BY <1>15 DEF ClientRead
<1>16. ASSUME NEW c \in Conns, NEW f \in ClientFrames, ClientSend(c, f) PROVE Shape'
  <2>1. Append(up[c], f) \in Seq(UpFrames)
    OBVIOUS
  <2> QED BY <1>16, <2>1 DEF ClientSend
<1>17. CASE UNCHANGED vars
  BY <1>17 DEF vars
<1> QED
  BY <1>1, <1>2, <1>3, <1>4, <1>5, <1>6, <1>7, <1>8, <1>9, <1>10, <1>11, <1>12,
     <1>13, <1>14, <1>15, <1>16, <1>17 DEF Next, ServerNext, SessionStep

\* Only three steps touch what the routing invariant speaks of.
LEMMA RoutingSteps ==
  ASSUME [Next]_vars
  PROVE \/ Accept
        \/ \E c \in Conns : HandshakeAccepted(c) \/ SessionEnd(c)
        \/ UNCHANGED <<conn_seq, task, user, router>>
<1> DEFINE Untouched == UNCHANGED <<conn_seq, task, user, router>>
<1>1. ASSUME NEW c \in Conns, HandshakeRefused(c) \/ MsgDropped(c) \/ MsgNumbered(c)
      PROVE Untouched
  BY <1>1 DEF HandshakeRefused, MsgDropped, MsgNumbered
<1>2. ASSUME NEW c \in Conns, DeliverLookup(c) \/ DeliverSend(c) \/ DeliverStore(c)
      PROVE Untouched
  BY <1>2 DEF DeliverLookup, DeliverSend, DeliverStore
<1>3. ASSUME NEW c \in Conns, SyncIgnored(c) \/ SyncTaken(c) \/ Reply(c)
      PROVE Untouched
  BY <1>3 DEF SyncIgnored, SyncTaken, Reply
<1>4. ASSUME NEW c \in Conns, ReaderExit(c) \/ WriterExit(c) \/ ClientRead(c)
      PROVE Untouched
  BY <1>4 DEF ReaderExit, WriterExit, ClientRead
<1>5. ASSUME NEW c \in Conns, NEW f, ClientSend(c, f)
      PROVE Untouched
  BY <1>5 DEF ClientSend
<1> DEFINE Goal == \/ Accept
                   \/ \E c \in Conns : HandshakeAccepted(c) \/ SessionEnd(c)
                   \/ Untouched
<1>6. ASSUME NEW c \in Conns, SessionStep(c) PROVE Goal
  BY <1>1, <1>2, <1>3, <1>6 DEF SessionStep
<1>7. ASSUME NEW c \in Conns, ReaderExit(c) \/ WriterExit(c) \/ ClientRead(c) PROVE Goal
  BY <1>4, <1>7
<1>8. ASSUME NEW c \in Conns, NEW f, ClientSend(c, f) PROVE Goal
  BY <1>5, <1>8
<1>9. Accept => Goal
  OBVIOUS
<1>10. ASSUME UNCHANGED vars PROVE Goal
  <2>1. Untouched
    BY <1>10 DEF vars
  <2> QED BY <2>1
<1> HIDE DEF Goal
<1>11. Goal
  BY <1>6, <1>7, <1>8, <1>9, <1>10 DEF Next, ServerNext
<1> QED BY <1>11 DEF Goal

(***************************************************************************)
(* The routing invariant is kept: a login finds the user's entry free, and *)
(* the end of a session finds its own entry.                               *)
(***************************************************************************)
LEMMA RoutingStep ==
  ASSUME RInv, [Next]_vars
  PROVE Fresh' /\ RouterMatchesSessions'
<1> USE SessionsAssumption DEF RInv, Fresh, RouterMatchesSessions
<1>a. \A c \in Conns : c \in Nat /\ c # NoConn
  BY DEF Conns
<1>1. CASE Accept
  <2> DEFINE n == conn_seq + 1
  <2>1. /\ n \in Conns /\ conn_seq' = n /\ task' = [task EXCEPT ![n] = "live"]
        /\ user' = user /\ router' = router
    BY <1>1 DEF Accept, AcceptConn, Conns, Shape
  <2>2. task[n] = "none" /\ user[n] = NoUser
    BY <2>1 DEF Shape
  <2>3. \A c \in Conns \ {n} : task'[c] = task[c]
    BY <2>1 DEF Shape
  <2>4. Fresh'
    BY <2>1, <2>3, <1>a DEF Shape
  <2>5. \A u \in Users : router[u] # NoConn => router[u] # n
    BY <2>2
  <2> QED BY <2>1, <2>2, <2>3, <2>4, <2>5 DEF Shape
<1>2. ASSUME NEW c \in Conns, HandshakeAccepted(c)
      PROVE Fresh' /\ RouterMatchesSessions'
  <2> DEFINE w == Head(up[c]).user
  <2>1. w \in Users
    BY <1>2, HeadOfUp, HandshakeUser DEF HandshakeAccepted, Takes
  <2>2. /\ task[c] = "live" /\ user[c] = NoUser /\ router[w] = NoConn
        /\ user' = [user EXCEPT ![c] = w] /\ router' = [router EXCEPT ![w] = c]
        /\ task' = task /\ conn_seq' = conn_seq
    BY <1>2 DEF HandshakeAccepted, Takes, register, Router_register
  <2>3. user'[c] = w /\ router'[w] = c
    BY <2>1, <2>2 DEF Shape
  <2>4. \A d \in Conns \ {c} : user'[d] = user[d]
    BY <2>2 DEF Shape
  <2>5. \A u \in Users \ {w} : router'[u] = router[u]
    BY <2>2 DEF Shape
  <2>6. Fresh'
    BY <2>2, <2>4
  <2>7. \A u \in Users : router'[u] # NoConn =>
          task'[router'[u]] = "live" /\ user'[router'[u]] = u
    <3> SUFFICES ASSUME NEW u \in Users \ {w}, router'[u] # NoConn
                 PROVE task'[router'[u]] = "live" /\ user'[router'[u]] = u
      BY <2>1, <2>2, <2>3
    <3>1. router'[u] = router[u] /\ router[u] \in Conns /\ user[router[u]] = u
             /\ task[router[u]] = "live"
      BY <2>5 DEF Shape
    <3>2. router[u] # c
      BY <3>1, <2>2
    <3> QED BY <3>1, <3>2, <2>2, <2>4
  <2>8. \A d \in Conns : task'[d] = "live" /\ user'[d] # NoUser => router'[user'[d]] = d
    <3> SUFFICES ASSUME NEW d \in Conns \ {c}, task[d] = "live", user[d] # NoUser
                 PROVE router'[user[d]] = d
      BY <2>1, <2>2, <2>3, <2>4
    <3>1. router[user[d]] = d /\ user[d] \in Users /\ user[d] # w
      BY <2>2, <1>a DEF Shape
    <3> QED BY <3>1, <2>5
  <2> QED BY <2>6, <2>7, <2>8
<1>3. ASSUME NEW c \in Conns, SessionEnd(c)
      PROVE Fresh' /\ RouterMatchesSessions'
  <2>1. /\ task[c] = "live" /\ task' = [task EXCEPT ![c] = "ended"]
        /\ user' = user /\ conn_seq' = conn_seq
    BY <1>3 DEF SessionEnd
  <2>2. task'[c] = "ended" /\ \A d \in Conns \ {c} : task'[d] = task[d]
    BY <2>1 DEF Shape
  <2>3. Fresh'
    BY <2>1, <2>2
  <2>4. CASE user[c] = NoUser
    <3>1. router' = router
      BY <2>4, <1>3 DEF SessionEnd
    <3>2. \A u \in Users : router[u] # c
      BY <2>4, <1>a
    <3> QED BY <2>1, <2>2, <2>3, <3>1, <3>2 DEF Shape
  <2>5. CASE user[c] # NoUser
    <3> DEFINE w == user[c]
    <3>1. w \in Users /\ router[w] = c
      BY <2>1, <2>5 DEF Shape
    <3>2. router' = [router EXCEPT ![w] = NoConn]
      BY <2>5, <1>3, <3>1 DEF SessionEnd, unregister, Router_remove_if
    <3>3. router'[w] = NoConn /\ \A u \in Users \ {w} : router'[u] = router[u] /\ router[u] # c
      BY <3>1, <3>2, <1>a DEF Shape
    <3>4. \A d \in Conns \ {c} : task[d] = "live" => user[d] # w
      BY <3>1
    <3> QED BY <2>1, <2>2, <2>3, <3>1, <3>3, <3>4 DEF Shape
  <2> QED BY <2>4, <2>5
<1>4. CASE UNCHANGED <<conn_seq, task, user, router>>
  BY <1>4
<1> QED BY <1>1, <1>2, <1>3, <1>4, RoutingSteps

\* The routing invariant holds in every reachable state.
LEMMA RoutingInvariant == Spec => []RInv
<1>1. Init => RInv
  <2> SUFFICES ASSUME Init PROVE RInv
    OBVIOUS
  <2>1. up \in [Conns -> Seq(UpFrames)] /\ conn_seq \in 0..MaxConn
    BY SessionsAssumption DEF Init
  <2>2. task \in [Conns -> {"none", "live", "ended"}]
    BY DEF Init
  <2>3. Shape
    BY <2>1, <2>2 DEF Init, Shape
  <2> QED BY <2>3, SessionsAssumption DEF Init, RInv, Fresh, RouterMatchesSessions
<1>2. RInv /\ [Next]_vars => RInv'
  BY ShapeStep, RoutingStep DEF RInv
<1> QED BY <1>1, <1>2, PTL DEF Spec

(***************************************************************************)
(* The routing table and the session tasks agree in every reachable state, *)
(* for every interleaving of logins, reconnections and session ends.       *)
(***************************************************************************)
THEOREM RoutingCorrect == Spec => []RouterMatchesSessions
<1>1. RInv => RouterMatchesSessions
  BY DEF RInv
<1> QED BY <1>1, RoutingInvariant, PTL

(***************************************************************************)
(* Custody: an acknowledgement is written into the job only by the step    *)
(* that places its message, and nothing leaves placed.                     *)
(***************************************************************************)
LEMMA CustodyStep ==
  ASSUME Shape, AInv, [Next]_vars
  PROVE AInv'
<1> USE DEF AInv, AckPending, AckAfterCustody
<1>a. DOMAIN job = Conns /\ job = [c \in Conns |-> job[c]]
  BY DEF Shape
<1>1. CASE Accept
  BY <1>1 DEF Accept
<1>2. ASSUME NEW c \in Conns, HandshakeRefused(c) \/ HandshakeAccepted(c) PROVE AInv'
  <2>1. \E b \in BOOLEAN : job' = [job EXCEPT ![c] = HandshakeAck(b)]
    BY <1>2 DEF HandshakeRefused, HandshakeAccepted
  <2>2. UNCHANGED <<placed, acked>>
    BY <1>2 DEF HandshakeRefused, HandshakeAccepted
  <2> QED BY <1>a, <2>1, <2>2 DEF HandshakeAck, Replying
<1>3. ASSUME NEW c \in Conns, MsgDropped(c) \/ SyncIgnored(c) PROVE AInv'
  BY <1>3 DEF MsgDropped, SyncIgnored
<1>4. ASSUME NEW c \in Conns, MsgNumbered(c) PROVE AInv'
  <2>1. job'[c].kind = "route" /\ \A d \in Conns \ {c} : job'[d] = job[d]
    BY <1>a, <1>4 DEF MsgNumbered
  <2>2. UNCHANGED <<placed, acked>>
    BY <1>4 DEF MsgNumbered
  <2> QED BY <2>1, <2>2
<1>5. ASSUME NEW c \in Conns, DeliverLookup(c) PROVE AInv'
  <2>1. job'[c].kind \in {"send", "store"} /\ \A d \in Conns \ {c} : job'[d] = job[d]
    BY <1>a, <1>5 DEF DeliverLookup
  <2>2. UNCHANGED <<placed, acked>>
    BY <1>5 DEF DeliverLookup
  <2> QED BY <2>1, <2>2
<1>6. ASSUME NEW c \in Conns, DeliverSend(c) PROVE AInv'
  <2> DEFINE m == job[c].msg
  <2>1. acked' = acked /\ placed \subseteq placed'
    BY <1>6 DEF DeliverSend
  <2>2. \A d \in Conns \ {c} : job'[d] = job[d]
    BY <1>a, <1>6 DEF DeliverSend
  <2>3. \/ job'[c] = MsgAck(m) /\ m \in placed'
        \/ job'[c] = [kind |-> "store", msg |-> m]
    BY <1>a, <1>6 DEF DeliverSend
  <2> QED BY <2>1, <2>2, <2>3 DEF MsgAck, Replying
<1>7. ASSUME NEW c \in Conns, DeliverStore(c) PROVE AInv'
  <2> DEFINE m == job[c].msg
  <2>1. acked' = acked /\ placed' = placed \cup {m}
    BY <1>7 DEF DeliverStore
  <2>2. job'[c] = MsgAck(m) /\ \A d \in Conns \ {c} : job'[d] = job[d]
    BY <1>a, <1>7 DEF DeliverStore
  <2> QED BY <2>1, <2>2 DEF MsgAck, Replying
<1>8. ASSUME NEW c \in Conns, SyncTaken(c) PROVE AInv'
  <2>1. UNCHANGED <<placed, acked>>
    BY <1>8 DEF SyncTaken
  <2>2. job'[c].frame.cmd = "SyncResp" /\ \A d \in Conns \ {c} : job'[d] = job[d]
    BY <1>a, <1>8 DEF SyncTaken, Replying
  <2> QED BY <2>1, <2>2
<1>9. ASSUME NEW c \in Conns, Reply(c) PROVE AInv'
  <2>1. placed' = placed
    BY <1>9 DEF Reply
  <2>2. acked' \subseteq placed
    BY <1>9 DEF Reply
  <2>3. job'[c] = Idle /\ \A d \in Conns \ {c} : job'[d] = job[d]
    BY <1>a, <1>9 DEF Reply
  <2> QED BY <2>1, <2>2, <2>3 DEF Idle
<1>10. ASSUME NEW c \in Conns,
              SessionEnd(c) \/ ReaderExit(c) \/ WriterExit(c) \/ ClientRead(c)
       PROVE AInv'
  BY <1>10 DEF SessionEnd, ReaderExit, WriterExit, ClientRead
<1>11. ASSUME NEW c \in Conns, NEW f \in ClientFrames, ClientSend(c, f) PROVE AInv'
  BY <1>11 DEF ClientSend
<1>12. CASE UNCHANGED vars
  BY <1>12 DEF vars
<1> HIDE DEF AInv
<1> QED
  BY <1>1, <1>2, <1>3, <1>4, <1>5, <1>6, <1>7, <1>8, <1>9, <1>10, <1>11, <1>12
     DEF Next, ServerNext, SessionStep

(***************************************************************************)
(* The server acknowledges a message only after it has put it into the     *)
(* recipient's channel or offline queue.                                   *)
(***************************************************************************)
THEOREM AckMeansCustody == Spec => []AckAfterCustody
<1>1. Init => AInv
  BY DEF Init, AInv, AckPending, AckAfterCustody, Idle
<1>2. Shape /\ AInv /\ [Next]_vars => AInv'
  BY CustodyStep
<1>3. RInv => Shape
  BY DEF RInv
<1>4. AInv => AckAfterCustody
  BY DEF AInv
<1> QED BY <1>1, <1>2, <1>3, <1>4, RoutingInvariant, PTL DEF Spec

-----------------------------------------------------------------------------
(***************************************************************************)
(* The positions of a batch: Nth finds a position for every rank, and a    *)
(* smaller rank is an earlier position.                                    *)
(***************************************************************************)
LEMMA RankBound ==
  ASSUME NEW len \in Nat, NEW I \in SUBSET (1..len), NEW i \in I
  PROVE  /\ IsFiniteSet(I) /\ Cardinality(I) \in Nat
         /\ Rank(I, i) \in 1..Cardinality(I) /\ Rank(I, i) \in Nat
<1> DEFINE upto == {j \in I : j <= i}
<1>1. IsFiniteSet(I)
  <2>1. IsFiniteSet(1..len)
    BY FS_Interval
  <2> QED BY <2>1, FS_Subset
<1>2. upto \in SUBSET I /\ i \in upto
  OBVIOUS
<1>3. IsFiniteSet(upto) /\ Cardinality(upto) <= Cardinality(I)
  BY <1>1, <1>2, FS_Subset
<1>4. Cardinality(I) \in Nat /\ Cardinality(upto) \in Nat
  BY <1>1, <1>3, FS_CardinalityType
<1>5. Cardinality(upto) # 0
  BY <1>2, <1>3, FS_EmptySet
<1>6. Rank(I, i) = Cardinality(upto)
  BY DEF Rank
<1> HIDE DEF upto
<1> QED BY <1>1, <1>3, <1>4, <1>5, <1>6

LEMMA RankGrows ==
  ASSUME NEW len \in Nat, NEW I \in SUBSET (1..len), NEW i \in I, NEW k \in I, i < k
  PROVE  Rank(I, i) < Rank(I, k)
<1> DEFINE upto(j) == {h \in I : h <= j}
<1>0. \A j \in I : j \in Nat
  OBVIOUS
<1>1. upto(i) \in SUBSET upto(k) /\ k \in upto(k) /\ k \notin upto(i)
  <2>1. i \in Nat /\ k \in Nat
    BY <1>0
  <2>2. \A j \in I : j <= i => j <= k
    BY <1>0, <2>1
  <2>3. k <= k /\ ~(k <= i)
    BY <2>1
  <2> QED BY <2>2, <2>3
<1>2. IsFiniteSet(upto(k))
  <2>1. upto(k) \in SUBSET I
    OBVIOUS
  <2> QED BY <2>1, RankBound, FS_Subset
<1>3. IsFiniteSet(upto(i)) /\ Cardinality(upto(i)) <= Cardinality(upto(k))
         /\ (Cardinality(upto(k)) = Cardinality(upto(i)) => upto(k) = upto(i))
  BY <1>1, <1>2, FS_Subset
<1>4. Cardinality(upto(i)) \in Nat /\ Cardinality(upto(k)) \in Nat
  BY <1>2, <1>3, FS_CardinalityType
<1>5. upto(k) # upto(i)
  BY <1>1
<1>6. Rank(I, i) = Cardinality(upto(i)) /\ Rank(I, k) = Cardinality(upto(k))
  BY DEF Rank
<1> HIDE DEF upto
<1> QED BY <1>3, <1>4, <1>5, <1>6

LEMMA NthIn ==
  ASSUME NEW len \in Nat, NEW I \in SUBSET (1..len), NEW n \in 1..Cardinality(I)
  PROVE  Nth(I, n) \in I /\ Rank(I, Nth(I, n)) = n
<1>1. IsFiniteSet(I) /\ Cardinality(I) \in Nat
  <2>1. IsFiniteSet(1..len)
    BY FS_Interval
  <2> QED BY <2>1, FS_Subset, FS_CardinalityType
<1>2. \E i \in I : Rank(I, i) = n
  <2> SUFFICES ASSUME \A i \in I : Rank(I, i) # n PROVE FALSE
    OBVIOUS
  <2> DEFINE ranks == 1..Cardinality(I)
             rest == ranks \ {n}
             f == [i \in I |-> Rank(I, i)]
  <2>1. IsFiniteSet(ranks) /\ Cardinality(ranks) = Cardinality(I)
    BY <1>1, FS_Interval
  <2>2. IsFiniteSet(rest) /\ Cardinality(rest) = Cardinality(I) - 1
    BY <2>1, FS_RemoveElement
  <2>3. Cardinality(rest) < Cardinality(I)
    BY <1>1, <2>2
  <2>4. f \in [I -> rest]
    BY RankBound
  <2>5. \E x, y \in I : x # y /\ f[x] = f[y]
    <3> HIDE DEF f, rest
    <3> QED BY <1>1, <2>2, <2>3, <2>4, FS_PigeonHole
  <2>6. PICK x, y \in I : x # y /\ Rank(I, x) = Rank(I, y)
    BY <2>5
  <2>7. Rank(I, x) \in Nat /\ x \in Nat /\ y \in Nat
    <3>1. Rank(I, x) \in Nat
      BY RankBound
    <3> QED BY <3>1
  <2>8. ~(Rank(I, x) < Rank(I, y)) /\ ~(Rank(I, y) < Rank(I, x))
    BY <2>6, <2>7
  <2>9. ~(x < y)
    BY <2>8, RankGrows
  <2>10. ~(y < x)
    BY <2>8, RankGrows
  <2> QED BY <2>6, <2>7, <2>9, <2>10
<1> QED BY <1>2 DEF Nth

(***************************************************************************)
(* sync_since splits a queue at one position: the batch comes from before  *)
(* it, the rest of the queue is what is after it.                          *)
(***************************************************************************)
LEMMA ScanSplits ==
  ASSUME NEW S, NEW q \in Seq(S), NEW since
  PROVE  \E k \in 0..Len(q), b \in Nat :
           /\ SyncScan(q, since)[2] = SubSeq(q, k + 1, Len(q))
           /\ DOMAIN SyncScan(q, since)[1] = 1..b
           /\ \E at \in [1..b -> 1..k] : SyncScan(q, since)[1] = [n \in 1..b |-> q[at[n]]]
<1> DEFINE past == {i \in 1..Len(q) : q[i].id > since}
           all == Cardinality(past) <= SYNC_BATCH
           batch == IF all THEN Cardinality(past) ELSE SYNC_BATCH
           popped == IF all THEN Len(q) ELSE Nth(past, SYNC_BATCH + 1) - 1
           at == [n \in 1..batch |-> Nth(past, n)]
<1>1. /\ SyncScan(q, since)[1] = [n \in 1..batch |-> q[Nth(past, n)]]
      /\ SyncScan(q, since)[2] = SubSeq(q, popped + 1, Len(q))
  <2> DEFINE taken == [n \in 1..batch |-> q[Nth(past, n)]]
             rest == SubSeq(q, popped + 1, Len(q))
  <2>1. SyncScan(q, since) = <<taken, rest>>
    BY DEF SyncScan
  <2> HIDE DEF taken, rest
  <2>2. SyncScan(q, since)[1] = taken /\ SyncScan(q, since)[2] = rest
    BY <2>1
  <2> QED BY <2>2 DEF taken, rest
<1>2. Len(q) \in Nat /\ past \in SUBSET (1..Len(q))
  OBVIOUS
<1>3. IsFiniteSet(past) /\ Cardinality(past) \in Nat
  <2>1. IsFiniteSet(1..Len(q))
    BY <1>2, FS_Interval
  <2> QED BY <1>2, <2>1, FS_Subset, FS_CardinalityType
<1> HIDE DEF past
<1>4. batch \in Nat /\ batch <= Cardinality(past)
  BY <1>3, SessionsAssumption
<1>5. \A n \in 1..Cardinality(past) : Nth(past, n) \in past /\ Rank(past, Nth(past, n)) = n
  BY <1>2, NthIn
<1>6. popped \in 0..Len(q) /\ \A n \in 1..batch : Nth(past, n) \in 1..popped
  <2>1. CASE all
    <3>1. popped = Len(q) /\ batch = Cardinality(past)
      BY <2>1
    <3>2. popped \in 0..Len(q)
      BY <1>2, <3>1
    <3>3. ASSUME NEW n \in 1..batch PROVE Nth(past, n) \in 1..popped
      <4>1. n \in 1..Cardinality(past)
        BY <3>1
      <4>2. Nth(past, n) \in 1..Len(q)
        BY <1>2, <1>5, <4>1
      <4> QED BY <3>1, <4>2
    <3> QED BY <3>2, <3>3
  <2>2. CASE ~all
    <3> DEFINE e == Nth(past, SYNC_BATCH + 1)
    <3>1. SYNC_BATCH + 1 \in 1..Cardinality(past) /\ SYNC_BATCH \in Nat
      BY <1>3, <2>2, SessionsAssumption
    <3>2. e \in past /\ Rank(past, e) = SYNC_BATCH + 1
      BY <1>5, <3>1
    <3>3. ASSUME NEW n \in 1..SYNC_BATCH PROVE Nth(past, n) \in 1..(e - 1)
      <4> DEFINE i == Nth(past, n)
      <4>1. n \in 1..Cardinality(past) /\ n \in Nat
        <5>1. n \in Nat /\ n <= SYNC_BATCH
          BY <3>1
        <5> QED BY <1>3, <3>1, <5>1
      <4>2. i \in past /\ Rank(past, i) = n
        BY <1>5, <4>1
      <4> HIDE DEF i, e
      <4>3. i \in Nat /\ e \in Nat /\ i >= 1
        BY <1>2, <3>2, <4>2
      <4>4. i # e
        BY <3>1, <3>2, <4>2
      <4>5. ~(e < i)
        <5> SUFFICES ASSUME e < i PROVE FALSE
          OBVIOUS
        <5>1. Rank(past, e) < Rank(past, i)
          BY <1>2, <3>2, <4>2, RankGrows
        <5> QED BY <3>1, <3>2, <4>1, <4>2, <5>1
      <4>6. i \in 1..(e - 1)
        BY <4>3, <4>4, <4>5
      <4> QED BY <4>6 DEF i
    <3>4. e \in 1..Len(q)
      BY <1>2, <3>2
    <3>5. popped = e - 1 /\ batch = SYNC_BATCH
      BY <2>2
    <3> HIDE DEF e, popped, batch
    <3> QED BY <1>2, <3>3, <3>4, <3>5
  <2> QED BY <2>1, <2>2
<1>7. at \in [1..batch -> 1..popped]
  BY <1>6
<1>8. SyncScan(q, since)[1] = [n \in 1..batch |-> q[at[n]]]
  BY <1>1
<1>9. DOMAIN SyncScan(q, since)[1] = 1..batch
  BY <1>8
<1>10. SyncScan(q, since)[2] = SubSeq(q, popped + 1, Len(q))
  BY <1>1
<1> HIDE DEF batch, popped, at
<1> QED BY <1>4, <1>6, <1>7, <1>8, <1>9, <1>10

LEMMA ScanParts ==
  ASSUME NEW S, NEW q \in Seq(S), NEW since
  PROVE  \E k \in 0..Len(q) :
           /\ SyncScan(q, since)[1] \in Seq(S)
           /\ \A n \in 1..Len(SyncScan(q, since)[1]) :
                \E i \in 1..k : SyncScan(q, since)[1][n] = q[i]
           /\ SyncScan(q, since)[2] \in Seq(S)
           /\ Len(SyncScan(q, since)[2]) = Len(q) - k
           /\ \A i \in 1..(Len(q) - k) : SyncScan(q, since)[2][i] = q[k + i]
<1> DEFINE taken == SyncScan(q, since)[1]
           rest == SyncScan(q, since)[2]
<1>1. PICK k \in 0..Len(q), b \in Nat :
        /\ SyncScan(q, since)[2] = SubSeq(q, k + 1, Len(q))
        /\ DOMAIN SyncScan(q, since)[1] = 1..b
        /\ \E at \in [1..b -> 1..k] : SyncScan(q, since)[1] = [n \in 1..b |-> q[at[n]]]
  BY ScanSplits, SMTT(30)
<1>2. PICK at \in [1..b -> 1..k] : taken = [n \in 1..b |-> q[at[n]]]
  BY <1>1
<1>a. rest = SubSeq(q, k + 1, Len(q))
  BY <1>1
<1> HIDE DEF taken, rest
<1>3. \A n \in 1..b : at[n] \in 1..k /\ at[n] \in 1..Len(q) /\ taken[n] = q[at[n]]
  BY <1>2
<1>4. taken \in Seq(S) /\ Len(taken) = b
  <2>1. \A n \in 1..b : q[at[n]] \in S
    BY <1>3
  <2>2. taken \in [1..b -> S]
    BY <1>2, <2>1
  <2> QED BY <2>2, <1>1
<1>5. /\ rest \in Seq(S) /\ Len(rest) = Len(q) - k
      /\ \A i \in 1..(Len(q) - k) : rest[i] = q[k + i]
  BY <1>a
<1>6. \A n \in 1..Len(taken) : \E i \in 1..k : taken[n] = q[i]
  BY <1>3, <1>4
<1> QED BY <1>4, <1>5, <1>6 DEF taken, rest

(***************************************************************************)
(* A queue keeps its end and gets the message behind it.                   *)
(***************************************************************************)
LEMMA StorePuts ==
  ASSUME NEW S, NEW q \in Seq(S), NEW m \in S, Len(q) <= MAX_OFFLINE
  PROVE  \E k \in 0..Len(q) :
           /\ store_offline(q, m) \in Seq(S)
           /\ Len(store_offline(q, m)) = Len(q) - k + 1
           /\ Len(store_offline(q, m)) <= MAX_OFFLINE
           /\ \A i \in 1..(Len(q) - k) : store_offline(q, m)[i] = q[k + i]
           /\ store_offline(q, m)[Len(q) - k + 1] = m
<1> USE SessionsAssumption
<1>1. CASE Len(q) >= MAX_OFFLINE
  <2>1. store_offline(q, m) = Append(Tail(q), m)
    BY <1>1 DEF store_offline
  <2>2. /\ Tail(q) \in Seq(S) /\ Len(Tail(q)) = Len(q) - 1 /\ 1 \in 0..Len(q)
        /\ \A i \in 1..(Len(q) - 1) : Tail(q)[i] = q[1 + i]
    BY <1>1
  <2>3. /\ store_offline(q, m) \in Seq(S)
        /\ Len(store_offline(q, m)) = Len(q)
        /\ store_offline(q, m)[Len(q)] = m
        /\ \A i \in 1..(Len(q) - 1) : store_offline(q, m)[i] = q[1 + i]
    BY <2>1, <2>2
  <2>4. Len(q) - 1 + 1 = Len(q)
    OBVIOUS
  <2> QED BY <2>2, <2>3, <2>4
<1>2. CASE Len(q) < MAX_OFFLINE
  <2>1. store_offline(q, m) = Append(q, m)
    BY <1>2 DEF store_offline
  <2>2. /\ store_offline(q, m) \in Seq(S)
        /\ Len(store_offline(q, m)) = Len(q) + 1
        /\ store_offline(q, m)[Len(q) + 1] = m
        /\ \A i \in 1..Len(q) : store_offline(q, m)[i] = q[i]
    BY <2>1
  <2>3. /\ Len(q) - 0 = Len(q) /\ Len(q) + 1 <= MAX_OFFLINE
        /\ \A i \in 1..Len(q) : 0 + i = i
    BY <1>2
  <2>4. 0 \in 0..Len(q)
    OBVIOUS
  <2> QED BY <2>2, <2>3, <2>4
<1> QED BY <1>1, <1>2

-----------------------------------------------------------------------------
\* What the type invariant says of the variables Shape leaves aside.
Jobs ==
  {Idle} \cup [kind : {"route", "store"}, msg : Msgs]
    \cup [kind : {"send"}, msg : Msgs, target : Conns, seq : Nat]
    \cup [kind : {"reply"}, frame : Bodies]
Slots == [seq : Nat, body : Bodies]

Contents ==
  /\ reader \in [Conns -> {"open", "closed"}]
  /\ writer \in [Conns -> {"open", "closed"}]
  /\ reply_seq \in [Conns -> Nat]
  /\ handle_seq \in [Conns -> Nat]
  /\ job \in [Conns -> Jobs]
  /\ offline \in [Users -> Seq(Msgs)]
  /\ \A u \in Users : Len(offline[u]) <= MAX_OFFLINE
  /\ last_id \in 0..MaxId
  /\ down \in [Conns -> Seq(Slots)]
  /\ fed \in Nat
  /\ placed \subseteq Msgs
  /\ acked \subseteq Msgs

LEMMA TypeParts == TypeOK <=> Shape /\ Contents
<1>1. job \in [Conns -> Jobs] => DOMAIN job = Conns /\ job = [c \in Conns |-> job[c]]
  OBVIOUS
<1>2. TypeOK <=> /\ conn_seq \in 0..MaxConn
                 /\ task \in [Conns -> {"none", "live", "ended"}]
                 /\ user \in [Conns -> Users \cup {NoUser}]
                 /\ router \in [Users -> Conns \cup {NoConn}]
                 /\ up \in [Conns -> Seq(UpFrames)]
                 /\ Contents
  BY Zenon DEF TypeOK, Contents, Jobs, Slots
<1>3. Contents => job \in [Conns -> Jobs]
  BY DEF Contents
<1> QED BY <1>1, <1>2, <1>3 DEF Shape

\* The message in the hands of a task, and the reply it is about to send.
LEMMA HandMsg ==
  ASSUME Contents, NEW c \in Conns, job[c].kind \in {"route", "send", "store"}
  PROVE  job[c].msg \in Msgs
<1>1. job[c] \in Jobs
  BY DEF Contents
<1>2. job[c] # Idle /\ job[c] \notin [kind : {"reply"}, frame : Bodies]
  BY DEF Idle
<1> QED BY <1>1, <1>2 DEF Jobs

LEMMA HandTarget ==
  ASSUME Contents, NEW c \in Conns, job[c].kind = "send"
  PROVE  job[c].target \in Conns /\ job[c].seq \in Nat
<1>1. job[c] \in Jobs
  BY DEF Contents
<1>2. /\ job[c] # Idle /\ job[c] \notin [kind : {"reply"}, frame : Bodies]
      /\ job[c] \notin [kind : {"route", "store"}, msg : Msgs]
  BY DEF Idle
<1> QED BY <1>1, <1>2 DEF Jobs

LEMMA ReplyFrame ==
  ASSUME Contents, NEW c \in Conns, job[c].kind = "reply"
  PROVE  job[c].frame \in Bodies
<1>1. job[c] \in Jobs
  BY DEF Contents
<1>2. /\ job[c] # Idle
      /\ job[c] \notin [kind : {"route", "store"}, msg : Msgs]
      /\ job[c] \notin [kind : {"send"}, msg : Msgs, target : Conns, seq : Nat]
  BY DEF Idle
<1> QED BY <1>1, <1>2 DEF Jobs

\* The bodies of frames, and the jobs they make.
LEMMA BodyTypes ==
  /\ \A b \in BOOLEAN : HandshakeAck(b) \in Jobs
  /\ \A m \in Msgs : MsgAck(m) \in Jobs
  /\ \A ms \in Seq(Msgs) : Replying([cmd |-> "SyncResp", messages |-> ms]) \in Jobs
  /\ \A m \in Msgs, k \in {"route", "store"} : [kind |-> k, msg |-> m] \in Jobs
  /\ \A m \in Msgs, d \in Conns, n \in Nat :
       [kind |-> "send", msg |-> m, target |-> d, seq |-> n] \in Jobs
  /\ \A m \in Msgs : [cmd |-> "Msg", msg |-> m] \in Bodies
  /\ \A f \in Bodies : f.cmd = "MsgAck" => f.msg \in Msgs
  /\ \A n \in Nat, f \in Bodies : [seq |-> n, body |-> f] \in Slots
<1>1. \A b \in BOOLEAN : HandshakeAck(b) \in Jobs
  BY DEF HandshakeAck, Replying, Jobs, Bodies
<1>2. \A m \in Msgs : MsgAck(m) \in Jobs
  BY DEF MsgAck, Replying, Jobs, Bodies
<1>3. \A ms \in Seq(Msgs) : Replying([cmd |-> "SyncResp", messages |-> ms]) \in Jobs
  BY DEF Replying, Jobs, Bodies
<1>4. /\ \A m \in Msgs, k \in {"route", "store"} : [kind |-> k, msg |-> m] \in Jobs
      /\ \A m \in Msgs, d \in Conns, n \in Nat :
           [kind |-> "send", msg |-> m, target |-> d, seq |-> n] \in Jobs
  BY DEF Jobs
<1>5. /\ \A m \in Msgs : [cmd |-> "Msg", msg |-> m] \in Bodies
      /\ \A f \in Bodies : f.cmd = "MsgAck" => f.msg \in Msgs
  BY DEF Bodies
<1>6. \A n \in Nat, f \in Bodies : [seq |-> n, body |-> f] \in Slots
  BY DEF Slots
<1> QED BY <1>1, <1>2, <1>3, <1>4, <1>5, <1>6

(***************************************************************************)
(* A step keeps the types.                                                 *)
(***************************************************************************)
LEMMA ContentsStep ==
  ASSUME Shape, Contents, [Next]_vars
  PROVE  Contents'
<1> USE SessionsAssumption
<1>a. Idle \in Jobs
  BY DEF Jobs
<1>1. CASE Accept
  BY <1>1 DEF Accept, Contents, wires
<1>2. ASSUME NEW c \in Conns, HandshakeRefused(c) \/ HandshakeAccepted(c) PROVE Contents'
  <2>1. PICK b \in BOOLEAN : job' = [job EXCEPT ![c] = HandshakeAck(b)]
    BY <1>2 DEF HandshakeRefused, HandshakeAccepted
  <2>2. job' \in [Conns -> Jobs]
    BY <2>1, BodyTypes DEF Contents
  <2>3. last_id' \in 0..MaxId
    <3>1. last_id' = last_id \/ (last_id < MaxId /\ last_id' = last_id + 1)
      BY <1>2 DEF HandshakeRefused, HandshakeAccepted
    <3> QED BY <3>1 DEF Contents
  <2>4. handle_seq' \in [Conns -> Nat]
    <3>1. handle_seq' = handle_seq \/ handle_seq' = [handle_seq EXCEPT ![c] = 0]
      BY <1>2 DEF HandshakeRefused, HandshakeAccepted, register
    <3>2. handle_seq \in [Conns -> Nat] /\ 0 \in Nat
      BY DEF Contents
    <3> QED BY <3>1, <3>2
  <2>5. UNCHANGED <<reader, writer, reply_seq, offline, down, fed, placed, acked>>
    BY <1>2 DEF HandshakeRefused, HandshakeAccepted
  <2> QED BY <2>2, <2>3, <2>4, <2>5 DEF Contents
<1>3. ASSUME NEW c \in Conns, MsgDropped(c) \/ SyncIgnored(c) PROVE Contents'
  BY <1>3 DEF MsgDropped, SyncIgnored, Contents
<1>4. ASSUME NEW c \in Conns, MsgNumbered(c) PROVE Contents'
  <2> DEFINE f == Head(up[c])
             m == [from |-> user[c], to |-> f.to, cmid |-> f.cmid, id |-> last_id + 1]
  <2>1. f \in UpFrames /\ f.cmd = "Msg"
    BY <1>4, HeadOfUp DEF MsgNumbered, Takes
  <2>2. f.to \in Users /\ f.cmid \in Nat
    BY <2>1 DEF UpFrames
  <2>3. user[c] \in Users
    BY <1>4 DEF MsgNumbered, Shape
  <2>4. last_id + 1 \in 1..MaxId /\ last_id' \in 0..MaxId
    BY <1>4 DEF MsgNumbered, Contents
  <2>5. m \in Msgs
    BY <2>2, <2>3, <2>4 DEF Msgs
  <2>6. job' = [job EXCEPT ![c] = [kind |-> "route", msg |-> m]]
    BY <1>4 DEF MsgNumbered
  <2> HIDE DEF m
  <2>7. job' \in [Conns -> Jobs]
    BY <2>5, <2>6, BodyTypes DEF Contents
  <2> QED BY <1>4, <2>4, <2>7 DEF MsgNumbered, Contents
<1>5. ASSUME NEW c \in Conns, DeliverLookup(c) PROVE Contents'
  <2> DEFINE m == job[c].msg  target == router[m.to]
  <2>1. m \in Msgs
    BY <1>5, HandMsg DEF DeliverLookup
  <2>2. m.to \in Users
    BY <2>1 DEF Msgs
  <2>3. CASE /\ target # NoConn
             /\ handle_seq' = [handle_seq EXCEPT ![target] = @ + 1]
             /\ job' = [job EXCEPT ![c] = [kind |-> "send", msg |-> m,
                          target |-> target, seq |-> handle_seq[target] + 1]]
    <3>1. target \in Conns
      BY <2>2, <2>3 DEF Shape
    <3>2. handle_seq[target] + 1 \in Nat /\ handle_seq' \in [Conns -> Nat]
      <4>1. handle_seq \in [Conns -> Nat]
        BY DEF Contents
      <4> QED BY <2>3, <3>1, <4>1
    <3> HIDE DEF m, target
    <3>3. job' \in [Conns -> Jobs]
      BY <2>1, <2>3, <3>1, <3>2, BodyTypes DEF Contents
    <3> QED BY <1>5, <3>2, <3>3 DEF DeliverLookup, Contents, wires
  <2>4. CASE /\ job' = [job EXCEPT ![c] = [kind |-> "store", msg |-> m]]
             /\ UNCHANGED handle_seq
    <3> HIDE DEF m
    <3>1. job' \in [Conns -> Jobs]
      BY <2>1, <2>4, BodyTypes DEF Contents
    <3> QED BY <1>5, <2>4, <3>1 DEF DeliverLookup, Contents, wires
  <2> QED BY <1>5, <2>3, <2>4 DEF DeliverLookup, Router_get
<1>6. ASSUME NEW c \in Conns, DeliverSend(c) PROVE Contents'
  <2> DEFINE m == job[c].msg  target == job[c].target
             slot == [seq |-> job[c].seq, body |-> [cmd |-> "Msg", msg |-> m]]
  <2>1. m \in Msgs /\ target \in Conns /\ job[c].seq \in Nat
    BY <1>6, HandMsg, HandTarget DEF DeliverSend
  <2>2. slot \in Slots
    BY <2>1, BodyTypes
  <2>3. UNCHANGED <<reader, writer, reply_seq, handle_seq, offline, last_id, fed, acked>>
    BY <1>6 DEF DeliverSend
  <2>4. CASE /\ down' = [down EXCEPT ![target] = Append(@, slot)]
             /\ placed' = placed \cup {m}
             /\ job' = [job EXCEPT ![c] = MsgAck(m)]
    <3> HIDE DEF m, target, slot
    <3>1. down' \in [Conns -> Seq(Slots)]
      BY <2>1, <2>2, <2>4 DEF Contents
    <3>2. job' \in [Conns -> Jobs]
      BY <2>1, <2>4, BodyTypes DEF Contents
    <3> QED BY <2>1, <2>3, <2>4, <3>1, <3>2 DEF Contents
  <2>5. CASE /\ job' = [job EXCEPT ![c] = [kind |-> "store", msg |-> m]]
             /\ UNCHANGED <<down, placed>>
    <3> HIDE DEF m
    <3>1. job' \in [Conns -> Jobs]
      BY <2>1, <2>5, BodyTypes DEF Contents
    <3> QED BY <2>3, <2>5, <3>1 DEF Contents
  <2> QED BY <1>6, <2>4, <2>5 DEF DeliverSend
<1>7. ASSUME NEW c \in Conns, DeliverStore(c) PROVE Contents'
  <2> DEFINE m == job[c].msg
  <2>1. m \in Msgs
    BY <1>7, HandMsg DEF DeliverStore
  <2>2. m.to \in Users
    BY <2>1 DEF Msgs
  <2>3. /\ offline' = [offline EXCEPT ![m.to] = store_offline(@, m)]
        /\ placed' = placed \cup {m}
        /\ job' = [job EXCEPT ![c] = MsgAck(m)]
        /\ UNCHANGED <<reader, writer, reply_seq, handle_seq, last_id, down, fed, acked>>
    BY <1>7 DEF DeliverStore, wires
  <2> HIDE DEF m
  <2>4. /\ store_offline(offline[m.to], m) \in Seq(Msgs)
        /\ Len(store_offline(offline[m.to], m)) <= MAX_OFFLINE
    BY <2>1, <2>2, StorePuts DEF Contents
  <2>5. offline' \in [Users -> Seq(Msgs)] /\ \A u \in Users : Len(offline'[u]) <= MAX_OFFLINE
    BY <2>2, <2>3, <2>4 DEF Contents
  <2>6. job' \in [Conns -> Jobs]
    BY <2>1, <2>3, BodyTypes DEF Contents
  <2> QED BY <2>1, <2>3, <2>5, <2>6 DEF Contents
<1>8. ASSUME NEW c \in Conns, SyncTaken(c) PROVE Contents'
  <2> DEFINE u == user[c]  q == offline[u]  since == Head(up[c]).since
             taken == SyncScan(q, since)[1]  rest == SyncScan(q, since)[2]
  <2>1. u \in Users /\ q \in Seq(Msgs) /\ Len(q) <= MAX_OFFLINE
    BY <1>8 DEF SyncTaken, Shape, Contents
  <2>2. /\ offline' = [offline EXCEPT ![u] = rest]
        /\ job' = [job EXCEPT ![c] = Replying([cmd |-> "SyncResp", messages |-> taken])]
        /\ UNCHANGED <<reader, writer, reply_seq, handle_seq, last_id, down, fed, placed, acked>>
    BY <1>8 DEF SyncTaken
  <2> HIDE DEF u, q, since
  <2>3. taken \in Seq(Msgs) /\ rest \in Seq(Msgs) /\ Len(rest) <= Len(q)
    BY <2>1, ScanParts
  <2> HIDE DEF taken, rest
  <2>4. offline' \in [Users -> Seq(Msgs)] /\ \A w \in Users : Len(offline'[w]) <= MAX_OFFLINE
    BY <2>1, <2>2, <2>3 DEF Contents
  <2>5. job' \in [Conns -> Jobs]
    BY <2>2, <2>3, BodyTypes DEF Contents
  <2> QED BY <2>2, <2>4, <2>5 DEF Contents
<1>9. ASSUME NEW c \in Conns, Reply(c) PROVE Contents'
  <2> DEFINE f == job[c].frame  slot == [seq |-> reply_seq[c] + 1, body |-> f]
  <2>1. f \in Bodies /\ (f.cmd = "MsgAck" => f.msg \in Msgs)
    BY <1>9, ReplyFrame, BodyTypes DEF Reply
  <2>2. reply_seq[c] + 1 \in Nat /\ reply_seq' \in [Conns -> Nat]
    BY <1>9 DEF Reply, Contents
  <2>3. slot \in Slots
    BY <2>1, <2>2, BodyTypes
  <2>4. job' \in [Conns -> Jobs]
    BY <1>9, <1>a DEF Reply, Contents
  <2>5. /\ down' = [down EXCEPT ![c] = Append(@, slot)] \/ down' = down
        /\ acked' \subseteq acked \cup (IF f.cmd = "MsgAck" THEN {f.msg} ELSE {})
        /\ UNCHANGED <<reader, writer, handle_seq, offline, last_id, fed, placed>>
    BY <1>9 DEF Reply
  <2> HIDE DEF f, slot
  <2>6. down' \in [Conns -> Seq(Slots)]
    <3>1. Append(down[c], slot) \in Seq(Slots)
      BY <2>3 DEF Contents
    <3> QED BY <2>5, <3>1 DEF Contents
  <2>7. acked' \subseteq Msgs
    BY <2>1, <2>5 DEF Contents
  <2> QED BY <2>2, <2>4, <2>5, <2>6, <2>7 DEF Contents
<1>10. ASSUME NEW c \in Conns, SessionEnd(c) PROVE Contents'
  BY <1>10 DEF SessionEnd, Contents, wires
<1>11. ASSUME NEW c \in Conns, ReaderExit(c) \/ WriterExit(c) PROVE Contents'
  BY <1>11 DEF ReaderExit, WriterExit, Contents
<1>12. ASSUME NEW c \in Conns, ClientRead(c) PROVE Contents'
  <2>1. down' \in [Conns -> Seq(Slots)]
    BY <1>12 DEF ClientRead, Contents
  <2> QED BY <1>12, <2>1 DEF ClientRead, Contents
<1>13. ASSUME NEW c \in Conns, NEW f \in ClientFrames, ClientSend(c, f) PROVE Contents'
  BY <1>13 DEF ClientSend, Contents
<1>14. CASE UNCHANGED vars
  BY <1>14 DEF vars, Contents
<1> QED
  BY <1>1, <1>2, <1>3, <1>4, <1>5, <1>6, <1>7, <1>8, <1>9, <1>10, <1>11, <1>12, <1>13, <1>14
     DEF Next, ServerNext, SessionStep

(***************************************************************************)
(* Every variable of the session core keeps its type; no offline queue     *)
(* grows beyond max_offline_per_user.                                      *)
(***************************************************************************)
THEOREM TypesKept == Spec => []TypeOK
<1>1. Init => Shape /\ Contents
  <2> SUFFICES ASSUME Init PROVE Shape /\ Contents
    OBVIOUS
  <2>1. Shape
    BY SessionsAssumption DEF Init, Shape
  <2>2. Contents
    BY SessionsAssumption DEF Init, Contents, Jobs
  <2> QED BY <2>1, <2>2
<1>2. Shape /\ Contents /\ [Next]_vars => Shape' /\ Contents'
  BY ShapeStep, ContentsStep
<1>3. Shape /\ Contents => TypeOK
  BY TypeParts
<1> QED BY <1>1, <1>2, <1>3, PTL DEF Spec

-----------------------------------------------------------------------------
(***************************************************************************)
(* The places a numbered message can be in: the hands of the task that     *)
(* numbered it, an offline queue, an outbound channel, the reply a task is *)
(* about to send.                                                          *)
(***************************************************************************)
Places == ({"queue"} \X Users) \cup ({"hand", "reply", "channel"} \X Conns)

InHand(c) == job[c].kind \in {"route", "send", "store"}
HandIds(c) == IF InHand(c) THEN {job[c].msg.id} ELSE {}

IdsAt(p) ==
  IF p[1] = "queue" THEN OfflineIds(p[2])
  ELSE IF p[1] = "hand" THEN HandIds(p[2])
  ELSE IF p[1] = "reply" THEN PendingIds(p[2])
  ELSE DownIds(p[2])

\* Every id has been handed out, and no two places share one.
Numbered == \A p \in Places : IdsAt(p) \subseteq 1..last_id
OnePlace == \A p, q \in Places : p # q => IdsAt(p) \cap IdsAt(q) = {}

\* No id is twice in a queue.
QueueDistinct ==
  \A u \in Users : \A i, j \in 1..Len(offline[u]) :
    i # j => offline[u][i].id # offline[u][j].id

CustodyInv == Numbered /\ OnePlace /\ QueueDistinct

\* The ids in a queue and in a channel, as functions of their contents.
QueueIds(q) == {q[i].id : i \in 1..Len(q)}
SlotIds(s) == UNION {BodyIds(s[i].body) : i \in 1..Len(s)}

LEMMA IdsOf ==
  /\ \A u \in Users : IdsAt(<<"queue", u>>) = OfflineIds(u) /\ OfflineIds(u) = QueueIds(offline[u])
  /\ \A c \in Conns : /\ IdsAt(<<"hand", c>>) = HandIds(c)
                      /\ IdsAt(<<"reply", c>>) = PendingIds(c)
                      /\ IdsAt(<<"channel", c>>) = DownIds(c)
                      /\ DownIds(c) = SlotIds(down[c])
BY DEF IdsAt, OfflineIds, QueueIds, DownIds, SlotIds

LEMMA SlotIdsAppend ==
  ASSUME NEW s \in Seq(Slots), NEW x \in Slots
  PROVE  SlotIds(Append(s, x)) \subseteq SlotIds(s) \cup BodyIds(x.body)
<1> SUFFICES ASSUME NEW i \in 1..Len(Append(s, x))
             PROVE  BodyIds(Append(s, x)[i].body) \subseteq SlotIds(s) \cup BodyIds(x.body)
  BY DEF SlotIds
<1>1. CASE i = Len(s) + 1
  BY <1>1
<1>2. CASE i # Len(s) + 1
  <2>1. i \in 1..Len(s) /\ Append(s, x)[i] = s[i]
    BY <1>2
  <2> QED BY <2>1 DEF SlotIds
<1> QED BY <1>1, <1>2

LEMMA SlotIdsTail ==
  ASSUME NEW s \in Seq(Slots), s # << >>
  PROVE  SlotIds(Tail(s)) \subseteq SlotIds(s)
<1> SUFFICES ASSUME NEW i \in 1..Len(Tail(s))
             PROVE  BodyIds(Tail(s)[i].body) \subseteq SlotIds(s)
  BY DEF SlotIds
<1>1. i + 1 \in 1..Len(s) /\ Tail(s)[i] = s[i + 1]
  OBVIOUS
<1> QED BY <1>1 DEF SlotIds

(***************************************************************************)
(* A step that takes nothing new into any place but q.                     *)
(***************************************************************************)
Shrinks(q) == \A p \in Places : p # q => IdsAt(p)' \subseteq IdsAt(p)

LEMMA ShrinkCases ==
  ASSUME NEW q,
         \A u \in Users : <<"queue", u>> # q => OfflineIds(u)' \subseteq OfflineIds(u),
         \A d \in Conns : <<"hand", d>> # q => HandIds(d)' \subseteq HandIds(d),
         \A d \in Conns : <<"reply", d>> # q => PendingIds(d)' \subseteq PendingIds(d),
         \A d \in Conns : <<"channel", d>> # q => DownIds(d)' \subseteq DownIds(d)
  PROVE  Shrinks(q)
<1> SUFFICES ASSUME NEW p \in Places, p # q
             PROVE  IdsAt(p)' \subseteq IdsAt(p)
  BY DEF Shrinks
<1>1. CASE \E u \in Users : p = <<"queue", u>>
  BY <1>1 DEF IdsAt
<1>2. CASE \E d \in Conns : p = <<"hand", d>>
  BY <1>2 DEF IdsAt
<1>3. CASE \E d \in Conns : p = <<"reply", d>>
  BY <1>3 DEF IdsAt
<1>4. CASE \E d \in Conns : p = <<"channel", d>>
  BY <1>4 DEF IdsAt
<1> QED BY <1>1, <1>2, <1>3, <1>4 DEF Places

\* A step that takes nothing new anywhere.
LEMMA NothingTaken ==
  ASSUME Numbered, OnePlace, last_id \in Nat, last_id' \in Nat, last_id <= last_id',
         \A p \in Places : IdsAt(p)' \subseteq IdsAt(p)
  PROVE  Numbered' /\ OnePlace'
<1>1. ASSUME NEW p \in Places PROVE IdsAt(p)' \subseteq 1..last_id'
  <2>1. IdsAt(p)' \subseteq 1..last_id
    BY DEF Numbered
  <2> QED BY <2>1
<1>2. ASSUME NEW p \in Places, NEW q \in Places, p # q
      PROVE  IdsAt(p)' \cap IdsAt(q)' = {}
  BY <1>2 DEF OnePlace
<1> QED BY <1>1, <1>2 DEF Numbered, OnePlace

\* A step that puts X, which no other place keeps, into q.
LEMMA TakenOnce ==
  ASSUME Numbered, OnePlace, last_id \in Nat, last_id' \in Nat, last_id <= last_id',
         NEW q \in Places, NEW X, X \subseteq 1..last_id',
         Shrinks(q), IdsAt(q)' \subseteq IdsAt(q) \cup X,
         \A p \in Places : p # q => IdsAt(p)' \cap X = {}
  PROVE  Numbered' /\ OnePlace'
<1>1. ASSUME NEW p \in Places PROVE IdsAt(p)' \subseteq 1..last_id'
  <2>1. IdsAt(p) \subseteq 1..last_id'
    BY DEF Numbered
  <2> QED BY <2>1 DEF Shrinks
<1>2. ASSUME NEW p \in Places, NEW r \in Places, p # r
      PROVE  IdsAt(p)' \cap IdsAt(r)' = {}
  <2>1. IdsAt(p) \cap IdsAt(r) = {}
    BY <1>2 DEF OnePlace
  <2>2. CASE p = q
    BY <1>2, <2>1, <2>2 DEF Shrinks
  <2>3. CASE r = q
    BY <1>2, <2>1, <2>3 DEF Shrinks
  <2>4. CASE p # q /\ r # q
    BY <2>1, <2>4 DEF Shrinks
  <2> QED BY <2>2, <2>3, <2>4
<1> QED BY <1>1, <1>2 DEF Numbered, OnePlace

\* A step that moves X from one place to another.
LEMMA Moved ==
  ASSUME Numbered, OnePlace, last_id \in Nat, last_id' = last_id,
         NEW p \in Places, NEW q \in Places, p # q,
         NEW X, X \subseteq IdsAt(p),
         Shrinks(q), IdsAt(q)' \subseteq IdsAt(q) \cup X,
         IdsAt(p)' \cap X = {}
  PROVE  Numbered' /\ OnePlace'
<1>1. X \subseteq 1..last_id'
  BY DEF Numbered
<1>2. ASSUME NEW r \in Places, r # q PROVE IdsAt(r)' \cap X = {}
  <2>1. CASE r = p
    BY <2>1
  <2>2. CASE r # p
    <3>1. IdsAt(r) \cap IdsAt(p) = {}
      BY <2>2 DEF OnePlace
    <3> QED BY <1>2, <3>1 DEF Shrinks
  <2> QED BY <2>1, <2>2
<1>3. last_id' \in Nat /\ last_id <= last_id'
  OBVIOUS
<1> QED BY <1>1, <1>2, <1>3, TakenOnce

\* The ids of a job.
HandOf(j) == IF j.kind \in {"route", "send", "store"} THEN {j.msg.id} ELSE {}
ReplyOf(j) == IF j.kind = "reply" THEN BodyIds(j.frame) ELSE {}

LEMMA JobIds ==
  /\ \A c \in Conns : HandIds(c) = HandOf(job[c]) /\ PendingIds(c) = ReplyOf(job[c])
  /\ HandOf(Idle) = {} /\ ReplyOf(Idle) = {}
  /\ \A b : HandOf(HandshakeAck(b)) = {} /\ ReplyOf(HandshakeAck(b)) = {}
  /\ \A m : HandOf(MsgAck(m)) = {} /\ ReplyOf(MsgAck(m)) = {}
  /\ \A m, k : k \in {"route", "store"} =>
       HandOf([kind |-> k, msg |-> m]) = {m.id} /\ ReplyOf([kind |-> k, msg |-> m]) = {}
  /\ \A m, d, n :
       /\ HandOf([kind |-> "send", msg |-> m, target |-> d, seq |-> n]) = {m.id}
       /\ ReplyOf([kind |-> "send", msg |-> m, target |-> d, seq |-> n]) = {}
  /\ \A ms : /\ HandOf(Replying([cmd |-> "SyncResp", messages |-> ms])) = {}
             /\ ReplyOf(Replying([cmd |-> "SyncResp", messages |-> ms])) = QueueIds(ms)
<1>1. /\ \A c \in Conns : HandIds(c) = HandOf(job[c]) /\ PendingIds(c) = ReplyOf(job[c])
      /\ HandOf(Idle) = {} /\ ReplyOf(Idle) = {}
  BY DEF HandIds, InHand, HandOf, PendingIds, ReplyOf, Idle
<1>2. /\ \A b : HandOf(HandshakeAck(b)) = {} /\ ReplyOf(HandshakeAck(b)) = {}
      /\ \A m : HandOf(MsgAck(m)) = {} /\ ReplyOf(MsgAck(m)) = {}
  BY DEF HandOf, ReplyOf, HandshakeAck, MsgAck, Replying, BodyIds
<1>3. /\ \A m, k : k \in {"route", "store"} =>
           HandOf([kind |-> k, msg |-> m]) = {m.id} /\ ReplyOf([kind |-> k, msg |-> m]) = {}
      /\ \A m, d, n :
           /\ HandOf([kind |-> "send", msg |-> m, target |-> d, seq |-> n]) = {m.id}
           /\ ReplyOf([kind |-> "send", msg |-> m, target |-> d, seq |-> n]) = {}
  BY DEF HandOf, ReplyOf
<1>4. \A ms : /\ HandOf(Replying([cmd |-> "SyncResp", messages |-> ms])) = {}
              /\ ReplyOf(Replying([cmd |-> "SyncResp", messages |-> ms])) = QueueIds(ms)
  BY DEF HandOf, ReplyOf, Replying, BodyIds, QueueIds
<1> QED BY <1>1, <1>2, <1>3, <1>4

\* A step that gives task c another job.
LEMMA OtherJobs ==
  ASSUME Contents, NEW c \in Conns, NEW j, job' = [job EXCEPT ![c] = j]
  PROVE  /\ HandIds(c)' = HandOf(j) /\ PendingIds(c)' = ReplyOf(j)
         /\ \A d \in Conns : d # c => HandIds(d)' = HandIds(d) /\ PendingIds(d)' = PendingIds(d)
<1>1. job'[c] = j /\ \A d \in Conns : d # c => job'[d] = job[d]
  BY DEF Contents
<1>2. HandIds(c)' = HandOf(job'[c]) /\ PendingIds(c)' = ReplyOf(job'[c])
  BY DEF HandIds, InHand, HandOf, PendingIds, ReplyOf
<1>3. ASSUME NEW d \in Conns, d # c
      PROVE  HandIds(d)' = HandIds(d) /\ PendingIds(d)' = PendingIds(d)
  <2>1. job'[d] = job[d]
    BY <1>1, <1>3
  <2> QED BY <2>1 DEF HandIds, InHand, PendingIds
<1> QED BY <1>1, <1>2, <1>3

LEMMA SameJobs ==
  ASSUME job' = job
  PROVE  \A d \in Conns : HandIds(d)' = HandIds(d) /\ PendingIds(d)' = PendingIds(d)
BY DEF HandIds, InHand, PendingIds

\* Queues that stay as they are, or change for one user; the same for channels.
LEMMA OtherQueues ==
  ASSUME Contents, NEW u \in Users, NEW q, offline' = [offline EXCEPT ![u] = q]
  PROVE  /\ OfflineIds(u)' = QueueIds(q)
         /\ \A w \in Users : w # u => OfflineIds(w)' = OfflineIds(w)
<1>1. offline'[u] = q /\ \A w \in Users : w # u => offline'[w] = offline[w]
  BY DEF Contents
<1>2. OfflineIds(u)' = QueueIds(offline'[u])
  BY DEF OfflineIds, QueueIds
<1>3. ASSUME NEW w \in Users, w # u PROVE OfflineIds(w)' = OfflineIds(w)
  <2>1. offline'[w] = offline[w]
    BY <1>1, <1>3
  <2> QED BY <2>1 DEF OfflineIds
<1> QED BY <1>1, <1>2, <1>3

LEMMA SameQueues ==
  ASSUME offline' = offline
  PROVE  \A u \in Users : OfflineIds(u)' = OfflineIds(u)
BY DEF OfflineIds

LEMMA OtherChannels ==
  ASSUME Contents, NEW c \in Conns, NEW s, down' = [down EXCEPT ![c] = s]
  PROVE  /\ DownIds(c)' = SlotIds(s)
         /\ \A d \in Conns : d # c => DownIds(d)' = DownIds(d)
<1>1. down'[c] = s /\ \A d \in Conns : d # c => down'[d] = down[d]
  BY DEF Contents
<1>2. DownIds(c)' = SlotIds(down'[c])
  BY DEF DownIds, SlotIds
<1>3. ASSUME NEW d \in Conns, d # c PROVE DownIds(d)' = DownIds(d)
  <2>1. down'[d] = down[d]
    BY <1>1, <1>3
  <2> QED BY <2>1 DEF DownIds
<1> QED BY <1>1, <1>2, <1>3

LEMMA SameChannels ==
  ASSUME down' = down
  PROVE  \A d \in Conns : DownIds(d)' = DownIds(d)
BY DEF DownIds

-----------------------------------------------------------------------------
Distinct(q) == \A i, j \in 1..Len(q) : i # j => q[i].id # q[j].id

LEMMA StoreDistinct ==
  ASSUME NEW q \in Seq(Msgs), NEW m \in Msgs, Len(q) <= MAX_OFFLINE,
         Distinct(q), m.id \notin QueueIds(q)
  PROVE  /\ Distinct(store_offline(q, m))
         /\ QueueIds(store_offline(q, m)) \subseteq QueueIds(q) \cup {m.id}
<1> DEFINE r == store_offline(q, m)
<1>1. PICK k \in 0..Len(q) :
        /\ r \in Seq(Msgs)
        /\ Len(r) = Len(q) - k + 1
        /\ \A i \in 1..(Len(q) - k) : r[i] = q[k + i]
        /\ r[Len(q) - k + 1] = m
  BY StorePuts
<1> HIDE DEF r
<1>2. ASSUME NEW i \in 1..Len(r)
      PROVE  IF i = Len(r) THEN r[i] = m ELSE k + i \in 1..Len(q) /\ r[i] = q[k + i]
  <2>1. CASE i = Len(r)
    BY <1>1, <2>1
  <2>2. CASE i # Len(r)
    <3>1. i \in 1..(Len(q) - k)
      BY <1>1, <2>2
    <3>2. k + i \in 1..Len(q)
      BY <3>1
    <3> QED BY <1>1, <2>2, <3>1, <3>2
  <2> QED BY <2>1, <2>2
<1>3. QueueIds(r) \subseteq QueueIds(q) \cup {m.id}
  BY <1>2 DEF QueueIds
<1>4. ASSUME NEW i \in 1..Len(r), NEW j \in 1..Len(r), i # j
      PROVE  r[i].id # r[j].id
  <2>1. CASE i = Len(r)
    <3>1. r[i] = m /\ k + j \in 1..Len(q) /\ r[j] = q[k + j]
      BY <1>2, <1>4, <2>1
    <3> QED BY <3>1 DEF QueueIds
  <2>2. CASE j = Len(r)
    <3>1. r[j] = m /\ k + i \in 1..Len(q) /\ r[i] = q[k + i]
      BY <1>2, <1>4, <2>2
    <3> QED BY <3>1 DEF QueueIds
  <2>3. CASE i # Len(r) /\ j # Len(r)
    <3>1. k + i \in 1..Len(q) /\ r[i] = q[k + i] /\ k + j \in 1..Len(q) /\ r[j] = q[k + j]
      BY <1>2, <2>3
    <3>2. k + i # k + j
      BY <1>4
    <3> QED BY <3>1, <3>2 DEF Distinct
  <2> QED BY <2>1, <2>2, <2>3
<1> QED BY <1>3, <1>4 DEF Distinct, r

LEMMA ScanDistinct ==
  ASSUME NEW q \in Seq(Msgs), NEW since, Distinct(q)
  PROVE  /\ Distinct(SyncScan(q, since)[2])
         /\ QueueIds(SyncScan(q, since)[2]) \subseteq QueueIds(q)
         /\ QueueIds(SyncScan(q, since)[1]) \subseteq QueueIds(q)
         /\ QueueIds(SyncScan(q, since)[1]) \cap QueueIds(SyncScan(q, since)[2]) = {}
<1> DEFINE taken == SyncScan(q, since)[1]  rest == SyncScan(q, since)[2]
<1>1. PICK k \in 0..Len(q) :
        /\ taken \in Seq(Msgs)
        /\ \A n \in 1..Len(taken) : \E i \in 1..k : taken[n] = q[i]
        /\ rest \in Seq(Msgs)
        /\ Len(rest) = Len(q) - k
        /\ \A i \in 1..(Len(q) - k) : rest[i] = q[k + i]
  BY ScanParts
<1> HIDE DEF taken, rest
<1>2. ASSUME NEW i \in 1..Len(rest)
      PROVE  k + i \in 1..Len(q) /\ k + i > k /\ rest[i] = q[k + i]
  BY <1>1
<1>3. ASSUME NEW i \in 1..Len(rest), NEW j \in 1..Len(rest), i # j
      PROVE  rest[i].id # rest[j].id
  <2>1. k + i # k + j
    BY <1>3
  <2> QED BY <1>2, <2>1 DEF Distinct
<1>4. ASSUME NEW n \in 1..Len(taken), NEW j \in 1..Len(rest)
      PROVE  taken[n].id # rest[j].id
  <2>1. PICK i \in 1..k : taken[n] = q[i]
    BY <1>1
  <2>2. i \in 1..Len(q) /\ i # k + j
    BY <1>2
  <2> QED BY <1>2, <2>1, <2>2 DEF Distinct
<1>5. \A n \in 1..Len(taken) : \E i \in 1..Len(q) : taken[n] = q[i]
  BY <1>1
<1>6. QueueIds(rest) \subseteq QueueIds(q) /\ QueueIds(taken) \subseteq QueueIds(q)
  BY <1>2, <1>5 DEF QueueIds
<1>7. QueueIds(taken) \cap QueueIds(rest) = {}
  BY <1>4 DEF QueueIds
<1> QED BY <1>3, <1>6, <1>7 DEF Distinct, taken, rest

\* What is in no place.
Nowhere == <<"nowhere", 0>>
LEMMA NotAPlace == \A p \in Places : p # Nowhere
BY DEF Places, Nowhere

(***************************************************************************)
(* The steps of a task that only change its own job, and take no id        *)
(* anywhere: a refused or an accepted login, or the end of a send that     *)
(* found the channel closed.                                               *)
(***************************************************************************)
LEMMA JobShrinks ==
  ASSUME Contents, CustodyInv, NEW c \in Conns, NEW j, job' = [job EXCEPT ![c] = j],
         HandOf(j) \subseteq HandIds(c), ReplyOf(j) \subseteq PendingIds(c),
         offline' = offline, down' = down, last_id' \in Nat, last_id <= last_id'
  PROVE  CustodyInv'
<1> USE DEF CustodyInv
<1>1. last_id \in Nat
  BY DEF Contents
<1>2. /\ \A d \in Conns : HandIds(d)' \subseteq HandIds(d) /\ PendingIds(d)' \subseteq PendingIds(d)
  BY OtherJobs
<1>3. Shrinks(Nowhere)
  BY <1>2, SameQueues, SameChannels, ShrinkCases
<1>4. Numbered' /\ OnePlace'
  BY <1>1, <1>3, NothingTaken, NotAPlace DEF Shrinks
<1>5. QueueDistinct'
  BY DEF QueueDistinct
<1> QED BY <1>4, <1>5


\* A step that leaves the places alone, and a client that reads a frame.
LEMMA RestKeepsCustody ==
  ASSUME Contents, CustodyInv, UNCHANGED <<job, offline, down, last_id>>
  PROVE  CustodyInv'
<1> USE DEF CustodyInv
<1>1. Shrinks(Nowhere)
  BY SameJobs, SameQueues, SameChannels, ShrinkCases
<1>2. last_id \in Nat /\ last_id' \in Nat /\ last_id <= last_id'
  BY DEF Contents
<1>3. Numbered' /\ OnePlace'
  BY <1>1, <1>2, NothingTaken, NotAPlace DEF Shrinks
<1> QED BY <1>3 DEF QueueDistinct

LEMMA ReadKeepsCustody ==
  ASSUME Contents, CustodyInv, NEW c \in Conns, down[c] # << >>,
         down' = [down EXCEPT ![c] = Tail(@)], UNCHANGED <<job, offline, last_id>>
  PROVE  CustodyInv'
<1> USE DEF CustodyInv
<1>1. PICK s : s = Tail(down[c])
  OBVIOUS
<1>2. down[c] \in Seq(Slots) /\ down' = [down EXCEPT ![c] = s]
  BY <1>1 DEF Contents
<1>3. /\ DownIds(c)' = SlotIds(s)
      /\ \A d \in Conns : d # c => DownIds(d)' = DownIds(d)
  BY <1>2, OtherChannels
<1>4. SlotIds(s) \subseteq SlotIds(down[c])
  BY <1>1, <1>2, SlotIdsTail
<1>5. DownIds(c)' \subseteq DownIds(c)
  BY <1>3, <1>4, IdsOf
<1>6. Shrinks(Nowhere)
  BY <1>3, <1>5, SameJobs, SameQueues, ShrinkCases
<1>7. last_id \in Nat /\ last_id' \in Nat /\ last_id <= last_id'
  BY DEF Contents
<1>8. Numbered' /\ OnePlace'
  BY <1>6, <1>7, NothingTaken, NotAPlace DEF Shrinks
<1> QED BY <1>8 DEF QueueDistinct

(***************************************************************************)
(* Every step keeps the ids in one place.                                  *)
(***************************************************************************)
LEMMA CustodyInvStep ==
  ASSUME Shape, Contents, CustodyInv, [Next]_vars
  PROVE  CustodyInv'
<1> USE DEF CustodyInv
<1>a. last_id \in Nat
  BY DEF Contents
<1>b. \A u \in Users : offline[u] \in Seq(Msgs) /\ Len(offline[u]) <= MAX_OFFLINE /\ Distinct(offline[u])
  BY DEF Contents, QueueDistinct, Distinct
<1>c. \A d \in Conns : down[d] \in Seq(Slots)
  BY DEF Contents
<1>d. \A u \in Users : <<"queue", u>> \in Places
  BY DEF Places
<1>e. \A d \in Conns : <<"hand", d>> \in Places /\ <<"reply", d>> \in Places /\ <<"channel", d>> \in Places
  BY DEF Places
<1>1. ASSUME UNCHANGED <<job, offline, down, last_id>> PROVE CustodyInv'
  <2> HIDE DEF CustodyInv
  <2> QED BY <1>1, RestKeepsCustody
<1>2. ASSUME NEW c \in Conns, HandshakeRefused(c) \/ HandshakeAccepted(c) PROVE CustodyInv'
  <2>1. PICK b \in BOOLEAN : job' = [job EXCEPT ![c] = HandshakeAck(b)]
    BY <1>2 DEF HandshakeRefused, HandshakeAccepted
  <2>2. offline' = offline /\ down' = down
    BY <1>2 DEF HandshakeRefused, HandshakeAccepted
  <2>3. last_id' = last_id \/ last_id' = last_id + 1
    BY <1>2 DEF HandshakeRefused, HandshakeAccepted
  <2>4. last_id' \in Nat /\ last_id <= last_id'
    BY <1>a, <2>3
  <2>5. HandOf(HandshakeAck(b)) = {} /\ ReplyOf(HandshakeAck(b)) = {}
    BY JobIds
  <2> QED BY <2>1, <2>2, <2>4, <2>5, JobShrinks
<1>3. ASSUME NEW c \in Conns, MsgNumbered(c) PROVE CustodyInv'
  <2> DEFINE f == Head(up[c])
             m == [from |-> user[c], to |-> f.to, cmid |-> f.cmid, id |-> last_id + 1]
             j == [kind |-> "route", msg |-> m]
             q == <<"hand", c>>
             X == {last_id + 1}
  <2>1. job' = [job EXCEPT ![c] = j]
    BY <1>3 DEF MsgNumbered
  <2>2. last_id' = last_id + 1 /\ offline' = offline /\ down' = down
    BY <1>3 DEF MsgNumbered
  <2>3. HandOf(j) = {m.id} /\ ReplyOf(j) = {} /\ m.id = last_id + 1
    BY JobIds
  <2> HIDE DEF j, m
  <2>4. HandIds(c)' = X /\ PendingIds(c)' = {}
        /\ \A d \in Conns : d # c => HandIds(d)' = HandIds(d) /\ PendingIds(d)' = PendingIds(d)
    BY <2>1, <2>3, OtherJobs
  <2>5. Shrinks(q)
    BY <2>2, <2>4, SameQueues, SameChannels, ShrinkCases
  <2>6. IdsAt(q)' = X
    BY <2>4 DEF IdsAt
  <2>7. X \subseteq 1..last_id' /\ last_id' \in Nat /\ last_id <= last_id'
    BY <1>a, <2>2
  <2>8. \A p \in Places : IdsAt(p) \cap X = {}
    BY <1>a DEF Numbered
  <2>9. \A p \in Places : p # q => IdsAt(p)' \cap X = {}
    BY <2>5, <2>8 DEF Shrinks
  <2> HIDE DEF q, X
  <2>10. q \in Places
    BY <1>e DEF q
  <2>11. Numbered' /\ OnePlace'
    BY <1>a, <2>5, <2>6, <2>7, <2>9, <2>10, TakenOnce
  <2> QED BY <2>2, <2>11 DEF QueueDistinct
<1>4. ASSUME NEW c \in Conns, DeliverLookup(c) PROVE CustodyInv'
  <2>1. PICK m : m = job[c].msg
    OBVIOUS
  <2>2. HandIds(c) = {m.id} /\ last_id' = last_id /\ offline' = offline /\ down' = down
    BY <1>4, <2>1 DEF DeliverLookup, HandIds, InHand, wires
  <2>3. CASE \E t, n : job' = [job EXCEPT ![c] = [kind |-> "send", msg |-> m,
                                               target |-> t, seq |-> n]]
    <3>1. PICK j : /\ job' = [job EXCEPT ![c] = j]
                   /\ \E t, n : j = [kind |-> "send", msg |-> m, target |-> t, seq |-> n]
      BY <2>3
    <3>2. HandOf(j) = {m.id} /\ ReplyOf(j) = {}
      BY <3>1, JobIds
    <3>3. HandOf(j) \subseteq HandIds(c) /\ ReplyOf(j) \subseteq PendingIds(c)
      BY <2>2, <3>2
    <3>4. last_id' \in Nat /\ last_id <= last_id'
      BY <1>a, <2>2
    <3> QED BY <2>2, <3>1, <3>3, <3>4, JobShrinks
  <2>4. CASE job' = [job EXCEPT ![c] = [kind |-> "store", msg |-> m]]
    <3>1. PICK j : j = [kind |-> "store", msg |-> m]
      OBVIOUS
    <3>2. HandOf(j) = {m.id} /\ ReplyOf(j) = {} /\ job' = [job EXCEPT ![c] = j]
      BY <2>4, <3>1, JobIds
    <3>3. HandOf(j) \subseteq HandIds(c) /\ ReplyOf(j) \subseteq PendingIds(c)
      BY <2>2, <3>2
    <3>4. last_id' \in Nat /\ last_id <= last_id'
      BY <1>a, <2>2
    <3> QED BY <2>2, <3>2, <3>3, <3>4, JobShrinks
  <2> QED BY <1>4, <2>1, <2>3, <2>4 DEF DeliverLookup
<1>5. ASSUME NEW c \in Conns, DeliverSend(c) PROVE CustodyInv'
  <2>0. PICK m \in Msgs, t \in Conns : m = job[c].msg /\ t = job[c].target
    BY <1>5, HandMsg, HandTarget DEF DeliverSend
  <2> DEFINE p == <<"hand", c>>
             q == <<"channel", t>>
             X == {m.id}
  <2>1. HandIds(c) = X /\ last_id' = last_id /\ offline' = offline
    BY <1>5, <2>0 DEF DeliverSend, HandIds, InHand
  <2>2. PICK slot \in Slots : slot = [seq |-> job[c].seq, body |-> [cmd |-> "Msg", msg |-> m]]
    BY <1>5, <2>0, HandTarget, BodyTypes DEF DeliverSend
  <2>3. BodyIds(slot.body) = X
    BY <2>2 DEF BodyIds
  <2>4. CASE /\ down' = [down EXCEPT ![t] = Append(@, slot)]
             /\ job' = [job EXCEPT ![c] = MsgAck(m)]
    <3>1. PICK j, s : j = MsgAck(m) /\ s = Append(down[t], slot)
      OBVIOUS
    <3>2. /\ job' = [job EXCEPT ![c] = j] /\ HandOf(j) = {} /\ ReplyOf(j) = {}
          /\ down' = [down EXCEPT ![t] = s]
      BY <2>4, <3>1, JobIds
    <3>3. HandIds(c)' = {} /\ PendingIds(c)' = {}
          /\ \A d \in Conns : d # c => HandIds(d)' = HandIds(d) /\ PendingIds(d)' = PendingIds(d)
      BY <3>2, OtherJobs
    <3>4. /\ DownIds(t)' = SlotIds(s)
          /\ \A d \in Conns : d # t => DownIds(d)' = DownIds(d)
      BY <3>2, OtherChannels
    <3>5. SlotIds(s) \subseteq SlotIds(down[t]) \cup BodyIds(slot.body)
      BY <1>c, <3>1, SlotIdsAppend
    <3>6. DownIds(t)' \subseteq DownIds(t) \cup X
      BY <2>3, <3>4, <3>5, IdsOf
    <3>7. Shrinks(q)
      BY <2>1, <3>3, <3>4, SameQueues, ShrinkCases
    <3>8. X \subseteq IdsAt(p) /\ IdsAt(p)' \cap X = {} /\ IdsAt(q)' \subseteq IdsAt(q) \cup X
      BY <2>1, <3>3, <3>6 DEF IdsAt
    <3>9. p # q /\ p \in Places /\ q \in Places
      BY <1>e
    <3> HIDE DEF p, q, X
    <3>10. Numbered' /\ OnePlace'
      BY <1>a, <2>1, <3>7, <3>8, <3>9, Moved
    <3> QED BY <2>1, <3>10 DEF QueueDistinct
  <2>5. CASE /\ job' = [job EXCEPT ![c] = [kind |-> "store", msg |-> m]]
             /\ down' = down
    <3>1. PICK j : j = [kind |-> "store", msg |-> m]
      OBVIOUS
    <3>2. HandOf(j) = X /\ ReplyOf(j) = {} /\ job' = [job EXCEPT ![c] = j]
      BY <2>5, <3>1, JobIds
    <3>3. HandOf(j) \subseteq HandIds(c) /\ ReplyOf(j) \subseteq PendingIds(c)
      BY <2>1, <3>2
    <3>4. last_id' \in Nat /\ last_id <= last_id'
      BY <1>a, <2>1
    <3> QED BY <2>1, <2>5, <3>2, <3>3, <3>4, JobShrinks
  <2> QED BY <1>5, <2>0, <2>2, <2>4, <2>5 DEF DeliverSend
<1>6. ASSUME NEW c \in Conns, DeliverStore(c) PROVE CustodyInv'
  <2>0. PICK m \in Msgs, u \in Users : m = job[c].msg /\ u = m.to
    BY <1>6, HandMsg DEF DeliverStore, Msgs
  <2> DEFINE p == <<"hand", c>>
             q == <<"queue", u>>
             X == {m.id}
  <2>1. HandIds(c) = X /\ last_id' = last_id /\ down' = down
    BY <1>6, <2>0 DEF DeliverStore, HandIds, InHand, wires
  <2>2. PICK j, r : j = MsgAck(m) /\ r = store_offline(offline[u], m)
    OBVIOUS
  <2>3. /\ offline' = [offline EXCEPT ![u] = r] /\ job' = [job EXCEPT ![c] = j]
        /\ HandOf(j) = {} /\ ReplyOf(j) = {}
    BY <1>6, <2>0, <2>2, JobIds DEF DeliverStore
  <2>4. p # q /\ p \in Places /\ q \in Places
    BY <1>d, <1>e
  <2>5. OfflineIds(u) = QueueIds(offline[u])
    BY IdsOf
  <2>6. m.id \notin QueueIds(offline[u])
    <3>1. IdsAt(p) \cap IdsAt(q) = {}
      BY <2>4 DEF OnePlace
    <3> QED BY <2>1, <2>5, <3>1, IdsOf
  <2>7. HandIds(c)' = {} /\ PendingIds(c)' = {}
        /\ \A d \in Conns : d # c => HandIds(d)' = HandIds(d) /\ PendingIds(d)' = PendingIds(d)
    BY <2>3, OtherJobs
  <2>8. /\ OfflineIds(u)' = QueueIds(r)
        /\ \A w \in Users : w # u => OfflineIds(w)' = OfflineIds(w)
    BY <2>3, OtherQueues
  <2>9. Distinct(r) /\ QueueIds(r) \subseteq QueueIds(offline[u]) \cup X
    BY <1>b, <2>2, <2>6, StoreDistinct
  <2>10. Shrinks(q)
    BY <2>1, <2>7, <2>8, SameChannels, ShrinkCases
  <2>11. X \subseteq IdsAt(p) /\ IdsAt(p)' \cap X = {} /\ IdsAt(q)' \subseteq IdsAt(q) \cup X
    BY <2>1, <2>5, <2>7, <2>8, <2>9 DEF IdsAt
  <2>12. Numbered' /\ OnePlace'
    <3> HIDE DEF p, q, X
    <3> QED BY <1>a, <2>1, <2>4, <2>10, <2>11, Moved
  <2>13. offline'[u] = r /\ \A w \in Users \ {u} : offline'[w] = offline[w]
    BY <2>3 DEF Contents
  <2>14. \A w \in Users : Distinct(offline'[w])
    BY <1>b, <2>9, <2>13
  <2> QED BY <2>12, <2>14 DEF QueueDistinct, Distinct
<1>7. ASSUME NEW c \in Conns, SyncTaken(c) PROVE CustodyInv'
  <2>u. PICK u \in Users : u = user[c]
    BY <1>7 DEF SyncTaken, Shape
  <2>s. PICK since : since = Head(up[c]).since
    OBVIOUS
  <2>0. u = user[c] /\ since = Head(up[c]).since
    BY <2>u, <2>s
  <2>1. PICK taken, rest : /\ taken = SyncScan(offline[u], since)[1]
                           /\ rest = SyncScan(offline[u], since)[2]
    OBVIOUS
  <2>2. PICK j : j = Replying([cmd |-> "SyncResp", messages |-> taken])
    OBVIOUS
  <2>3. /\ offline' = [offline EXCEPT ![u] = rest] /\ job' = [job EXCEPT ![c] = j]
        /\ last_id' = last_id /\ down' = down
    BY <1>7, <2>0, <2>1, <2>2 DEF SyncTaken
  <2> DEFINE p == <<"queue", u>>
             q == <<"reply", c>>
             X == QueueIds(taken)
  <2>4. HandOf(j) = {} /\ ReplyOf(j) = X
    BY <2>2, JobIds
  <2>5. /\ Distinct(rest)
        /\ QueueIds(rest) \subseteq QueueIds(offline[u])
        /\ X \subseteq QueueIds(offline[u])
        /\ X \cap QueueIds(rest) = {}
    BY <1>b, <2>1, ScanDistinct
  <2>6. p # q /\ p \in Places /\ q \in Places
    BY <1>d, <1>e
  <2>7. HandIds(c)' = {} /\ PendingIds(c)' = X
        /\ \A d \in Conns : d # c => HandIds(d)' = HandIds(d) /\ PendingIds(d)' = PendingIds(d)
    BY <2>3, <2>4, OtherJobs
  <2>8. /\ OfflineIds(u)' = QueueIds(rest)
        /\ \A w \in Users : w # u => OfflineIds(w)' = OfflineIds(w)
    BY <2>3, OtherQueues
  <2>9. OfflineIds(u) = QueueIds(offline[u])
    BY IdsOf
  <2> HIDE DEF X
  <2>10. Shrinks(q)
    BY <2>3, <2>5, <2>7, <2>8, <2>9, SameChannels, ShrinkCases
  <2>11. X \subseteq IdsAt(p) /\ IdsAt(p)' \cap X = {} /\ IdsAt(q)' \subseteq IdsAt(q) \cup X
    BY <2>5, <2>7, <2>8, <2>9 DEF IdsAt
  <2>12. Numbered' /\ OnePlace'
    <3> HIDE DEF p, q
    <3> QED BY <1>a, <2>3, <2>6, <2>10, <2>11, Moved
  <2>13. offline'[u] = rest /\ \A w \in Users \ {u} : offline'[w] = offline[w]
    BY <2>3 DEF Contents
  <2>14. \A w \in Users : Distinct(offline'[w])
    BY <1>b, <2>5, <2>13
  <2> QED BY <2>12, <2>14 DEF QueueDistinct, Distinct
<1>8. ASSUME NEW c \in Conns, Reply(c) PROVE CustodyInv'
  <2>0. PICK f \in Bodies : f = job[c].frame
    BY <1>8, ReplyFrame DEF Reply
  <2> DEFINE p == <<"reply", c>>
             q == <<"channel", c>>
             X == BodyIds(f)
  <2>1. PendingIds(c) = X /\ last_id' = last_id /\ offline' = offline
        /\ job' = [job EXCEPT ![c] = Idle]
    BY <1>8, <2>0 DEF Reply, PendingIds
  <2>2. PICK slot \in Slots : slot = [seq |-> reply_seq[c] + 1, body |-> f]
    <3>1. reply_seq[c] + 1 \in Nat
      BY DEF Contents
    <3> QED BY <3>1, BodyTypes
  <2>3. HandOf(Idle) = {} /\ ReplyOf(Idle) = {} /\ BodyIds(slot.body) = X
    BY <2>2, JobIds
  <2>4. PICK j : j = Idle
    OBVIOUS
  <2>5. CASE down' = [down EXCEPT ![c] = Append(@, slot)]
    <3>1. PICK s : s = Append(down[c], slot)
      OBVIOUS
    <3>2. job' = [job EXCEPT ![c] = j] /\ down' = [down EXCEPT ![c] = s]
      BY <2>1, <2>4, <2>5, <3>1
    <3>3. HandIds(c)' = {} /\ PendingIds(c)' = {}
          /\ \A d \in Conns : d # c => HandIds(d)' = HandIds(d) /\ PendingIds(d)' = PendingIds(d)
      BY <2>3, <2>4, <3>2, OtherJobs
    <3>4. /\ DownIds(c)' = SlotIds(s)
          /\ \A d \in Conns : d # c => DownIds(d)' = DownIds(d)
      BY <3>2, OtherChannels
    <3>5. SlotIds(s) \subseteq SlotIds(down[c]) \cup BodyIds(slot.body)
      BY <1>c, <3>1, SlotIdsAppend
    <3>6. DownIds(c)' \subseteq DownIds(c) \cup X
      BY <2>3, <3>4, <3>5, IdsOf
    <3> HIDE DEF X
    <3>7. Shrinks(q)
      BY <2>1, <3>3, <3>4, SameQueues, ShrinkCases
    <3>8. X \subseteq IdsAt(p) /\ IdsAt(p)' \cap X = {} /\ IdsAt(q)' \subseteq IdsAt(q) \cup X
      BY <2>1, <3>3, <3>6 DEF IdsAt
    <3>9. p # q /\ p \in Places /\ q \in Places
      BY <1>e
    <3> HIDE DEF p, q
    <3>10. Numbered' /\ OnePlace'
      BY <1>a, <2>1, <3>7, <3>8, <3>9, Moved
    <3> QED BY <2>1, <3>10 DEF QueueDistinct
  <2>6. CASE down' = down
    <3>1. job' = [job EXCEPT ![c] = j]
      BY <2>1, <2>4
    <3>2. HandOf(j) \subseteq HandIds(c) /\ ReplyOf(j) \subseteq PendingIds(c)
      BY <2>3, <2>4
    <3>3. last_id' \in Nat /\ last_id <= last_id'
      BY <1>a, <2>1
    <3> QED BY <2>1, <2>6, <3>1, <3>2, <3>3, JobShrinks
  <2> QED BY <1>8, <2>0, <2>2, <2>5, <2>6 DEF Reply
<1>9. ASSUME NEW c \in Conns, ClientRead(c) PROVE CustodyInv'
  <2>1. /\ down[c] # << >> /\ down' = [down EXCEPT ![c] = Tail(@)]
        /\ UNCHANGED <<job, offline, last_id>>
    BY <1>9 DEF ClientRead
  <2> HIDE DEF CustodyInv
  <2> QED BY <2>1, ReadKeepsCustody
<1>10. ASSUME NEW c \in Conns,
              MsgDropped(c) \/ SyncIgnored(c) \/ SessionEnd(c) \/ ReaderExit(c) \/ WriterExit(c)
       PROVE CustodyInv'
  <2>1. UNCHANGED <<job, offline, down, last_id>>
    BY <1>10 DEF MsgDropped, SyncIgnored, SessionEnd, ReaderExit, WriterExit, wires
  <2> QED BY <1>1, <2>1
<1>11. ASSUME NEW c \in Conns, NEW f \in ClientFrames, ClientSend(c, f) PROVE CustodyInv'
  <2>1. UNCHANGED <<job, offline, down, last_id>>
    BY <1>11 DEF ClientSend
  <2> QED BY <1>1, <2>1
<1>12. CASE Accept \/ UNCHANGED vars
  <2>1. UNCHANGED <<job, offline, down, last_id>>
    BY <1>12 DEF Accept, vars, wires
  <2> QED BY <1>1, <2>1
<1> HIDE DEF CustodyInv
<1> QED
  BY <1>2, <1>3, <1>4, <1>5, <1>6, <1>7, <1>8, <1>9, <1>10, <1>11, <1>12
     DEF Next, ServerNext, SessionStep

LEMMA CustodyInit == Init => Contents /\ CustodyInv
<1> SUFFICES ASSUME Init PROVE Contents /\ CustodyInv
  OBVIOUS
<1>1. Contents
  BY SessionsAssumption DEF Init, Contents, Jobs
<1>2. \A u \in Users : OfflineIds(u) = {}
  BY DEF Init, OfflineIds
<1>3. \A c \in Conns : HandIds(c) = {} /\ PendingIds(c) = {} /\ DownIds(c) = {}
  BY DEF Init, HandIds, InHand, PendingIds, DownIds, Idle
<1>4. \A p \in Places : IdsAt(p) = {}
  BY <1>2, <1>3 DEF Places, IdsAt
<1>5. Numbered /\ OnePlace
  BY <1>4 DEF Numbered, OnePlace
<1>6. QueueDistinct
  BY DEF Init, QueueDistinct
<1> QED BY <1>1, <1>5, <1>6 DEF CustodyInv

LEMMA CustodyInvariant == Spec => [](RInv /\ Contents /\ CustodyInv)
<1>1. Init => Contents /\ CustodyInv
  BY CustodyInit
<1>2. RInv => Shape
  BY DEF RInv
<1>3. RInv /\ Contents /\ CustodyInv /\ [Next]_vars => Contents' /\ CustodyInv'
  BY <1>2, ContentsStep, CustodyInvStep
<1> QED BY <1>1, <1>3, RoutingInvariant, PTL DEF Spec

\* A queue without repetitions has as many ids as messages.
LEMMA DistinctCounted ==
  ASSUME NEW q \in Seq(Msgs), Distinct(q)
  PROVE  Cardinality(QueueIds(q)) = Len(q)
<1> DEFINE f == [i \in 1..Len(q) |-> q[i].id]
<1>1. f \in Bijection(1..Len(q), QueueIds(q))
  <2>1. f \in [1..Len(q) -> QueueIds(q)]
    BY DEF QueueIds
  <2>2. \A i, j \in 1..Len(q) : f[i] = f[j] => i = j
    BY DEF Distinct
  <2>3. \A x \in QueueIds(q) : \E i \in 1..Len(q) : f[i] = x
    BY DEF QueueIds
  <2> HIDE DEF f
  <2> QED BY <2>1, <2>2, <2>3 DEF Bijection, Injection, Surjection, IsInjective
<1>2. ExistsBijection(1..Len(q), QueueIds(q))
  BY <1>1 DEF ExistsBijection
<1>3. Len(q) \in Nat
  OBVIOUS
<1> QED BY <1>2, <1>3, FS_CountingElements

LEMMA CustodyIsSingle ==
  ASSUME Contents, CustodyInv
  PROVE  SingleCustody
<1>1. ASSUME NEW u \in Users, NEW c \in Conns
      PROVE  OfflineIds(u) \cap (DownIds(c) \cup PendingIds(c)) = {}
  <2>1. /\ <<"queue", u>> \in Places /\ <<"channel", c>> \in Places /\ <<"reply", c>> \in Places
        /\ <<"queue", u>> # <<"channel", c>> /\ <<"queue", u>> # <<"reply", c>>
    BY DEF Places
  <2>2. /\ IdsAt(<<"queue", u>>) \cap IdsAt(<<"channel", c>>) = {}
        /\ IdsAt(<<"queue", u>>) \cap IdsAt(<<"reply", c>>) = {}
    BY <2>1 DEF CustodyInv, OnePlace
  <2> QED BY <2>2, IdsOf
<1>2. ASSUME NEW c \in Conns, NEW d \in Conns
      PROVE  /\ c # d => DownIds(c) \cap DownIds(d) = {}
             /\ DownIds(c) \cap PendingIds(d) = {}
  <2>1. /\ <<"channel", c>> \in Places /\ <<"channel", d>> \in Places /\ <<"reply", d>> \in Places
        /\ c # d => <<"channel", c>> # <<"channel", d>>
        /\ <<"channel", c>> # <<"reply", d>>
    BY DEF Places
  <2>2. /\ c # d => IdsAt(<<"channel", c>>) \cap IdsAt(<<"channel", d>>) = {}
        /\ IdsAt(<<"channel", c>>) \cap IdsAt(<<"reply", d>>) = {}
    BY <2>1 DEF CustodyInv, OnePlace
  <2> QED BY <2>2, IdsOf
<1>3. ASSUME NEW u \in Users PROVE Cardinality(OfflineIds(u)) = Len(offline[u])
  <2>1. offline[u] \in Seq(Msgs) /\ Distinct(offline[u])
    BY DEF Contents, CustodyInv, QueueDistinct, Distinct
  <2> QED BY <2>1, DistinctCounted, IdsOf
<1> QED BY <1>1, <1>2, <1>3 DEF SingleCustody

(***************************************************************************)
(* A numbered message is in one offline queue, one channel or one reply at *)
(* a time, and no queue holds it twice: for any number of connections,     *)
(* capacities, batch sizes and interleavings of deliver, sync_since and    *)
(* the ends of connections.                                                *)
(***************************************************************************)
THEOREM OneCustody == Spec => []SingleCustody
<1>1. RInv /\ Contents /\ CustodyInv => SingleCustody
  BY CustodyIsSingle
<1> QED BY <1>1, CustodyInvariant, PTL

-----------------------------------------------------------------------------
(***************************************************************************)
(* A task that is in the middle of something lives; the message in its     *)
(* hands is one of its own user, and newer than all of that user that have *)
(* arrived anywhere; its replies are no messages.                          *)
(***************************************************************************)
BusyLives == \A c \in Conns : job[c] # Idle => task[c] = "live"

Handled ==
  \A c \in Conns : InHand(c) => user[c] # NoUser /\ job[c].msg.from = user[c]

\* In a queue, or among the live messages of a channel, those from w are older
\* than id n.
Older(q, w, n) == \A i \in 1..Len(q) : q[i].from = w => q[i].id < n
OlderLive(s, w, n) ==
  \A i \in 1..Len(s) : s[i].body.cmd = "Msg" /\ s[i].body.msg.from = w => s[i].body.msg.id < n

NewestInHand ==
  \A c \in Conns : InHand(c) =>
    /\ \A u \in Users : Older(offline[u], user[c], job[c].msg.id)
    /\ \A d \in Conns : OlderLive(down[d], user[c], job[c].msg.id)

RepliesOnly == \A c \in Conns : job[c].kind = "reply" => job[c].frame.cmd # "Msg"

OrderedLive(s) ==
  \A i, j \in 1..Len(s) :
    i < j /\ s[i].body.cmd = "Msg" /\ s[j].body.cmd = "Msg" /\ s[i].body.msg.from = s[j].body.msg.from
      => s[i].body.msg.id < s[j].body.msg.id

InOrder ==
  /\ \A u \in Users : Ordered(offline[u])
  /\ \A c \in Conns : OrderedLive(down[c])

OrderInv == BusyLives /\ Handled /\ NewestInHand /\ RepliesOnly /\ InOrder

LEMMA StoreOrdered ==
  ASSUME NEW q \in Seq(Msgs), NEW m \in Msgs, Len(q) <= MAX_OFFLINE
  PROVE  /\ Ordered(q) /\ Older(q, m.from, m.id) => Ordered(store_offline(q, m))
         /\ \A w, n : Older(q, w, n) /\ (m.from = w => m.id < n) => Older(store_offline(q, m), w, n)
<1> DEFINE r == store_offline(q, m)
<1>1. PICK k \in 0..Len(q) :
        /\ r \in Seq(Msgs)
        /\ Len(r) = Len(q) - k + 1
        /\ \A i \in 1..(Len(q) - k) : r[i] = q[k + i]
        /\ r[Len(q) - k + 1] = m
  BY StorePuts
<1> HIDE DEF r
<1>2. ASSUME NEW i \in 1..Len(r)
      PROVE  IF i = Len(r) THEN r[i] = m ELSE k + i \in 1..Len(q) /\ r[i] = q[k + i]
  <2>1. CASE i = Len(r)
    BY <1>1, <2>1
  <2>2. CASE i # Len(r)
    <3>1. i \in 1..(Len(q) - k)
      BY <1>1, <2>2
    <3>2. k + i \in 1..Len(q)
      BY <3>1
    <3> QED BY <1>1, <2>2, <3>1, <3>2
  <2> QED BY <2>1, <2>2
<1>3. ASSUME Ordered(q), Older(q, m.from, m.id),
             NEW i \in 1..Len(r), NEW j \in 1..Len(r), i < j, r[i].from = r[j].from
      PROVE  r[i].id < r[j].id
  <2>1. i # Len(r)
    BY <1>1, <1>3
  <2>2. k + i \in 1..Len(q) /\ r[i] = q[k + i]
    BY <1>2, <2>1
  <2>3. CASE j = Len(r)
    BY <1>2, <1>3, <2>2, <2>3 DEF Older
  <2>4. CASE j # Len(r)
    <3>1. k + j \in 1..Len(q) /\ r[j] = q[k + j]
      BY <1>2, <2>4
    <3>2. k + i < k + j
      BY <1>3
    <3> QED BY <1>3, <2>2, <3>1, <3>2 DEF Ordered
  <2> QED BY <2>3, <2>4
<1>4. ASSUME NEW w, NEW n, Older(q, w, n), m.from = w => m.id < n,
             NEW i \in 1..Len(r), r[i].from = w
      PROVE  r[i].id < n
  BY <1>2, <1>4 DEF Older
<1>5. Ordered(q) /\ Older(q, m.from, m.id) => Ordered(r)
  BY <1>3 DEF Ordered
<1>6. \A w, n : Older(q, w, n) /\ (m.from = w => m.id < n) => Older(r, w, n)
  BY <1>4 DEF Older
<1> QED BY <1>5, <1>6 DEF r

LEMMA ScanOrdered ==
  ASSUME NEW q \in Seq(Msgs), NEW since
  PROVE  /\ Ordered(q) => Ordered(SyncScan(q, since)[2])
         /\ \A w, n : Older(q, w, n) => Older(SyncScan(q, since)[2], w, n)
<1> DEFINE taken == SyncScan(q, since)[1]  rest == SyncScan(q, since)[2]
<1>1. PICK k \in 0..Len(q) :
        /\ taken \in Seq(Msgs)
        /\ \A n \in 1..Len(taken) : \E i \in 1..k : taken[n] = q[i]
        /\ rest \in Seq(Msgs)
        /\ Len(rest) = Len(q) - k
        /\ \A i \in 1..(Len(q) - k) : rest[i] = q[k + i]
  <2>1. q \in Seq(Msgs)
    OBVIOUS
  <2> QED BY <2>1, ScanParts, SMTT(60)
<1> HIDE DEF taken, rest
<1>2. ASSUME NEW i \in 1..Len(rest)
      PROVE  k + i \in 1..Len(q) /\ rest[i] = q[k + i]
  BY <1>1
<1>3. ASSUME Ordered(q), NEW i \in 1..Len(rest), NEW j \in 1..Len(rest), i < j,
             rest[i].from = rest[j].from
      PROVE  rest[i].id < rest[j].id
  <2>1. k + i < k + j
    BY <1>3
  <2> QED BY <1>2, <1>3, <2>1 DEF Ordered
<1>4. ASSUME NEW w, NEW n, Older(q, w, n), NEW i \in 1..Len(rest), rest[i].from = w
      PROVE  rest[i].id < n
  BY <1>2, <1>4 DEF Older
<1>5. Ordered(q) => Ordered(rest)
  BY <1>3 DEF Ordered
<1>6. \A w, n : Older(q, w, n) => Older(rest, w, n)
  BY <1>4 DEF Older
<1> QED BY <1>5, <1>6 DEF rest

LEMMA LiveAppended ==
  ASSUME NEW s \in Seq(Slots), NEW x \in Slots
  PROVE  /\ OrderedLive(s) /\ (x.body.cmd = "Msg" => OlderLive(s, x.body.msg.from, x.body.msg.id))
              => OrderedLive(Append(s, x))
         /\ \A w, n : /\ OlderLive(s, w, n)
                      /\ x.body.cmd = "Msg" /\ x.body.msg.from = w => x.body.msg.id < n
                      => OlderLive(Append(s, x), w, n)
<1> DEFINE r == Append(s, x)
<1>1. Len(r) = Len(s) + 1 /\ r[Len(s) + 1] = x /\ \A i \in 1..Len(s) : r[i] = s[i]
  OBVIOUS
<1> HIDE DEF r
<1>2. ASSUME NEW i \in 1..Len(r) PROVE IF i = Len(r) THEN r[i] = x ELSE i \in 1..Len(s) /\ r[i] = s[i]
  BY <1>1
<1>3. ASSUME OrderedLive(s), x.body.cmd = "Msg" => OlderLive(s, x.body.msg.from, x.body.msg.id),
             NEW i \in 1..Len(r), NEW j \in 1..Len(r), i < j,
             r[i].body.cmd = "Msg", r[j].body.cmd = "Msg", r[i].body.msg.from = r[j].body.msg.from
      PROVE  r[i].body.msg.id < r[j].body.msg.id
  <2>1. i \in 1..Len(s) /\ r[i] = s[i]
    BY <1>1, <1>2, <1>3
  <2>2. CASE j = Len(r)
    BY <1>2, <1>3, <2>1, <2>2 DEF OlderLive
  <2>3. CASE j # Len(r)
    <3>1. j \in 1..Len(s) /\ r[j] = s[j]
      BY <1>2, <2>3
    <3> QED BY <1>3, <2>1, <3>1 DEF OrderedLive
  <2> QED BY <2>2, <2>3
<1>4. ASSUME NEW w, NEW n, OlderLive(s, w, n),
             x.body.cmd = "Msg" /\ x.body.msg.from = w => x.body.msg.id < n,
             NEW i \in 1..Len(r), r[i].body.cmd = "Msg", r[i].body.msg.from = w
      PROVE  r[i].body.msg.id < n
  BY <1>2, <1>4 DEF OlderLive
<1>5. OrderedLive(s) /\ (x.body.cmd = "Msg" => OlderLive(s, x.body.msg.from, x.body.msg.id))
        => OrderedLive(r)
  BY <1>3 DEF OrderedLive
<1>6. \A w, n : /\ OlderLive(s, w, n)
                /\ x.body.cmd = "Msg" /\ x.body.msg.from = w => x.body.msg.id < n
                => OlderLive(r, w, n)
  BY <1>4 DEF OlderLive
<1> QED BY <1>5, <1>6 DEF r

LEMMA LiveTail ==
  ASSUME NEW s \in Seq(Slots), s # << >>
  PROVE  /\ OrderedLive(s) => OrderedLive(Tail(s))
         /\ \A w, n : OlderLive(s, w, n) => OlderLive(Tail(s), w, n)
<1> DEFINE r == Tail(s)
<1>1. \A i \in 1..Len(r) : i + 1 \in 1..Len(s) /\ r[i] = s[i + 1]
  OBVIOUS
<1> HIDE DEF r
<1>2. ASSUME OrderedLive(s), NEW i \in 1..Len(r), NEW j \in 1..Len(r), i < j,
             r[i].body.cmd = "Msg", r[j].body.cmd = "Msg", r[i].body.msg.from = r[j].body.msg.from
      PROVE  r[i].body.msg.id < r[j].body.msg.id
  <2>1. i + 1 < j + 1
    BY <1>2
  <2> QED BY <1>1, <1>2, <2>1 DEF OrderedLive
<1>3. ASSUME NEW w, NEW n, OlderLive(s, w, n),
             NEW i \in 1..Len(r), r[i].body.cmd = "Msg", r[i].body.msg.from = w
      PROVE  r[i].body.msg.id < n
  BY <1>1, <1>3 DEF OlderLive
<1>4. OrderedLive(s) => OrderedLive(r)
  BY <1>2 DEF OrderedLive
<1>5. \A w, n : OlderLive(s, w, n) => OlderLive(r, w, n)
  BY <1>3 DEF OlderLive
<1> QED BY <1>4, <1>5 DEF r

\* The sender of a message has one session, so one message of his is in hands.
LEMMA OneHand ==
  ASSUME RInv, OrderInv, NEW c \in Conns, NEW d \in Conns,
         InHand(c), InHand(d), user[c] = user[d]
  PROVE  c = d
<1>1. task[c] = "live" /\ task[d] = "live"
  BY DEF OrderInv, BusyLives, InHand, Idle
<1>2. user[c] # NoUser /\ user[d] # NoUser
  BY DEF OrderInv, Handled
<1> QED BY <1>1, <1>2 DEF RInv, RouterMatchesSessions

(***************************************************************************)
(* A step that changes the job of a living task, and takes no message      *)
(* anywhere: it has in hands afterwards what it had before, or nothing.    *)
(***************************************************************************)
LEMMA JobKeepsOrder ==
  ASSUME Contents, OrderInv, NEW c \in Conns, NEW j, job' = [job EXCEPT ![c] = j],
         task[c] = "live", UNCHANGED <<task, offline, down>>,
         \A d \in Conns : user'[d] = user[d] \/ d = c,
         j.kind \in {"route", "send", "store"} =>
           InHand(c) /\ j.msg = job[c].msg /\ user'[c] = user[c],
         j.kind = "reply" => j.frame.cmd # "Msg"
  PROVE  OrderInv'
<1> USE DEF OrderInv
<1>1. job'[c] = j /\ \A d \in Conns : d # c => job'[d] = job[d]
  BY DEF Contents
<1>2. ASSUME NEW d \in Conns, InHand(d)'
      PROVE  InHand(d) /\ job'[d].msg = job[d].msg /\ user'[d] = user[d]
  BY <1>1, <1>2 DEF InHand
<1>3. BusyLives'
  BY <1>1 DEF BusyLives
<1>4. Handled'
  BY <1>2 DEF Handled
<1>5. NewestInHand'
  BY <1>2 DEF NewestInHand
<1>6. RepliesOnly'
  BY <1>1 DEF RepliesOnly
<1>7. InOrder'
  BY DEF InOrder
<1> QED BY <1>3, <1>4, <1>5, <1>6, <1>7

(***************************************************************************)
(* A step that takes messages out of the queues and the channels: what     *)
(* stays keeps its order.                                                  *)
(***************************************************************************)
LEMMA LossKeepsOrder ==
  ASSUME NewestInHand, InOrder, UNCHANGED user,
         \A u \in Users :
           /\ Ordered(offline[u]) => Ordered(offline'[u])
           /\ \A w, n : Older(offline[u], w, n) => Older(offline'[u], w, n),
         \A d \in Conns :
           /\ OrderedLive(down[d]) => OrderedLive(down'[d])
           /\ \A w, n : OlderLive(down[d], w, n) => OlderLive(down'[d], w, n),
         \A d \in Conns : InHand(d)' => InHand(d) /\ job'[d].msg = job[d].msg
  PROVE  NewestInHand' /\ InOrder'
<1>1. InOrder'
  BY DEF InOrder
<1>2. ASSUME NEW c \in Conns, InHand(c)'
      PROVE  /\ \A u \in Users : Older(offline'[u], user'[c], job'[c].msg.id)
             /\ \A d \in Conns : OlderLive(down'[d], user'[c], job'[c].msg.id)
  BY <1>2 DEF NewestInHand
<1> QED BY <1>1, <1>2 DEF NewestInHand

LEMMA RestKeepsOrder ==
  ASSUME OrderInv, UNCHANGED <<job, user, offline, down>>,
         \A c \in Conns : task[c] = "live" => task'[c] = "live"
  PROVE  OrderInv'
BY DEF OrderInv, BusyLives, Handled, NewestInHand, RepliesOnly, InOrder, InHand

LEMMA ReadKeepsOrder ==
  ASSUME Contents, OrderInv, NEW c \in Conns, down[c] # << >>,
         down' = [down EXCEPT ![c] = Tail(@)], UNCHANGED <<job, task, user, offline>>
  PROVE  OrderInv'
<1>1. /\ down[c] \in Seq(Slots) /\ down'[c] = Tail(down[c])
      /\ \A d \in Conns : d # c => down'[d] = down[d]
  BY DEF Contents
<1>2. /\ OrderedLive(down[c]) => OrderedLive(Tail(down[c]))
      /\ \A w, n : OlderLive(down[c], w, n) => OlderLive(Tail(down[c]), w, n)
  BY <1>1, LiveTail
<1>3. \A d \in Conns :
        /\ OrderedLive(down[d]) => OrderedLive(down'[d])
        /\ \A w, n : OlderLive(down[d], w, n) => OlderLive(down'[d], w, n)
  BY <1>1, <1>2
<1>4. \A d \in Conns : InHand(d)' => InHand(d) /\ job'[d].msg = job[d].msg
  BY DEF InHand
<1>5. NewestInHand' /\ InOrder'
  BY <1>3, <1>4, LossKeepsOrder DEF OrderInv
<1>6. BusyLives' /\ Handled' /\ RepliesOnly'
  BY DEF OrderInv, BusyLives, Handled, RepliesOnly, InHand
<1> QED BY <1>5, <1>6 DEF OrderInv

(***************************************************************************)
(* Every step keeps the order of each sender.                              *)
(***************************************************************************)
LEMMA OrderInvStep ==
  ASSUME RInv, Contents, CustodyInv, OrderInv, [Next]_vars
  PROVE  OrderInv'
<1>a. last_id \in Nat /\ Shape
  BY DEF Contents, RInv
<1>b. \A u \in Users : offline[u] \in Seq(Msgs) /\ Len(offline[u]) <= MAX_OFFLINE
  BY DEF Contents
<1>c. \A d \in Conns : down[d] \in Seq(Slots)
  BY DEF Contents
<1>1. CASE UNCHANGED <<job, task, user, offline, down>>
  BY <1>1 DEF OrderInv, BusyLives, Handled, NewestInHand, RepliesOnly, InOrder, InHand
<1>2. CASE Accept
  <2>1. UNCHANGED <<job, user, offline, down>> /\ \A c \in Conns : task[c] = "live" => task'[c] = "live"
    BY <1>2, <1>a DEF Accept, AcceptConn, wires, Shape
  <2> QED BY <2>1 DEF OrderInv, BusyLives, Handled, NewestInHand, RepliesOnly, InOrder, InHand
<1>3. ASSUME NEW c \in Conns, HandshakeRefused(c) \/ HandshakeAccepted(c) PROVE OrderInv'
  <2>1. PICK j : /\ job' = [job EXCEPT ![c] = j]
                 /\ \E b \in BOOLEAN : j = HandshakeAck(b)
    BY <1>3 DEF HandshakeRefused, HandshakeAccepted
  <2>2. task[c] = "live" /\ UNCHANGED <<task, offline, down>>
    BY <1>3 DEF HandshakeRefused, HandshakeAccepted, Takes
  <2>3. \A d \in Conns : user'[d] = user[d] \/ d = c
    BY <1>3, <1>a DEF HandshakeRefused, HandshakeAccepted, Shape
  <2>4. j.kind = "reply" /\ j.frame.cmd # "Msg"
    BY <2>1 DEF HandshakeAck, Replying
  <2> QED BY <2>1, <2>2, <2>3, <2>4, JobKeepsOrder
<1>4. ASSUME NEW c \in Conns, MsgNumbered(c) PROVE OrderInv'
  <2>1. PICK m : m = [from |-> user[c], to |-> Head(up[c]).to, cmid |-> Head(up[c]).cmid,
                      id |-> last_id + 1]
    OBVIOUS
  <2>2. /\ job' = [job EXCEPT ![c] = [kind |-> "route", msg |-> m]]
        /\ task[c] = "live" /\ user[c] # NoUser
        /\ UNCHANGED <<task, user, offline, down>>
    BY <1>4, <2>1 DEF MsgNumbered, Takes
  <2>3. job'[c] = [kind |-> "route", msg |-> m] /\ \A d \in Conns : d # c => job'[d] = job[d]
    BY <2>2 DEF Contents
  <2>4. m.from = user[c] /\ m.id = last_id + 1
    BY <2>1
  <2>5. ASSUME NEW u \in Users, NEW i \in 1..Len(offline[u])
        PROVE  offline[u][i].id < m.id
    <3>1. offline[u][i].id \in IdsAt(<<"queue", u>>)
      BY IdsOf DEF QueueIds
    <3>2. offline[u][i].id \in 1..last_id
      BY <3>1 DEF Places, CustodyInv, Numbered
    <3> QED BY <1>a, <2>4, <3>2
  <2>6. ASSUME NEW d \in Conns, NEW i \in 1..Len(down[d]), down[d][i].body.cmd = "Msg"
        PROVE  down[d][i].body.msg.id < m.id
    <3>1. BodyIds(down[d][i].body) = {down[d][i].body.msg.id}
      BY <2>6 DEF BodyIds
    <3>a. down[d][i].body.msg.id \in SlotIds(down[d])
      BY <3>1 DEF SlotIds
    <3>2. down[d][i].body.msg.id \in IdsAt(<<"channel", d>>)
      BY <3>a, IdsOf
    <3>3. down[d][i].body.msg.id \in 1..last_id
      BY <3>2 DEF Places, CustodyInv, Numbered
    <3> QED BY <1>a, <2>4, <3>3
  <2>7. \A d \in Conns : d # c => (InHand(d)' <=> InHand(d)) /\ job'[d] = job[d]
    BY <2>3 DEF InHand
  <2>8. BusyLives' /\ RepliesOnly' /\ InOrder'
    BY <2>2, <2>3 DEF OrderInv, BusyLives, RepliesOnly, InOrder
  <2>9. Handled'
    BY <2>2, <2>3, <2>4, <2>7 DEF OrderInv, Handled
  <2>10. NewestInHand'
    BY <2>2, <2>3, <2>5, <2>6, <2>7 DEF OrderInv, NewestInHand, Older, OlderLive
  <2> QED BY <2>8, <2>9, <2>10 DEF OrderInv
<1>5. ASSUME NEW c \in Conns, DeliverLookup(c) PROVE OrderInv'
  <2>1. task[c] = "live" /\ InHand(c) /\ UNCHANGED <<task, user, offline, down>>
    BY <1>5 DEF DeliverLookup, InHand, wires
  <2>2. PICK j : /\ job' = [job EXCEPT ![c] = j] /\ j.kind \in {"send", "store"}
                 /\ j.msg = job[c].msg
    BY <1>5 DEF DeliverLookup
  <2> QED BY <2>1, <2>2, JobKeepsOrder
<1>6. ASSUME NEW c \in Conns, NEW m \in Msgs, job[c].msg = m, InHand(c),
             task[c] = "live", UNCHANGED <<task, user>>,
             job' = [job EXCEPT ![c] = MsgAck(m)],
             \/ /\ \E u \in Users : offline' = [offline EXCEPT ![u] = store_offline(@, m)]
                /\ down' = down
             \/ /\ \E t \in Conns, x \in Slots :
                     /\ x.body = [cmd |-> "Msg", msg |-> m]
                     /\ down' = [down EXCEPT ![t] = Append(@, x)]
                /\ offline' = offline
      PROVE  OrderInv'
  <2>1. job'[c] = MsgAck(m) /\ \A d \in Conns : d # c => job'[d] = job[d]
    BY <1>6 DEF Contents
  <2>2. ~InHand(c)' /\ job'[c].frame.cmd # "Msg" /\ job'[c].kind = "reply"
    BY <2>1 DEF InHand, MsgAck, Replying
  <2>3. \A d \in Conns : d # c => (InHand(d)' <=> InHand(d)) /\ job'[d] = job[d]
    BY <2>1 DEF InHand
  <2>4. BusyLives' /\ Handled' /\ RepliesOnly'
    BY <1>6, <2>1, <2>2, <2>3 DEF OrderInv, BusyLives, Handled, RepliesOnly
  <2>5. m.from = user[c]
    BY <1>6 DEF OrderInv, Handled
  <2>6. /\ \A u \in Users : Older(offline[u], m.from, m.id) /\ Ordered(offline[u])
        /\ \A d \in Conns : OlderLive(down[d], m.from, m.id) /\ OrderedLive(down[d])
    BY <1>6, <2>5 DEF OrderInv, NewestInHand, InOrder
  <2>7. ASSUME NEW d \in Conns, InHand(d)'
        PROVE  /\ InHand(d) /\ job'[d].msg = job[d].msg /\ user'[d] = user[d] /\ m.from # user[d]
               /\ \A u \in Users : Older(offline[u], user[d], job[d].msg.id)
               /\ \A e \in Conns : OlderLive(down[e], user[d], job[d].msg.id)
    <3>1. d # c /\ InHand(d) /\ job'[d] = job[d]
      BY <2>2, <2>3, <2>7
    <3>2. user[d] # user[c]
      BY <1>6, <3>1, OneHand
    <3> QED BY <1>6, <2>5, <3>1, <3>2 DEF OrderInv, NewestInHand
  <2>8. CASE /\ \E u \in Users : offline' = [offline EXCEPT ![u] = store_offline(@, m)]
             /\ down' = down
    <3>1. PICK u \in Users : offline' = [offline EXCEPT ![u] = store_offline(@, m)]
      BY <2>8
    <3>2. offline'[u] = store_offline(offline[u], m) /\ \A w \in Users : w # u => offline'[w] = offline[w]
      BY <3>1 DEF Contents
    <3>3. Ordered(store_offline(offline[u], m))
      BY <1>b, <2>6, StoreOrdered
    <3>4. InOrder'
      BY <2>6, <2>8, <3>2, <3>3 DEF InOrder
    <3>5. ASSUME NEW d \in Conns, InHand(d)', NEW w \in Users
          PROVE  Older(offline'[w], user[d], job[d].msg.id)
      <4>1. Older(offline[w], user[d], job[d].msg.id) /\ m.from # user[d]
        BY <2>7, <3>5
      <4>2. w = u => Older(store_offline(offline[u], m), user[d], job[d].msg.id)
        BY <1>b, <4>1, StoreOrdered
      <4> QED BY <3>2, <4>1, <4>2
    <3>6. NewestInHand'
      BY <2>7, <2>8, <3>5 DEF NewestInHand
    <3> QED BY <2>4, <3>4, <3>6 DEF OrderInv
  <2>9. CASE /\ \E t \in Conns, x \in Slots :
                  /\ x.body = [cmd |-> "Msg", msg |-> m]
                  /\ down' = [down EXCEPT ![t] = Append(@, x)]
             /\ offline' = offline
    <3>1. PICK t \in Conns, x \in Slots :
            /\ x.body = [cmd |-> "Msg", msg |-> m]
            /\ down' = [down EXCEPT ![t] = Append(@, x)]
      BY <2>9
    <3>2. down'[t] = Append(down[t], x) /\ \A d \in Conns : d # t => down'[d] = down[d]
      BY <3>1 DEF Contents
    <3>3. x.body.cmd = "Msg" /\ x.body.msg = m
      BY <3>1
    <3>4. OrderedLive(Append(down[t], x))
      BY <1>c, <2>6, <3>3, LiveAppended
    <3>5. InOrder'
      BY <2>6, <2>9, <3>2, <3>4 DEF InOrder
    <3>6. ASSUME NEW d \in Conns, InHand(d)', NEW e \in Conns
          PROVE  OlderLive(down'[e], user[d], job[d].msg.id)
      <4>1. OlderLive(down[e], user[d], job[d].msg.id) /\ m.from # user[d]
        BY <2>7, <3>6
      <4>2. e = t => OlderLive(Append(down[t], x), user[d], job[d].msg.id)
        BY <1>c, <3>3, <4>1, LiveAppended
      <4> QED BY <3>2, <4>1, <4>2
    <3>7. NewestInHand'
      BY <2>7, <2>9, <3>6 DEF NewestInHand
    <3> QED BY <2>4, <3>5, <3>7 DEF OrderInv
  <2> QED BY <1>6, <2>8, <2>9
<1>7. ASSUME NEW c \in Conns, DeliverSend(c) PROVE OrderInv'
  <2>1. PICK m \in Msgs, t \in Conns : m = job[c].msg /\ t = job[c].target
    BY <1>7, HandMsg, HandTarget DEF DeliverSend
  <2>2. task[c] = "live" /\ InHand(c) /\ UNCHANGED <<task, user, offline>>
    BY <1>7 DEF DeliverSend, InHand
  <2>3. PICK x \in Slots : x = [seq |-> job[c].seq, body |-> [cmd |-> "Msg", msg |-> m]]
    BY <1>7, <2>1, HandTarget, BodyTypes DEF DeliverSend
  <2>4. CASE /\ down' = [down EXCEPT ![t] = Append(@, x)]
             /\ job' = [job EXCEPT ![c] = MsgAck(m)]
    <3>1. x.body = [cmd |-> "Msg", msg |-> m]
      BY <2>3
    <3> QED BY <1>6, <2>1, <2>2, <2>4, <3>1
  <2>5. CASE job' = [job EXCEPT ![c] = [kind |-> "store", msg |-> m]] /\ down' = down
    <3>1. PICK j : j = [kind |-> "store", msg |-> m]
      OBVIOUS
    <3>2. job' = [job EXCEPT ![c] = j] /\ j.kind = "store" /\ j.msg = job[c].msg
      BY <2>1, <2>5, <3>1
    <3> QED BY <2>2, <2>5, <3>2, JobKeepsOrder
  <2> QED BY <1>7, <2>1, <2>3, <2>4, <2>5 DEF DeliverSend
<1>8. ASSUME NEW c \in Conns, DeliverStore(c) PROVE OrderInv'
  <2>1. PICK m \in Msgs, u \in Users : m = job[c].msg /\ u = m.to
    BY <1>8, HandMsg DEF DeliverStore, Msgs
  <2>2. /\ task[c] = "live" /\ InHand(c) /\ UNCHANGED <<task, user, down>>
        /\ offline' = [offline EXCEPT ![u] = store_offline(@, m)]
        /\ job' = [job EXCEPT ![c] = MsgAck(m)]
    BY <1>8, <2>1 DEF DeliverStore, InHand, wires
  <2> QED BY <1>6, <2>1, <2>2
<1>9. ASSUME NEW c \in Conns, SyncTaken(c) PROVE OrderInv'
  <2>u. PICK u \in Users : u = user[c]
    BY <1>9, <1>a DEF SyncTaken, Shape
  <2>s. PICK since, taken, rest :
          /\ since = Head(up[c]).since
          /\ taken = SyncScan(offline[u], since)[1]
          /\ rest = SyncScan(offline[u], since)[2]
    OBVIOUS
  <2>1. /\ u = user[c] /\ since = Head(up[c]).since
        /\ taken = SyncScan(offline[u], since)[1]
        /\ rest = SyncScan(offline[u], since)[2]
    BY <2>u, <2>s
  <2>2. /\ offline' = [offline EXCEPT ![u] = rest]
        /\ job' = [job EXCEPT ![c] = Replying([cmd |-> "SyncResp", messages |-> taken])]
        /\ task[c] = "live" /\ UNCHANGED <<task, user, down>>
    BY <1>9, <2>1 DEF SyncTaken, Takes
  <2>3. /\ job'[c] = Replying([cmd |-> "SyncResp", messages |-> taken])
        /\ \A d \in Conns : d # c => job'[d] = job[d]
    BY <2>2 DEF Contents
  <2>4. job'[c].kind = "reply" /\ job'[c].frame.cmd # "Msg"
    BY <2>3 DEF Replying
  <2>5. offline'[u] = rest /\ \A w \in Users : w # u => offline'[w] = offline[w]
    BY <2>2 DEF Contents
  <2>6. \A d \in Conns : InHand(d)' => InHand(d) /\ job'[d].msg = job[d].msg /\ d # c
    BY <2>3, <2>4 DEF InHand
  <2>7. BusyLives' /\ RepliesOnly'
    BY <2>2, <2>3, <2>4 DEF OrderInv, BusyLives, RepliesOnly
  <2>8. Handled'
    BY <2>2, <2>6 DEF OrderInv, Handled
  <2>9. /\ Ordered(offline[u]) => Ordered(rest)
        /\ \A w, n : Older(offline[u], w, n) => Older(rest, w, n)
    BY <1>b, <2>1, ScanOrdered
  <2>10. \A v \in Users :
           /\ Ordered(offline[v]) => Ordered(offline'[v])
           /\ \A w, n : Older(offline[v], w, n) => Older(offline'[v], w, n)
    BY <2>5, <2>9
  <2>11. NewestInHand' /\ InOrder'
    BY <2>2, <2>6, <2>10, LossKeepsOrder DEF OrderInv
  <2> QED BY <2>7, <2>8, <2>11 DEF OrderInv
<1>10. ASSUME NEW c \in Conns, Reply(c) PROVE OrderInv'
  <2>1. PICK f \in Bodies : f = job[c].frame
    BY <1>10, ReplyFrame DEF Reply
  <2>2. PICK x \in Slots : x = [seq |-> reply_seq[c] + 1, body |-> f]
    <3>1. reply_seq[c] + 1 \in Nat
      BY DEF Contents
    <3> QED BY <3>1, BodyTypes
  <2>3. /\ task[c] = "live" /\ UNCHANGED <<task, user, offline>>
        /\ job' = [job EXCEPT ![c] = Idle]
        /\ down' = [down EXCEPT ![c] = Append(@, x)] \/ down' = down
    BY <1>10, <2>1, <2>2 DEF Reply
  <2>4. x.body.cmd # "Msg"
    BY <1>10, <2>1, <2>2 DEF Reply, OrderInv, RepliesOnly
  <2>5. job'[c] = Idle /\ \A d \in Conns : d # c => job'[d] = job[d]
    BY <2>3 DEF Contents
  <2>6. \A d \in Conns : InHand(d)' => InHand(d) /\ job'[d].msg = job[d].msg
    BY <2>5 DEF InHand, Idle
  <2>7. BusyLives' /\ Handled' /\ RepliesOnly'
    BY <2>3, <2>5, <2>6 DEF OrderInv, BusyLives, Handled, RepliesOnly, Idle
  <2>8. /\ OrderedLive(down[c]) => OrderedLive(Append(down[c], x))
        /\ \A w, n : OlderLive(down[c], w, n) => OlderLive(Append(down[c], x), w, n)
    BY <1>c, <2>4, LiveAppended
  <2>9. \A d \in Conns : down'[d] = down[d] \/ (d = c /\ down'[d] = Append(down[c], x))
    BY <2>3 DEF Contents
  <2>10. \A d \in Conns :
           /\ OrderedLive(down[d]) => OrderedLive(down'[d])
           /\ \A w, n : OlderLive(down[d], w, n) => OlderLive(down'[d], w, n)
    BY <2>8, <2>9
  <2>11. NewestInHand' /\ InOrder'
    BY <2>3, <2>6, <2>10, LossKeepsOrder DEF OrderInv
  <2> QED BY <2>7, <2>11 DEF OrderInv
<1>11. ASSUME NEW c \in Conns, ClientRead(c) PROVE OrderInv'
  <2>1. /\ down[c] # << >> /\ down' = [down EXCEPT ![c] = Tail(@)]
        /\ UNCHANGED <<job, task, user, offline>>
    BY <1>11 DEF ClientRead
  <2> QED BY <2>1, ReadKeepsOrder
<1>12. ASSUME NEW c \in Conns, SessionEnd(c) PROVE OrderInv'
  <2>1. /\ job[c] = Idle /\ UNCHANGED <<job, user, offline, down>>
        /\ \A d \in Conns : d # c => task'[d] = task[d]
    BY <1>12, <1>a DEF SessionEnd, wires, Shape
  <2> QED BY <2>1 DEF OrderInv, BusyLives, Handled, NewestInHand, RepliesOnly, InOrder, InHand
<1>13. ASSUME NEW c \in Conns, MsgDropped(c) \/ SyncIgnored(c) \/ ReaderExit(c) \/ WriterExit(c)
       PROVE OrderInv'
  <2>1. UNCHANGED <<job, task, user, offline, down>>
    BY <1>13 DEF MsgDropped, SyncIgnored, ReaderExit, WriterExit
  <2> QED BY <1>1, <2>1
<1>14. ASSUME NEW c \in Conns, NEW f \in ClientFrames, ClientSend(c, f) PROVE OrderInv'
  <2>1. UNCHANGED <<job, task, user, offline, down>>
    BY <1>14 DEF ClientSend
  <2> QED BY <1>1, <2>1
<1>15. CASE UNCHANGED vars
  <2>1. UNCHANGED <<job, task, user, offline, down>>
    BY <1>15 DEF vars
  <2> QED BY <1>1, <2>1
<1> QED
  BY <1>2, <1>3, <1>4, <1>5, <1>7, <1>8, <1>9, <1>10, <1>11, <1>12, <1>13, <1>14, <1>15
     DEF Next, ServerNext, SessionStep

(***************************************************************************)
(* The messages of one sender keep their order in every offline queue and  *)
(* among the live messages of every connection, whoever else sends, logs   *)
(* in or loses a connection in between.                                    *)
(***************************************************************************)
THEOREM OrderKept == Spec => []SenderOrder
<1>1. Init => OrderInv
  BY DEF Init, OrderInv, BusyLives, Handled, NewestInHand, RepliesOnly, InOrder, InHand, Idle,
         Ordered, OrderedLive
<1>2. RInv /\ Contents /\ CustodyInv /\ OrderInv /\ [Next]_vars => OrderInv'
  BY OrderInvStep
<1>3. OrderInv => SenderOrder
  BY DEF OrderInv, InOrder, OrderedLive, SenderOrder
<1> QED BY <1>1, <1>2, <1>3, CustodyInvariant, PTL DEF Spec

=============================================================================
