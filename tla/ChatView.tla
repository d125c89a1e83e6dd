------------------------------ MODULE ChatView ------------------------------
(***************************************************************************)
(* The terminal client: the reducer ChatState (crates/im-client/src/       *)
(* chat.rs) under the loop of the user interface (tui.rs), which takes     *)
(* keys and the events of the connection task and draws after each. The    *)
(* connection task (client.rs) is what it does to the two channels: it     *)
(* takes commands and raises events, in the order message_loop raises      *)
(* them, waiting while the event channel is full. A line of input is what  *)
(* parse_input makes of it; the text and its scrolling are left out.       *)
(***************************************************************************)
EXTENDS Naturals, Sequences, FiniteSets

CONSTANTS
  Peers,          \* user ids the user talks to
  Nobody,         \* Viewport.selected before the first choice
  ChatEventRoom,  \* room of the event channel, 64
  ChatCmdRoom,    \* room of the command channel, 64
  MaxOwn,         \* bound: messages the user sends
  MaxTheirs,      \* bound: messages of one peer
  MaxChatEvents   \* bound: events raised

ASSUME ChatAssumption ==
  /\ Peers \subseteq Nat /\ Nobody \notin Peers
  /\ ChatEventRoom \in Nat \ {0} /\ ChatCmdRoom \in Nat \ {0}
  /\ MaxOwn \in Nat /\ MaxTheirs \in Nat /\ MaxChatEvents \in Nat

VARIABLES
  conversations, \* ChatState.conversations: peer -> [messages, unread]
  online,        \* ChatState.connected
  selected,      \* Viewport.selected
  ui,            \* "loop"; "sending", waiting in send_msg; "gone"
  chatCmds, chatEvents, \* the channels
  raising,       \* the event the connection task waits to send; <<>> if none
  queuedTo,      \* connection task: receivers of the own messages, by client_msg_id
  settled,       \* connection task: own messages confirmed or given up
  raised,        \* events raised so far
  shown          \* history: shown[p]: messages of p that have been drawn

chatVars == <<conversations, online, selected, ui, chatCmds, chatEvents, raising,
              queuedTo, settled, raised, shown>>

ChatInit ==
  /\ conversations = <<>> /\ online = FALSE /\ selected = Nobody
  /\ ui = "loop"
  /\ chatCmds = <<>> /\ chatEvents = <<>> /\ raising = <<>>
  /\ queuedTo = <<>> /\ settled = {} /\ raised = 0
  /\ shown = [p \in Peers |-> {}]

(***************************************************************************)
(* The reducer.                                                            *)
(***************************************************************************)
known(c) == DOMAIN c
Empty == [messages |-> <<>>, unread |-> 0]

\* entry: the conversation with p, a new one if there is none.
entry(c, p) == IF p \in known(c) THEN c[p] ELSE Empty

With(c, p, conversation) ==
  [q \in known(c) \cup {p} |-> IF q = p THEN conversation ELSE c[q]]

Theirs(conversation) ==
  {conversation.messages[i].id : i \in {j \in 1..Len(conversation.messages) :
                                          ~conversation.messages[j].from_me}}

\* A message is shown as often as it comes.
accept_incoming_Again(c, p, id) ==
  LET old == entry(c, p)
  IN With(c, p, [messages |-> Append(old.messages, [from_me |-> FALSE, id |-> id,
                                                    status |-> "delivered"]),
                 unread |-> old.unread + 1])

\* accept_incoming: once per sender and client_msg_id.
accept_incoming(c, p, id) ==
  LET old == entry(c, p)
  IN IF id \in Theirs(old) THEN With(c, p, old)
     ELSE With(c, p, [messages |-> Append(old.messages, [from_me |-> FALSE, id |-> id,
                                                         status |-> "delivered"]),
                      unread |-> old.unread + 1])

\* The own message with this id, wherever it is, gets the status.
Marked(c, id, status) ==
  [p \in known(c) |->
     [c[p] EXCEPT !.messages =
        [i \in DOMAIN c[p].messages |->
           LET m == c[p].messages[i]
           IN IF m.from_me /\ m.id = id THEN [m EXCEPT !.status = status] ELSE m]]]

on_event(c, e) ==
  CASE e.kind = "queued" ->
         LET old == entry(c, e.to)
         IN With(c, e.to, [old EXCEPT !.messages =
                             Append(@, [from_me |-> TRUE, id |-> e.id, status |-> "sending"])])
    [] e.kind = "message" -> accept_incoming(c, e.from, e.id)
    [] e.kind = "batch" -> accept_incoming(accept_incoming(c, e.from, e.id), e.from2, e.id2)
    [] e.kind = "ack" -> Marked(c, e.id, "delivered")
    [] e.kind = "failed" -> Marked(c, e.id, "failed")
    [] OTHER -> c

mark_read(c, p) == IF p \in known(c) THEN [c EXCEPT ![p].unread = 0] ELSE c

(***************************************************************************)
(* The loop of the user interface.                                         *)
(***************************************************************************)
\* draw at the head of the loop: the selected conversation is on the screen.
Drawn(c, p) ==
  IF p \in known(c) THEN [shown EXCEPT ![p] = Theirs(c[p])] ELSE shown

HighestOf(S) == CHOOSE p \in S : \A q \in S : q <= p
LowestOf(S) == CHOOSE p \in S : \A q \in S : p <= q

\* next_peer: the next known peer in order of ids, the first after the last.
next_peer(c, p) ==
  LET later == {q \in known(c) : p \in known(c) /\ q > p}
  IN IF later = {} THEN LowestOf(known(c)) ELSE LowestOf(later)

\* Viewport::select
select(p) ==
  /\ selected' = p
  /\ conversations' = mark_read(conversations, p)
  /\ shown' = Drawn(conversations, p)

PressTab ==
  /\ ui = "loop" /\ known(conversations) # {}
  /\ select(next_peer(conversations, selected))
  /\ UNCHANGED <<online, ui, chatCmds, chatEvents, raising, queuedTo, settled, raised>>

\* Enter on "/to p", whether there is such a conversation or not.
EnterSwitchTo(p) ==
  /\ ui = "loop"
  /\ select(p)
  /\ UNCHANGED <<online, ui, chatCmds, chatEvents, raising, queuedTo, settled, raised>>

\* Enter on a text. Without a conversation it is a hint and nothing else.
EnterText ==
  /\ ui = "loop" /\ selected # Nobody
  /\ Len(queuedTo) + Len(chatCmds) < MaxOwn
  /\ ui' = "sending"
  /\ UNCHANGED <<conversations, online, selected, chatCmds, chatEvents, raising,
                 queuedTo, settled, raised, shown>>

\* send_msg gets room; the loop draws again.
TextSent ==
  /\ ui = "sending" /\ Len(chatCmds) < ChatCmdRoom
  /\ chatCmds' = Append(chatCmds, selected)
  /\ ui' = "loop"
  /\ shown' = Drawn(conversations, selected)
  /\ UNCHANGED <<conversations, online, selected, chatEvents, raising, queuedTo,
                 settled, raised>>

\* Esc, Ctrl-C, /quit, or the end of the events of a task that stopped.
Quit ==
  /\ ui = "loop"
  /\ ui' = "gone"
  /\ UNCHANGED <<conversations, online, selected, chatCmds, chatEvents, raising,
                 queuedTo, settled, raised, shown>>

\* The selected conversation keeps its count.
Seen_Kept(c, p) == c

\* The conversation the user is looking at has nothing unread.
Seen(c, p) == mark_read(c, p)

\* An event: reduced, then the first conversation to appear is selected, then
\* what is on the screen counts as read.
UiEvent ==
  /\ ui = "loop" /\ chatEvents # <<>>
  /\ LET e == Head(chatEvents)
         c == on_event(conversations, e)
         p == IF selected = Nobody /\ known(c) # {} THEN HighestOf(known(c)) ELSE selected
         chosen == IF p = selected THEN c ELSE mark_read(c, p)
     IN /\ selected' = p
        /\ conversations' = Seen(chosen, p)
        /\ online' = CASE e.kind = "connected" -> TRUE
                       [] e.kind \in {"disconnected", "rejected"} -> FALSE
                       [] OTHER -> online
        /\ shown' = Drawn(c, p)
  /\ chatEvents' = Tail(chatEvents)
  /\ UNCHANGED <<ui, chatCmds, raising, queuedTo, settled, raised>>

(***************************************************************************)
(* The connection task.                                                    *)
(***************************************************************************)
Raise(e) ==
  /\ ui # "gone" /\ raising = <<>> /\ raised < MaxChatEvents
  /\ raised' = raised + 1
  /\ raising' = <<e>>

RaiseSent ==
  /\ raising # <<>> /\ Len(chatEvents) < ChatEventRoom
  /\ chatEvents' = Append(chatEvents, raising[1])
  /\ raising' = <<>>
  /\ UNCHANGED <<conversations, online, selected, ui, chatCmds, queuedTo, settled,
                 raised, shown>>

\* A command: the message gets its id and the event comes before its frame.
TaskSends ==
  /\ chatCmds # <<>>
  /\ chatCmds' = Tail(chatCmds)
  /\ queuedTo' = Append(queuedTo, Head(chatCmds))
  /\ Raise([kind |-> "queued", to |-> Head(chatCmds), id |-> Len(queuedTo) + 1])
  /\ UNCHANGED <<conversations, online, selected, ui, chatEvents, settled, shown>>

\* A confirmation (one may come again, or after the message was given up), or
\* the last attempt of an unconfirmed message.
TaskSettles ==
  /\ \E n \in 1..Len(queuedTo) :
       /\ settled' = settled \cup {n}
       /\ \/ Raise([kind |-> "ack", id |-> n])
          \/ n \notin settled /\ Raise([kind |-> "failed", id |-> n])
  /\ UNCHANGED <<conversations, online, selected, ui, chatCmds, chatEvents, queuedTo, shown>>

\* A message of a peer, or two in the batch of a pull; a message may come
\* again when the window of the receiver has forgotten it.
TaskReceives ==
  /\ \E p, q \in Peers, i, j \in 1..MaxTheirs :
       \/ Raise([kind |-> "message", from |-> p, id |-> i])
       \/ Raise([kind |-> "batch", from |-> p, id |-> i, from2 |-> q, id2 |-> j])
  /\ UNCHANGED <<conversations, online, selected, ui, chatCmds, chatEvents, queuedTo,
                 settled, shown>>

\* The connection comes, goes or is refused.
TaskConnects ==
  /\ \E k \in {"connected", "disconnected", "rejected"} : Raise([kind |-> k])
  /\ UNCHANGED <<conversations, online, selected, ui, chatCmds, chatEvents, queuedTo,
                 settled, shown>>

ChatNext ==
  \/ PressTab \/ EnterText \/ TextSent \/ Quit \/ UiEvent
  \/ \E p \in Peers : EnterSwitchTo(p)
  \/ RaiseSent \/ TaskSends \/ TaskSettles \/ TaskReceives \/ TaskConnects

ChatSpec == ChatInit /\ [][ChatNext]_chatVars
-----------------------------------------------------------------------------
(***************************************************************************)
(* The count of a conversation is exactly the messages of that peer that   *)
(* have never been on the screen, each counted once however often it is    *)
(* delivered and whichever way the user came to the conversation (Tab, /to *)
(* before or after its first message, the first conversation to appear),   *)
(* and the own messages in it never count.                                 *)
(***************************************************************************)
UnreadExact ==
  \A p \in known(conversations) :
    LET c == conversations[p]
    IN /\ c.unread = Cardinality(Theirs(c) \ shown[p])
       /\ Cardinality(Theirs(c)) =
            Cardinality({i \in 1..Len(c.messages) : ~c.messages[i].from_me})
=============================================================================
