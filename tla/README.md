# TLA+ verification of rust-im

rust-im is an instant-messaging system: a Rust server with TCP, QUIC and WebSocket
front ends, a terminal client with a local message store, an SDK, end-to-end
encryption, a mountable view of conversations and a web front end. This directory
holds TLA+ models of it, the TLC configurations that check them and TLAPS proofs of
the results that matter most. `PROJECT.json` maps every definition to the source
lines it stands for.

## 1. The system

| Part | State | Operations | Correct when |
|---|---|---|---|
| Id generator (`im-server/snowflake.rs`, `Sessions::next_id`) | last millisecond, sequence | `next_id`, `assemble`, bounded retry | ids increase per instance, differ between instances, a call always returns |
| Sequence window (`im-transport/dedup.rs`, `feed_seq`) | `rcv_nxt`, bitmap | `feed`, `resync`, `ack` | a frame is handled at most once, never swallowed, the acknowledgement is exact |
| Session core (`im-server/session.rs`, `router.rs`, `sink.rs`) | routing table, offline queues, one task and one channel per connection | handshake, message, sync, cleanup | a user has one live session and the table names it; an acknowledged message is in custody; no message is in two places |
| Gateway (`im-transport/gateway.rs`, `connection.rs`, `shutdown.rs`) | reader, writer, heartbeat, outbound and inbound channels | read loop, write actor, drain, shutdown | every task ends, what was accepted before the end is written |
| Wire protocol (`im-protocol`) | a partly decoded frame | varint, checksum, frame, payload, `decode` | the frames that come out are those that went in, however the stream is cut |
| WebSocket endpoint (`web/ws.rs`) | one task and one channel per browser | upgrade, select, dispatch, gates | a route names a serving connection; a dispatch comes back |
| Client (`im-client/client.rs`, `dedup.rs`) | connection phase, cursor, deduplication window | connect, handshake, sync, resend, ingest, ack, reconnect | a message is shown once and eventually confirmed or given up |
| Outbox (`im-client/outbox.rs`, `im-storage/store.rs`) | retry table on disk and in memory, id counter, history | enqueue, ack, resends, due, load | ids never reused, kept until settled, not resent after |
| Storage engine (`im-storage/engine.rs`) | segment files, memtable, index | put, delete, get, seal, compact, recover | a map that survives crashes |
| Chat view (`im-client/chat.rs`, `tui.rs`) | conversations, selection, two channels | keys, events, drawing | the unread count is what was not on the screen |
| Group fan-out (`web/fanout.rs`) | actor table, member snapshots, inboxes | route, spawn, invalidate, fan out | new members are served, one order for all, nothing taken over is lost |
| Friends, accounts, groups, files (`web/*.rs` over SQL) | tables and content files | REST handlers, several statements each | tables agree with each other at every commit |
| Encryption (`im-crypto/e2ee`) | ratchet states, kept keys, prekeys | X3DH, encrypt, decrypt | what arrives opens once, in any order |
| Mount (`im-mount`) | inode tree, LRU list, listing cache | mkdir, write, remove, read_dir, view | no stale listing, list and tree in one piece |
| SDK (`im-sdk`) | caller, pump thread, client task, bridge | create, send, poll, destroy | calls return, the bridge outlives the pump |
| Backoff, weak link, histogram | attempt; tasks and heap; buckets | delay; forward; record | see section 3 |

How they interact. A connection has a gateway (reader, writer, on clients a
heartbeat) and a session task; a browser has one task that is both. The session task
takes frames one at a time, passes their number through the sequence window and runs
a handler. A handler of a message takes an id from the generator, then routes: to the
group hub if the recipient is a group, to the channel of the recipient's connection
if it is in the routing table, else to the offline queue; then it replies with an
acknowledgement. REST handlers write tables and push events into the same channels.
Handlers await between these steps (for room in a channel, for an id, for the
database), so the handlers of different connections interleave at each of them, and a
connection may die at any. The client keeps every message in its outbox until it is
acknowledged, sends the outbox again on every new connection, and pulls its offline
queue once per connection from a cursor it keeps on disk. Outbox, history and cursor
live in the storage engine, every operation of which is one append to the log. The
terminal and the SDK talk to the client's task through two bounded channels.

What is hard: cleanup of a dead connection racing the login that replaces it; a
lookup that is stale when the send happens; at-least-once delivery by three routes
(live, batch, resend) with exactly-once display; tasks that wait for each other
through bounded channels; crashes between two writes of one operation; replay order
after compaction; snapshots invalidated by a signal that can be lost; transactions
that race on two tables; messages that arrive after their chain has ended; clocks
that go backwards. `PROJECT.json` lists each hazard at its line.

## 2. Modules

| Module | Models | Composes |
|---|---|---|
| `Snowflake` | id generator and its retry loop | |
| `SeqWindow` | the window as the session drives it | |
| `Sessions` | session core, routing, offline queues, channels | |
| `Delivery` | two or more clients of im-client around `Sessions` | EXTENDS `Sessions` |
| `Gateway` | the tasks of one connection | |
| `WsLoop` | the tasks of the browsers and what is pushed to them | |
| `Codec` | wire protocol and incremental decoder | |
| `Outbox` | one client's retry table, write by write | |
| `KVStore`, `Engine` | a map; the storage engine that implements it | `Engine` instantiates `KVStore` |
| `ChatView` | reducer and loop of the terminal client | |
| `GroupFanout` | hub, actors, invalidation, wiring | |
| `Friends`, `Accounts`, `Groups`, `Files` | the stores behind REST, with their handlers | |
| `E2ee` | X3DH and the double ratchet | |
| `Lru`, `Mount` | the LRU list in its slots; tree, view and listing cache | `Mount` EXTENDS `Lru` |
| `Sdk` | caller, pump and client task | |
| `Shift`, `Backoff`, `WeakLink`, `Histogram` | shifts of numbers; delays; the simulated link; latency buckets | `Backoff`, `Histogram` EXTEND `Shift` |
| `MCParts`, `MCClient`, `MCTasks` | several of these side by side in one run | EXTENDS each |
| other `MC*` | definitions for TLC and, where there is one, the claim of a comment that a violating run refutes | extend the module |
| `*Proofs` | theorems and proofs of `Sessions`, `Delivery`, `GroupFanout`, `E2ee`; of `SeqWindow`, `ChatView`, `WeakLink`, `Backoff`, `Histogram` (`PartsProofs`), `Outbox`, `Engine`, `Mount` with `Lru` (`LocalStoreProofs`), `Gateway`, `WsLoop`, `Sdk`, `Snowflake` (`TasksProofs`), `Friends`, `Accounts`, `Groups`, `Files` (`StoresProofs`) | extend the modules |

`MCParts`, `MCClient` and `MCTasks` check modules that share no state in one run: the
variable `part` is chosen at the start, only that part moves, and the others keep
their initial values. It is a sum of state spaces, not a product.

Definitions named `X_Something` just before `X` are wrong variants of `X`, each a
plausible slip in that piece of code (a dropped guard, a missing write). No
specification uses them; they document that a property can fail: with the variant in
place of `X` TLC finds it violated.

### Correspondence with the code

*Snowflake.* An instance holds `last_ms` and `sequence`; `IssueId` is `next_id` with
its three branches. A caller is a task in `Sessions::next_id`; the mutex makes each
attempt one step. `SetClock` moves the clock of an instance anywhere (`SystemClock`
is wall time). Bit fields are products of spans (`MachineSpan`, `SequenceSpan`)
instead of shifts; the code's are 2^10 and 2^12.

*SeqWindow.* `bitmap` is a set of bit positions. Frames are numbered by the naturals,
`Wire` is the number modulo the ring. `Arrive` is an iteration of `serve_connection`:
`feed_seq`, the resync when a frame is beyond the window, and the decision to handle
or drop. Any frame may arrive at any time, any number of times.

*Sessions.* A handler is the sequence of its steps between awaits, kept in `job[c]`:
`MsgNumbered` (check of the login, id), `DeliverLookup` (routing table),
`DeliverSend` (waits for room; a closed channel degrades to the queue),
`DeliverStore`, `Reply`. `SyncTaken` removes a batch under the lock; the reply is a
separate step. `ReaderExit` and `WriterExit` are the two halves of the gateway, which
end independently, at any time; frames in the channel of a writer that has ended are
lost. `SessionEnd` is the cleanup, with the `conn_id` check of `remove_if`. Ids are a
counter (what `Snowflake` guarantees); `IdMayFail` lets `next_id` return `None`.
`ClientFrames` is what clients may send, with no assumption on their order.

*Delivery.* Replaces the open clients by `connect_once` and `message_loop`. `Break`
cuts a connection; both sides notice later and separately. `Restart` is a process
that ends and loads its outbox and cursor again. The client's gateway and its socket
are one unbounded queue (`up`), so back-pressure towards the client is not covered
here; it is in `Gateway`.

*Gateway.* One connection between a peer and a business task that answers what it
takes. Bytes are pieces: half a frame, the bytes that complete one, bytes that are no
protocol; one read takes any number of them, and `Decoded` says which frames come
out. `rd`, `wr`, `hb` and `life` are the program counters of `read_loop`, the writer,
the heartbeat and `gateway_lifecycle`; each await is a state of its own. A peer may
cease to take bytes (`PeerStalls`): a write then waits (`WriteHangs`) until the peer
leaves. `written` and `accepted` number the frames of the outbound channel.

*Codec.* `encode`, `encode_payload`, `decode_payload`, varints and checksum are
operators; `decode(n)` feeds the next `n` bytes to the decoder, whose stages are those
of `Partial`. A byte has `GroupBits` + 1 bits, a number `ValueBits`, a checksum two
bytes. A stream is whole or has one damaged payload byte.

*WsLoop.* A task is in its select (`"select"`), in a write to its browser (`"write"`)
or held by one job (`"busy"`): an awaited send to another connection or the reply into
its own channel. `LoopEnds` takes the route away and leaves the task `"closing"`, in
the send of the Close, its channel still open; `CloseSent` drops the channel. A browser
may cease to take bytes (`BrowserStalls`), and what writes to it then waits (`Hangs`).
A channel is the number of envelopes in it. The gates (`is_friend`, `is_member`), the
window and the id generator may answer either way.

*Outbox.* Every engine operation is one step, so a `Crash` falls between any two:
between counter and entry of `enqueue_outgoing`, between delete and put of
`ack_outgoing`. `status` is the mark the chat shows. `due` handles one message at a
time, where the code writes all new attempt counts before it sends the batch.
`server_has`, `gave_up`, `minted` and `sends` are history.

*Engine.* A segment file is a sequence of frames, each whole or torn; an offset is the
number of a frame. `build_index` and `replay` read the good frames, those before the
first torn one, and the last of a key stays; files are replayed in the order of their
ids (`AllFiles`). `Put`, `Delete` include the seal at the threshold. `compact` writes
the merged segment (`Merged`: the live keys in order) and switches; old files go one by
one (`RemoveOld`). A crash may fall before, between and inside these. `ImplementsKV`
maps what `get` and `scan_prefix` answer for every key, in memory while the process
runs and from disk while it does not, to the abstract map.

*ChatView.* `UiEvent` and the keys are the branches of `ui_loop`, each followed by the
drawing, which marks what is on the screen. The connection task is what it does to the
two channels. `shown` is history.

*GroupFanout.* One group. `RouteLookup`, `RouteLoad`, `RouteSpawn`, `RouteEnqueue`
are the steps of `route` between awaits; `AddMember` and `InvalidateHub` those of
`add_group_member`; the actor takes jobs one at a time and copies to one member per
step (another actor may run on another thread). `table` has one or two tables of
actors: `AppState::new` clones the hub, so the REST handlers invalidate in a table of
their own (`RestHub`); `Wirings` says which wirings a run starts from. `raced`, `stale`
and `unheard` are history: that first messages raced, and which members a snapshot
misses, or whose signal went to a table without the actor.

*Friends, Accounts, Groups, Files.* A handler is its statements, one step each, in
`fcalls`, `acalls`, `gcalls`, `ucalls`. The database is external: READ COMMITTED
transactions that hold row locks (`rows`, `edge`) until they end, statements that wait
for a lock, a connection that is lost at any statement, a commit whose reply is lost.
A name is its number of characters and its spelling, a file its size. A download is two
steps, `ReadMeta` (the row, 404, or 500 when the statement fails) and `ReadDisk` (the
file, or 500); `served` is what the 200 answers delivered.

*E2ee.* Keys are symbolic: a shared secret is the set of two public names, a root the
sequence of secrets hashed into it, a chain a root and a number of steps. `initiate`
and `respond` are the agreement, over a genuine and a tampered bundle; `encrypt` and
`decrypt` are whole calls, with `skip_to`, `TakeKept` and the two halves of the turn.
The kept keys are a map from peer key and number: `insert` replaces.
The network may deliver any message that was sent, in any order and again.

*Lru, Mount.* The list is the slots with their `prev` and `next`, `free` and the map,
as in the code; `Links` walks it. `used` is a ghost: the cached spellings, latest use
first. A path is its text cut at the slashes, so "/a" is an empty part and "a"; the tree
goes by its `components`, the parts that are not empty, the cache by the text. `resolve`
walks the components, and `build_im_view` files one card or log after the other
(`Filed`). `CachedMkdir`, `CachedWrite`, `CachedRemove` are the call to the tree and the
invalidation after a success, of the one text `ParentSpelling` gives. `missed` is a
ghost: the cached texts of a directory that was written through a path which does not
continue them.

*Sdk.* `caller`, `pump` and `task` are the three program counters; `cmds` and `events`
the two channels; `receiver` and `bridge` who owns what. A face is C, Java or Rust,
with or without callback.

*Backoff, WeakLink, Histogram.* The random source is a choice over what it can give.
`PumpRead`, `PumpSend`, `PumpTake`, `PumpWrite` are the steps of the two tasks of a
direction, on a clock that ticks when nothing is urgent. `locate`, `bucket_value` and
`percentile_ns` have the number of bits as parameters.

## 3. Runs

| Run | Instance | Shows |
|---|---|---|
| `MCSessions` | 2 users, 2 connections, 4 frames, queue of 2, channel of 2, ids may fail | routing matches live sessions, acknowledgement after custody, order per sender, one place per message |
| `MCDelivery` | 3 connections, 1 message, 1 fault | shown once, nothing lost while the recipient stays connected |
| `DeliveryLive` | 2 connections, 1 message sent up to twice, 1 fault, fairness | outboxes drain, dead sessions end |
| `MCGroupFanout` | 2 senders, 1 joining user, 3 messages, inbox of 1, failing database, both wirings, fairness | members are served unless a snapshot misses them or their signal goes to the other table, one order unless first messages race, messages are copied |
| `MCParts` | see below | tables agree, one account per name, owners stay owners, rows have files, unread counts exact, the window, the decoder, the delays, the link, the percentiles |
| `MCClient` | see below | ids never reused, kept until settled, not resent after; the engine implements the map; messages open once and in any order; the mount is stale only below a path in another spelling |
| `MCTasks` | see below, fairness | ids unique and increasing; ends are clean, routes serve; callers and SDK calls come back, gateways and browsers' tasks too unless their peer takes no byte |
| `DeliveryLoss` (violation) | 1 break | a confirmed message is lost with its channel |
| `DeliveryRejected` (violation) | 1 break | a refused client stops though a retry would succeed |
| `EngineCompactWrite` (violation) | writes after a compaction | newer writes are overridden at the next open |
| `GroupWiring` (violation) | hub as wired | the invalidation never reaches the actor |
| `E2eeReplay` (violation) | 1 repetition | a message repeated after its chain ended makes later ones unreadable |

`MCParts`: friends with 2 handlers at once, 2 registered users and one that is not, 3
requests and 5 calls (request, accept, request again, then accept against remove of the
edge); accounts with names of 2 and 3 characters (one too short), 3 spellings, 2 users,
a token that expires; groups with 2 handlers, 3 people, 2 groups; 2 uploads with files
up to 2 chunks; 2 conversations with channels of 1; a window of 3 bits and 9 frames; 17
streams of frames of every command under every cut into reads of up to 6 bytes; 6 bits
of nanoseconds; one direction of a link with a channel of 1 and 3 frames; 4 buckets of
2 slots and 3 samples. `MCClient`: 2 messages, 3 connections, 2 crashes, 2 attempts; 2
keys, 2 values, a threshold of 2, 3 writes, 2 compactions, 2 crashes; 6 encrypted
messages, at most 1 skipped, 1 repeated; a cache of 2 over up to 6 inodes, with paths
written plainly, bare, with a slash at the end and with doubled ones. `MCTasks`: 2
machines, 2 callers, 2 sequence numbers, clocks in 0..1; a gateway with channels of 1,
2 pieces and 2 frames, either role; 2 browsers of one or two users with channels of 1,
2 texts, 1 push; an SDK with channels of 1, 2 calls, 1 frame and 1 outage.

Why the bounds are enough. A window of 3 has a first, a middle and a last bit, and 9
frames pass its end twice. Two sequence numbers exhaust a millisecond with the third
call. Two connections are a session and its replacement, a sender and a recipient, or
two tasks that write to each other. Two pieces fill the inbound channel and leave the
reader with a second frame to deliver, while the business task waits for room in the
outbound channel and the writer is in a write; TLC reaches that state. With three
connections the sender also reconnects while the recipient is on line. Channels of 1 or
2 are full as soon as a reply and a message meet. A queue of 2 with a batch of 1 has a
rest after a pull and loses its head on the third message. A threshold of 2 with three
writes puts a key into a sealed and into the active segment. Two actors are all that
two senders can spawn at once. Two handlers and two users race on one pair in both
directions; a third would repeat one of them. Six messages are two turns of each
ratchet with a message left behind in a chain. Three samples share a slot, a bucket or
neither. Numbers of `ValueBits` = 7 need three groups of 3 bits, the last of them not
full, as 64 bits in groups of 7. Deadlock is not checked where the bounds on frames,
messages or faults let the model stop; the bounds are in the guards (`AcceptConn`,
`ClientSend`, `Send`, `Text`, `PeerSends`, `CreateRequest`, `encrypt` and their like)
and named in the CONSTANTS.

Fairness. Weak fairness of tasks: tokio polls a task that can proceed, and threads run.
In `Snowflake` an attempt of a caller; in `GroupFanout` the sending tasks and the
actors; in `Delivery` the session tasks, the clients (they read what has arrived),
reconnection after the back-off, and the notice of a broken connection (end of stream
or idle limit). In `Gateway` the reader, the writer, the interval timer, the join and
the business task; a write comes back only while the peer takes bytes, or once the
socket is broken, because the code limits the time of none. In `WsLoop` likewise, and
the tasks that wait for room: weak fairness is enough there, since no property depends
on who gets the room first. In `Sdk` the three threads. No fairness is assumed of
users, sends, retry timers, faults, joining members, outages or clocks. `OutboxDrains`
therefore holds without the retry timer. It exempts a client that is off line or
stopped: the model hands out a bounded number of connections. `BusyReturns` exempts
tasks caught in, or behind, a ring of full channels or a task whose browser takes no
byte, `GatewayReturns` a write to a peer that stays and takes no byte, and
`CallsReturn` assumes a server that is reachable from some point on: these are limits
of the code, see section 5.

## 4. Proofs

Each is `Spec => []P` (or an action property, or a refinement) for all values of the
constants, from the named ASSUMEs of the modules, which say that bounds are naturals,
sizes are positive, markers are not members of the sets they mark and sets that the
code stores are finite. TLC evaluates the assumptions in every run. Some
theorems have a hypothesis about how the code is used, named in the theorem: `NoWrap` in
`SeqWindow`, `~WriteAfterCompact` and `~RemoveMayFail` in `Engine`, `RoomLeft` and the
size of the deduplication window in `Delivery`. What happens without those of `Engine`
is in section 5; around the wrap see there too; those of `Delivery` are discussed
below. Each invariant below is inductive; `EngineInv` was also checked by TLC
on the engine of `MCClient` (476,574 states).

Server:

- *Snowflake* (`SpanAssumption`). `IInv` = types, `Provenance` (every issued id is
  the assembly of a time, machine and sequence at or before the instance's current
  ones) and `IdsIncrease`. Order of ids alone is not inductive: it needs to know
  that the last id is no larger than what the current fields would assemble. The
  arithmetic is in `AssembleOrder` and `AssembleMachine` (mixed-radix numbers compare
  and separate by their digits). Results: `SnowflakeTypeOK`,
  `SnowflakeIdsIncrease`, `SnowflakeMachinesDisjoint`.
- *SeqWindow* (`WindowAssumption`). `WindowInv` = types, `WindowExact` (handled frames
  are exactly those between the base and `rcv_nxt` and those whose bit is set) and
  `NoSwallow`, which speaks of the frames from the anchor of the window on: its first
  frame, or the one a resync moved it to. `TrailingOnesSpec` says what the run of set
  bits is. Results: `WindowNoSwallow`, `WindowAckExact`, `WindowAtMostOnce`.
- *Sessions* (`SessionsAssumption`), four invariants, each on top of the ones before.
  `RInv`: `Shape` (the functions the argument needs), `Fresh` (connections not yet
  accepted have no task and no user) and `RouterMatchesSessions`. `AInv`: an
  acknowledgement that a task holds is for a placed message. `Contents`, with `Shape`
  the type invariant: what `store_offline` and `scan_since` return, by
  counting. `CustodyInv`: `OnePlace` (an id is in one of the queues, channels, hands of
  tasks and replies), `Numbered` and `QueueDistinct`; a pull and a failed send only
  move ids (`Moved`), the limit only loses them. `OrderInv`: a message in the hands of a
  task is newer than all of its sender that have arrived anywhere (`NewestInHand`),
  because the sender's other connections are not in its name any more (`OneHand`, from
  `RInv`); that is what keeps queues and channels in order across logins. Results:
  `RoutingCorrect`, `AckMeansCustody`, `TypesKept`, `OneCustody`, `OrderKept`.
- *Gateway*. `GatewayInv` = types, `InOrder` (the channel holds
  the last frames it took), `NoGap` (wire, writer and channel leave out no frame),
  `DrainsLast` and `EndsInOrder` (reader, then signal, then writer, then heartbeat).
  Result: `EndsClean`.
- *WsLoop* (`WsAssumption`). `WsInv` = types of the routing table and the sockets, and
  the property, which is inductive over them: `Welcome` gives a route only where there
  was none, `LoopEnds` takes only its own, every other step leaves what the routing sees
  of a connection (`SameForRoutes`). Result: `RoutesAlwaysServe`.
- *GroupFanout* (`GroupAssumption`). `Basics`: types, only messages that were sent and
  actors that were started occur anywhere, an inbox keeps its bound, a promise is made
  to members who have joined. `ServedInv`: whoever a message is promised to, and who is
  neither `stale` nor `unheard`, is reached wherever the message is, in a route, an inbox
  or the hands of an actor: the snapshot has them or the actor reloads it first
  (`Reaches`). `OrderInv`: as long as no first messages raced there is one actor, every
  message is in one place, the newest last. Results: `MembersServed`,
  `OneOrderForAll`, both under either wiring. Under that of `AppState::new` the table of
  the REST handlers never holds an actor, so whoever joins after the actor has started
  is `unheard` and the first theorem promises nothing to them; the run `GroupWiring`
  shows it.
- *Files, Groups, Accounts, Friends* (`FilesAssumption`, `GroupsAssumption`,
  `AccountsAssumption`, `FriendsAssumption`). Each invariant says
  what the tables agree on and what a handler between two statements may rely on.
  `FilesInv`: an upload under way owns its id (`OwnIds`), and its file is complete
  before the row is written (`FileFirst`). `DiskOwned`: what is on disk under an id
  belongs to the upload or the row of that id, so a download that has read a row finds
  the whole file of it or none. `GroupsInv`: keys, an owner row for every
  group, a member for every meeting token. `AccountsInv`: names are
  stored in lower case and unique, an id drawn for a user is in no row, a socket was
  opened on a token that was valid then. `FriendsInv` is the intricate one: accepted
  requests stand beside their edge at every commit because of what the locks of one
  handler keep from another (`SoundFriendCall`, `Apart`): an accept that finds its edge
  there without locking it has its row in the view of whoever removes that edge.
  Results: `RowsHaveFiles`, `GroupsOwned`, `OneAccount`, `TablesAgree`.

Server and clients together:

- *Delivery* (`DeliveryAssumption`, on top of `Sessions`). One invariant, `Mailing`, ties
  the clients to the server. `Online`: a client is on a connection exactly while it shakes
  hands or is in its loop; `OneClient`: a connection that has logged in under a name, or
  is about to, is the one that user's client is on, or is cut; `ClosedIsCut`: a channel
  closes only after a break; `LoggedIn`: nothing but a handshake precedes the login;
  `FirstPull`: until a user has lost a connection his only pull starts at 0;
  `FromClients`: every message carries its sender's own name and a number he has drawn;
  `Addressed`: queues, channels and batches hold placed messages for their user only;
  `Traced`: what is shown or confirmed is a placed message; `SeenShown`: what the
  deduplication window knows was shown. On top of it:
  - `Kept`: a placed message for a user who has lost no connection is in his queue, in a
    channel or a batch of his connection, or shown. A pull that takes a batch out of the
    queue, a live message that overtakes it, a send that degrades to the queue and a reply
    that waits for room meet here. Result: `HandoverKeepsMessages`, under `[]RoomLeft`
    (no offline queue reaches its limit), because `store_offline` drops the oldest message
    of a full queue, by design. The code's default limit is 1024;
    the run's queue of 2 may fill, but has no third message to drop one for.
  - `Windows`: two showings of one message are more than `DEDUP_CAPACITY` apart, for any
    traffic (`RepeatsAreFarApart`). `ShownAtMostOnce` adds the pigeon-hole: if all
    messages that are ever sent fit the window, none is shown twice. The run's instance
    satisfies that hypothesis; without it the window may have pushed a message out and a
    resend shows it again, as the bounded window of the code intends.
  - `CoreInv`: the invariants of `Sessions` with its open clients replaced by those of
    im-client, which do not run its `ClientSend` and `ClientRead`: each step is a step of
    the core or takes the head of one channel (`ServerOrReads`). Results:
    `ClientsKeepRouting`, `ClientsKeepCustody`; and `NothingInvented`.

  `Mailing`, `Kept` and `Windows` were checked by TLC before they were proved (6.67
  million states).

Client and benchmarks:

- *Outbox* (`OutboxAssumption`). `OutboxInv` = types, `Mirror` (the messages in
  memory are those of the retry table while the process runs, and what is about to
  be sent is among them), `Unsettled` (what is in the table is neither confirmed nor
  given up), `Traces`, `Counter` (no id above the stored counter was given out) and
  two of the properties. `WireAccounted`: what was ever sent is pending, stored, given
  up or about to be stored. Results: `OutboxNeverReused`, `OutboxKeptUntilSettled`,
  `OutboxSettledNotResent`, `OutboxDeliveredIsStored`.
- *Engine refines KVStore* (`EngineAssumption`). `Shows(d, k, r)` says what the files
  `d` say of a key: the newest file with a record of it has `r`, or none has one and
  `r` is `Nil`. `EngineInv` ties the process to its files: the sealed indexes and the
  memtable are those of the files (`Serving`), in the order of the ids
  (`Uncompacted`), or the store has been compacted (`Compacted`): old files that still
  hold records are to be removed, oldest first, and a key that the merged file leaves out
  has no value in any file. From it, `EngineReads`: `get`, `scan_prefix` and an open
  after a crash all read what the files show, and `ShowsOne`: they show one thing. So it
  is enough that every step leaves what is shown of every key as it was (`StepSeal`,
  `StepCompact`, `StepRemoveOld`, `StepCrashInAppend`, `StepCrashInCompact`,
  `StepRecover`) or writes one key (`StepAppend`). The order of removal matters: an old
  tombstone must not go before an older value. Result: `EngineIsMap`, that is
  `EngineSpec => ImplementsKV`, the run's refinement for all keys, values, thresholds
  and numbers of steps.
- *ChatView* (`ChatAssumption`). `ChatInv` = types, every conversation is `Consistent`
  with what has been on the screen, and the selected one has been read. The count is
  the size of a set of places, so each event has a lemma about cardinality
  (`TheirsCounts`, `MarkCounts`, `ReadCounts`). Result: `UnreadAlwaysExact`.
- *E2ee* (`E2eeAssumption`). `InStep`: a key that was used is `Behind` the receiving
  chain and is not among the kept ones; kept keys are distinct and behind it too. A turn
  of the ratchet makes a longer root, so the keys of a new chain are new
  (`NewChainInStep`). Result: `DecryptedOnce`. That what arrives opens needs what the
  two sides know of each other, `TouchInv`: until a message was repeated after its chain
  had ended, `Lockstep` (the numbers of pairs differ by at most the chain in flight),
  `Meets` (a receiving chain has the root of the peer's sending chain, or will have it
  after the turn it has before it), `Says` (what a side sent has the keys and numbers of
  its chains, and `prev` covers the chain before) and `Hears` (what a chain has passed
  was opened or its key is kept, the rest was not). A decryption then takes a kept key,
  advances a chain or turns (`TakeTalks`, `AdvanceTalks`, `TurnTalks`), and a message it
  does not open is `Missed`. Before the responder answers, `Waiting` ties the initiator
  to the one secret `respond` will derive. `TouchInv` was checked by TLC first (17,390
  states). Result: `FirstArrivalOpens`, for every `MAX_SKIP`, order, loss and number of
  messages.
- *Sdk*. `SdkInv` = `Joined` (past the join the pump does not run),
  `FreedLast` (the bridge is freed by the last step of destroy) and `NotStarted`
  (create starts the only pump). The property alone is not inductive: it does not say
  why a pump that runs cannot see the bridge freed by the next step. Result:
  `BridgeAlwaysOutlivesPump`.
- *WeakLink* (`WeakLinkAssumption`). `LinkInv` = types, `Flow` (a frame that was seen is
  under way, written or dropped on purpose) and, without jitter, `LinkOrdered`: along
  reader, channel, heap and wire, numbers and times grow together. Result:
  `LinkAlwaysFaithful`.
- *Backoff* (`BackoffAssumption`). Both delays are `Held`: the first one shifted as far
  as the shift goes, then held at a limit; `HeldDoubles` says what one more failure makes
  of it. The limit it ends at, `LongestDelay`, is the configured one unless shift or
  counter end before it. Result: `CeilingAlwaysDoubles`.
- *Histogram* (`HistogramAssumption`). `PlaceGrows`: larger values lie in no lower slot.
  From it `CountsAlike`: up to the slot of a value at least the samples up to it are
  counted, and before it at most those below it; so the slot in which the loop stops is
  the slot of the true percentile (`RankedSlot`), whose lower end `Reported` bounds. The
  mean needs `SumBounded`, the sum between multiples of minimum and maximum. Result:
  `PercentilesStaySound`.
- *Mount* (`MountAssumption`, `LruAssumption`). `MountWhole` = `TreeOK` (every entry
  leads to an inode in use, below `next`, other than the root and entered once) and
  `CacheOK`. The latter says that there is a sequence of places, `o`, such that the
  list is the `Chain` through it (`next` of a place is the one after it in `o`, `prev`
  the one before, head and tail its ends), its keys are those of `used` and of the map
  (`KeysOK`), and the stack holds every other slot once (`FreeOK`). `MountSound` itself
  says only what the walk along the links returns and is not inductive; with `o` each
  operation of `lru.rs` is one on sequences: `unlink` drops a place, `push_front` puts
  one in front, a new key takes a place that is not in `o` (`ReleaseIs`, `InsertedIs`),
  and the walk returns `o` from either end (`WholeSound`). That the listings are fresh
  needs two facts more. `Stays`: a write changes the entries of the parent alone, and
  what every other path to a directory leads to stays. `ContinuedGoes`: the listing
  cached under the text that the path of the write continues is dropped. What is left,
  listings of the parent cached under its other texts, is what `missed` collects and
  `CacheFresh` excepts (section 5). Result: `MountStaysSound`, for any names, views,
  capacities and texts of paths. When all paths are written plainly, a slash before
  each part and nothing else, as the callers in the repository do, `missed` stays empty
  (`PlainNeverMissed`): a plain path continues the only plain text of its parent.

  Shifts and running sums are recursive functions. What they compute is proved without
  induction over operators: each is a `Run` of numbers, and the first place at which it
  would go wrong does not exist (`RunExists`, `RunAlone`).

Cardinalities come from the library's theorems on finite sets; the least element of a
set of naturals from the theorem that they are well-founded.

Only model-checked. Liveness under fairness and ENABLED are beyond the prover:
`CallReturns`, `GatewayReturns`, `BusyReturns`, `CallsReturn`, `OutboxDrains`,
`DeadSessionsEnd`, `TakenIsCopied`. `DecodesStream` is too: encoder and decoder are
recursive operators and folds over bytes, and that a damaged payload is refused depends
on the polynomial.

## 5. Deviations between code and documentation

Refuted by a run: the five violations above.

Met while modelling, without a run of their own (the passing properties state what
remains true). Server:

- Offline queues are not sorted by `msg_id` across senders (numbering and storing are
  not one step), though `sync_since` says they are; per sender they are
  (`SenderOrder`).
- Replies and forwarded messages of a connection are numbered by two counters
  (`session.rs:545`), and deliveries are numbered before the awaited send, so they can
  reach the channel out of order (`session.rs:350`). The client reads neither. Between
  registration and welcome other envelopes may reach a browser first.
- A member signal is lost to a full inbox or to a snapshot that is loaded but not yet
  registered (`stale`), and two first messages can spawn two actors (`raced`).
- Browsers' tasks that wait for each other's full channels wait for ever
  (`ws.rs:374`); `BusyReturns` excepts them by `Wedged`. Nothing limits the time of a
  write to a browser (`ws.rs:348`), nor of the Close after the loop (`ws.rs:394`), which
  is awaited while the channel is still open: a browser that takes no byte holds its own
  task and those that wait for room in its channel until the connection breaks.
- `gateway.rs:380` says that every byte read restarts the idle timer, even half a
  frame; the timeout is around a whole `read_frame`. `gateway.rs:298` says that no
  accepted frame is lost; one accepted between the last `try_recv` of the drain and
  the end of the receiver is. Frames decoded in the same read as a bad one are
  dropped. A write has no timeout, so a peer that stays and takes no byte holds the
  writer, and with it a shutdown, for as long as it likes (`WriteHangs`).
- `create_request` answers 404 when the look-up of the names after its insert fails,
  although the request is stored (`friends.rs:126`).
- An insert of a file row that committed while its reply was lost makes the handler
  remove the file of a row that exists (`files.rs:141`; `RowHasFile` excepts it).
- The window accepts offset 64 where the comment gives 63, a resync acknowledges the
  frames it skips, and the comment at `dedup.rs:143` says that frames of the skipped
  range are judged new when they come late: `feed`, the test at `dedup.rs:295` and the
  model judge them duplicates. Around the wrap of u64 frames ahead of the window are taken
  for old ones.

Client:

- The client's cursor moves with live messages; a message numbered earlier but stored
  later lies below it and the next pull discards it unseen. `set_sync_cursor` is
  documented as monotone (`store.rs:230`) and overwrites; its callers compare first.
- The client pulls one batch per connection; `SYNC_BATCH_SIZE` speaks of paging.
- A restarted recipient shows a resent message again: the deduplication window is in
  memory and the resend has a new `msg_id` (`ShownOnce` excepts restarted clients).
- `retry_max_attempts` does not count the resends of a reconnection.
- A confirmation that comes after the give-up marks the message as delivered without
  storing it (`DeliveredIsStored` excepts it).
- A crash between the two writes of `ack_outgoing` leaves a confirmed message in
  neither table.
- A segment that `compact` could not remove can bring a deleted key back
  (`RemoveMayFail`). After a compaction the next seal indexes the merged file instead
  of the active one. `scan_prefix` zeroes a byte 0xFF of its upper bound where it
  should drop it, harmless with keys of fixed width; segment names of more than eight
  digits are not found again.
- The client never calls `reset` of its backoff (`client.rs:308`, `:338`), so delays
  only grow over its life. A ceiling below a millisecond gives no delay at all.
- The terminal awaits `send_msg` in the task that takes the events (`tui.rs:184`):
  with both channels full it stops for ever.

Encryption, mount, SDK, benchmarks:

- A responder that encrypts before it has received anything panics (`ratchet.rs:307`;
  `EncryptPanics`). More than `MAX_SKIP` losses in a row lock the session. By reading
  only: `decrypt` advances before it opens, so that after a damaged copy the intact
  one no longer opens (`ratchet.rs:300`).
- The listing cache goes by the text of a path while the tree ignores empty parts
  (`memfs.rs:326`). `mkdir("/a/")` drops the listing of "/a" instead of "/", and a write
  to "/a/b" drops that of "/a" but leaves "//a", "a" and "/a/" as they were
  (`dir_cache.rs:183`). `MountSound` excepts these listings by `missed`.
- `destroy` of a client in callback mode does not return while the server is away: an
  attempt to connect does not look at the shutdown signal (`client.rs:327-340`) and
  the pump ends only with the task. A caller without callback that sends more than
  both channels hold without polling waits for ever. `nativeCreate` keeps its bridge
  when a string holds a NUL.
- The percentile of rank 0 is 0, though the rank is documented as at least 1. The
  close of one side of the weak link reaches the other only when both directions have
  ended. The scenario around it (`weaklink.rs:393-512`) counts a message that failed
  and was then acknowledged twice, and misses messages in a batch.

## 6. Plan

Done, in this order: `Snowflake`, `SeqWindow`, `Sessions`, `Delivery`, `Engine`,
`GroupFanout`, `Outbox` and the proofs of four of them; then `Gateway`, `WsLoop`,
`Codec`, `Backoff`, `Lru`, `Mount`, `E2ee`, `Friends`, `Accounts`, `Groups`, `Files`,
`Sdk`, `ChatView`, `WeakLink`, `Histogram`, and `Engine` refined to torn frames; then the
proofs of `Gateway`, `GroupFanout`, `E2ee`, `ChatView`, `WeakLink` and the four stores,
the rest of `Sessions` and `Outbox`, and `Engine` as an implementation of `KVStore`; then
`Delivery`, the composition of clients and server, what arrives in `E2ee` opens, the
delays and the percentiles, and `Mount` with its LRU list.

Next, models: the call store of the web front end over `WsLoop`'s relay; the
composition of `Gateway` with `Delivery` for back-pressure towards a client.

## 7. Not modelled

Left out for good: the database pool and start-up, QUIC and TLS set-up, the
cryptographic primitives, drawing and line editing of the terminal client, the
marshalling of one event in the foreign-function bindings, load generators and build
tasks. Of the modelled parts: reads that only list (conversations, history pages),
errors of single appends (the engine ends at the first), a damaged ciphertext, the
scenario driver of the weak link.

The web front end (`web/src/stores`) is read but not modelled: what its call store may
do depends on the order in which a browser settles promises and WebRTC events, which
nothing in the repository fixes. What reading showed: `startCall` leaves the status
`idle` until the camera is granted, so a second call or an incoming offer in between
replaces the peer connection without closing it; handlers of a connection that was
replaced clean up the one that replaced it; an offer of a third party during a call is
dropped before the code that would decline it; and a `disconnect` followed by
`connect` before the old socket's `onclose` clears the new socket and schedules a
second reconnection.
