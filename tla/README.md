# Verification of LAN Text Chat

A TLA+ development about LAN Text Chat: a Rust WebSocket server
(`src/lan-text-chat-server`) and a VS Code extension (`src/vscode-extension`).
The modules are checked by TLC on small instances; theorems about them are
checked by TLAPS for every value of the constants. `PROJECT.json` lists the
components, runs, mutants, the lines each definition models, the findings, the
hazards and the theorems.

## 1. Inventory

| Component | State | Operations | Talks to |
| --- | --- | --- | --- |
| Server core (`ws.rs`, `state.rs`, `models.rs`, `util.rs`) | `AppState` behind one tokio `RwLock`: clients (routes), users (presence), groups, conversations, messages; per socket: `registered_user_id`, an unbounded queue, a writer task | hello, direct and group message, create / update / delete / join / leave group, read receipt, typing, ping; end of a socket | every extension, through the queues; the tasks of other sockets, through `AppState` |
| Server start-up (`main.rs`) | none | parse the address, start with an empty `AppState`, serve | server core |
| `ChatClient` (`chatClient.ts`) | socket, connection state, manual and disposed flags, reconnect, heartbeat and hello timers, last pong | connect, disconnect, reconnect, send, socket and timer callbacks | server; callbacks into ChatService |
| `ChatService` (`chatService.ts`) | configuration, connection state, active conversation | handler of every server packet, sending messages and receipts, group requests, opening conversations, configuration updates | ChatClient, the stores, the view |
| `HistoryStore` (`historyStore.ts`) | messages, conversations, write queue; `messages.json`, `conversations.json`, `history.json` | load and migrate, upsert, mark read, add receipt, trim, persist | file system |
| `GroupStore`, `UserStore` | groups, users, write queue; `groups.json`, `users.json` | replace, upsert, remove, set offline, persist | file system |
| Configuration and helpers (`config.ts`, `utils.ts`, `types.ts`) | user id in `globalState` | normalise settings, `atomicWriteJson` | VS Code |
| Activation and UI (`extension.ts`, `chatViewProvider.ts`, `i18n.ts`) | view state | commands, webview messages | ChatService |
| Scripts | none | start a server and two editors | - |

How they interact. An extension opens one socket, says `hello`, and waits for
`hello-ack`; every later packet is a request or a notification. The server
handles the packets of one socket one after the other. A handler changes
`AppState` in one critical section and then serves the packet it built to a
list of users under the read lock. The queue of each connection is FIFO, so
what an extension learns of the system is the fold of its queue.

What is hard:

* **Interleaving and atomicity in the server.** Between a handler's commit and
  its fan-out it holds no lock: other handlers commit, fan out, register a
  recipient's new socket, or remove its route. `broadcast` takes the read lock
  twice.
* **Reconnection.** An extension reconnects long before the server notices that
  the old socket is gone, so several sockets of one user live together and end
  in any order.
* **Partial failure.** `truncate_preview` may panic in the middle of a critical
  section; a tokio `RwLock` is not poisoned and the server goes on.
* **Restart.** All server state is in memory; extensions keep ids from before.
* **Extension.** Packet handlers are not awaited and interleave at each
  `await`; timers and close events of an old socket act on the current one;
  files are written one after the other.

What makes each component correct:

* server core: presence agrees with routes; a route leads to a live socket of
  its user; `hello-ack` comes first in a queue; groups and their conversations
  agree; nobody connected misses a group or the last message of a
  conversation; nothing is delivered twice; receipts are recorded; handlers
  return and lost sockets are cleaned up;
* ChatClient: at most one live socket, timers that serve it and no other, silence
  after a disconnect, a retry for every loss, no peer that stays silent unnoticed;
* ChatService over its caches: no message is lost, left without its
  conversation, or counted as unread beyond what is unread; what is read and what
  receipts say agree; the limit holds; the groups follow the server's packets;
* persistence: each file goes forward, is never ahead of its array, and keeps what was
  acknowledged across a crash; cleared messages stay cleared; what is
  restored is complete and within the limit.

The hazards, with the line each one bites at, are in `PROJECT.json`.

## 2. Modules

| Module | What it holds |
| --- | --- |
| `ChatServer` | The server: state, every handler, the sockets, fan-outs, restart, and the properties |
| `MessageFanout` | What a server that fans messages out promises of each message |
| `MCChatServer` | Model values, symmetry and a view for TLC |
| `ChatServerProofs` | Type correctness and the registry invariant |
| `ChatServerGroupProofs` | The group invariant; fan-outs |
| `ChatServerMessageProofs` | The delivery and the message invariant; the refinement of `MessageFanout` |
| `ChatClient` | The extension's connection: `ChatClient` and the calls `ChatService` makes on it, and the properties |
| `MCChatClient` | Configurations and a view for TLC |
| `ChatClientProofs` | Type correctness and the connection invariant; timers and retries |
| `ChatService` | The extension's packet handlers, commands and settings over the in-memory caches, and the properties |
| `MessageLife` | What an extension promises of the messages it receives |
| `MCChatService` | Model values, symmetry and a view for TLC |
| `ChatServiceProofs` | Type correctness; limit, conversations and senders |
| `ChatServiceMessageProofs` | Loss, receipts, unread counts, and groups; the refinement of `MessageLife` |
| `DurableCache` | What a cache with a file promises |
| `HistoryFiles` | The two files of the history: loading, migration, the write queue, failures, crashes; the refinement of `DurableCache` |
| `MCHistoryFiles` | Model values for TLC |
| `HistoryFilesProofs` | Types, the order of writes, the refinement |
| `HistoryContentProofs` | What the files and the cache hold: limit, conversations, clearing, migration, saving |

`ChatServer` and `ChatClient` are the two ends of a connection; `ChatService` takes
the packets the server may send as its inputs and calls the client only through
`ok`, the result of a send. `HistoryFiles` is the history's writes seen
from the file, `ChatService` the same writes seen from the handlers that await them.

### ChatServer

One TLA+ step is a piece of a handler no other task can observe the middle of:

* the **critical section** of a handler (`state.write().await { ... }` has no
  `await` inside) is one action: `RegisterUser`, `MarkUserOffline`,
  `RouteDirectMessage`, `RouteGroupMessage`, `CreateGroup`, `UpdateGroup`,
  `JoinGroup`, `LeaveGroup`, `DeleteGroup`, `RouteReadReceipt`. Each waits for
  the write lock (`CanWrite`: no fan-out holds the read lock) and ends with
  `Dispatch` or `DispatchToAll`, which leaves the packet and its recipients to
  the fan-out;
* `Broadcast` reads the routed users under a read lock of its own;
* `SendToUser` serves one recipient. The read lock is held from the first
  recipient to the last (`pc = "sending"`), and any number of fan-outs share
  it. The order of the recipients is left open, which covers both the order of
  a list and that of the keys of a hash map. A recipient is served through its
  route *at that moment*.

Variables and code: `clients`, `users`, `groups`, `messages` are the fields of
`AppState`; `conversations` is split into `groupConvs` (by group) and
`directConvs` (by unordered pair, which is what `direct_conversation_id`
computes for ids without `:`). `link`, `registered`, `pc`, `rcpt`, `packet`
are the state of a socket's task: whether its socket is open, lost, being
cleaned up (`leaving`) or its task panicked; its `registered_user_id`; and the
fan-out under way. `told[c]` is the fold of the queue of `c`: whether an ack was
queued, and the presence, groups, previews and messages it told. `issued` is a
history of the ids in use.

`MessageFanout` is what the server promises of each message, without sockets' tasks,
locks or packets: whom a message is for is settled in the step that posts it, and
each of them is served at most once, through one queue of theirs. `ChatServer` implements
it with `sent` the ids in use, `owed` the users an unfinished fan-out has still to
reach, whether it is broadcasting or sending, `reader` the user registered on a socket,
and `held` the messages its queue was told. The promise has a recipient lost with its
route, as the code has, but never one that was not a recipient when the message was
committed.

Abstractions: a user, message or group id is a model value; a conversation's
preview is the message it was made from; member records are ids; timestamps,
addresses, request ids, texts and user names are left out. Direct conversations
have no title of their own (hello-ack takes the other user's name). A handler
that refuses a request or only answers on its own socket changes none of this
state and is `AnswerRequester`. Sockets are slots of a finite set `Conns`, reused
when a task has ended, which bounds how many exist together, not how many there
are over time.

What the extension is assumed to do (`ExtensionRequest`), because its code does
it: it signs messages and receipts with its own id, it sends requests only after
`hello-ack` (`ChatClient.send` wants the state `connected`), one socket says hello
for one user only, and it never reuses a message id (`randomUUID`). It may name any
group: the ids come from `groups.json` and the conversations, which outlive the
socket, the membership and a change of `clientId`, and which the windows of a profile
share, so an extension knows groups that its present queue never told it about. Wider
than its code are `join-group` and an update that sets or removes members
(`ProtocolLists`): the server handles them and the extension never sends them, so they
are in the runs whose properties pass and in the theorems, and the lists in none of the violation
runs. The server's own checks stay in the actions. Two windows with one user id are covered: they are
two sockets of one user.

Group ids (`uuid_like`, time in nanoseconds read under the write lock) are
assumed unique, also across restarts.

`cuttable` is the choice whether the text of a message can be cut at the byte
limit. When a character lies across it, `truncate_preview` panics after `messages.push`: the
message is stored, no conversation is written, nothing is fanned out, and the task
is gone (`link = "panicked"`) while its queue and route remain.

### ChatClient

JavaScript runs one callback at a time. An action is one callback of a socket or
a timer, one command, or one stretch of `updateConfig` between two awaits. A
synchronous method is an operator from the record of `ChatClient`'s fields to
the record it leaves (`Connect`, `Disconnect`, `CloseSocket`, `SendHello`,
`StartHeartbeat`), composed as the methods call one another.

Variables and code: `client` holds the private fields of `ChatClient` (a timer is
TRUE while it is set; `pongIsFresh` says that `lastPongAt` is at most 45 s old)
and, for each WebSocket object with events to come, its `phase` and the
configuration its handlers captured. `settings` is `ChatService.config`.
`updates` are the calls of `updateConfig` waiting for `ensureCurrentUser`, which
return in order because `UserStore` writes through one queue. `lost` is a history
variable: the peer or a time limit has ended a socket since a call of the service
last opened one. `serverUrl`, `username` and `userId` are one `identity`, since
`updateConfig` only asks whether any of them changed.

What is assumed of the `ws` library: `close()` on an open socket begins a
handshake, packets under way are still delivered, and the close event comes when
the peer answers or a time limit ends the wait; on a connecting socket it
aborts, and the close event comes before any other event (`Settled`); on a closing
socket it does nothing. A refused or broken connection gives an error event and a
close event; the state `error` the first sets is overwritten by the second before
anything else runs.

The model takes server addresses that parse (`connect` refuses others and opens
no socket) and leaves out `reconnect()`, which nothing calls.

### ChatService

`handleServerMessage` is called for each packet and never awaited, and the view and
the commands call the service in the same way. A handler runs until it awaits the write of a
store it changed, and each store writes through a FIFO promise chain. A handler
that waits is therefore an entry of its store's `queue`: the record of what it has
yet to do, with the values it computed before the await. One action is what runs
between two awaits. `WriteEnds` resumes the first handler of a queue; `WriteFails`
rejects its await, which ends the handler and leaves memory as it is. A wait that
nothing follows is left out.

| Action | Code |
| --- | --- |
| `HelloAck`, `ReplaceGroups`, `UpsertGroups` | the `hello-ack` handler: users; after that write, groups; after that write, one conversation per group; then the merge of the conversations |
| `DirectMessage`, `StoreDirect`, `SendImmediateReceipt` | a direct message: sender online; the message, with the status decided now; `maybeSendImmediateReceipt` |
| `GroupMessage`, `StoreMessage`, `SendImmediateReceipt` | a group message, also the echo of an own one: the status is decided *before* the first await |
| `GroupIs`, `UpsertGroups` | `group-created`, `group-updated`, `group-deleted` |
| `UserOnline`, `UserOffline`, `ReadReceipt` | the packets of that name |
| `OpenConversation`, `SendReceipts` | `openConversation`: mark read; after the write, the receipts |
| `StartConversation`, `SendMessage`, `ClearLocalHistory`, `Deselect` | the commands |
| `ChangeConfig`, `Configure` | the configuration event: `setMaxMessages`, then the new setting of receipts |

Variables and code: `messages` and `conversations` are the arrays of
`HistoryStore` by id (a conversation is its `unreadCount`), `groups` and `users` those of
`GroupStore` and `UserStore`, `active` is `activeConversationId`. `settings.loaded`
is the receipt setting as last read, `settings.receipts` the one in use. `seen` is
a history variable: what packets told, what was received, sent, cleared, or dropped,
and which messages have a reason (`excused`) for the missing receipt. Only the
inputs read it: an id is new when it is not in use, and an echo answers a sent
message.

`MessageLife` is what the service promises of received messages: each goes forward
through waiting, delivered, read and gone, any number at once, and a receipt is only
for one that is read or gone by then. `Phase` derives how far a message is from the store, the
waiting handlers' messages and what was cleared or dropped, so the refinement says that no
order in which handlers resume, commands run and writes fail makes a read message unread
or brings a cleared one back.

Titles, previews, texts, timestamps and `readBy` are left out. So is the order of the
message array: `Trim` keeps the newest message and leaves open which of the older
ones go. `server-sync` is not modelled, since the server never sends it.

### HistoryFiles and DurableCache

An action of `HistoryFiles` is one synchronous operation of the store up to
`persist`, one system call of a write (`WriteTemp`, `RenameTemp`), a failure, one step
of `load`, or a crash. `Persist` appends a snapshot to `queue`. A snapshot holds
*references* (`[...this.messages]` is not what the code takes): `Live` marks an array that
memory still uses, so that a change in place shows in writes that wait, and a change
that makes a new array leaves them the old one (`Referred`). `writing` is how far
the first write is. An array is the set of its ids and a number `v` that grows with
every change and only serves to compare states. The array that `trimMessages` cuts off
(`slice`) has its message objects in common with the new one, so a write that waits for it also
stores later edits of those messages: its ids are exactly those of the model, and its
number is the least that what it stores is worth. The properties ask only for that: ids,
and numbers from below.

`AddMessage` takes any id that is not stored, also one that was: the server echoes a group
message to its sender, and the echo stores it again when the history was cleared, or
cut, after it was sent. It is then a new message for `ClearedStaysCleared` (`cleared`,
and the `clears` of a snapshot that waits, lose its id). `unwritten` says that the migrated messages
are in memory only, until the first write of `messages.json`; `lost` that the
process ended just then, or that `messages.json` was unreadable later.

`Load` reads one file; `LoadBadFile` is one that cannot be parsed, renamed away or
left in place if that fails. `Migrate`, `RenameLegacy` and `MigrationEnds` are
`tryMigrateLegacyHistory`, with every way it may stop half way. `Normalize` and `Saved`
end `load`. `rejected` is a `load` whose write failed: the extension is not activated.
`Crash` is the window closing at any moment, as `deactivate` waits for no write.

`DurableCache` says what such a cache promises, with three numbers: memory runs ahead of
the file, the file ahead of what was acknowledged; a restart falls back to the file.
`FilesAreDurable` is the refinement, once per file: `memory` is the number of the array
(that of the file until it is loaded), `file` the number of what the file holds,
`acked` the number whose `persist` returned last.

## 3. Runs

Every server run uses two users and two sockets, which may be of the same user.

| Run | Instance | Shows |
| --- | --- | --- |
| `server_groups` | 2 sockets, 1 group, 2 names | `TypeOK`, `OnlineMatchesRoutes`, `RouteIsLive`, `HelloAckComesFirst`, `GroupsAreConsistent`, `NoMissedGroup`, `DeletedStaysDeleted` under every order of hello, loss, clean-up, requests, fan-out, restart |
| `server_messages` | 2 sockets, 1 group, 1 message, 1 name | `NoMissedMessage`, `DeliveredAtMostOnce`, `ReceiptsAreRecorded`, and the refinement `MessagesAreFannedOut` |
| `server_liveness` | 2 sockets, 1 message, `FairSpec` | `HandlersFinish`, `LostConnectionsAreReaped`, `MessageReachesRoute` |
| `online_after_reconnect` | 2 sockets | violation: an old socket's clean-up takes a connected user offline |
| `overtaking_updates` | 2 sockets, 1 group, 2 names | violation: members are left with the older of two states of a group |
| `leaver_not_told` | 2 sockets, 1 group | violation: a member leaves, and keeps a group that goes on without it |
| `panicked_task` | 2 sockets, 1 message, `FairSpec` | violation: a user whose task panicked stays online |
| `client_connection` | 2 WebSockets, 4 configurations, 1 update under way, `FairSpec` | `TypeOK`, `OneLiveSocket`, `TimersServeTheSocket`, `QuietWhenDisconnected`, and with fair timers `LossIsRetried`, `HelloIsAnswered`, `SilentPeerIsDropped` |
| `late_close_event` | 2 WebSockets, 2 configurations | violation: the close event of an old socket ends the new connection and nothing tries again |
| `service_messages` | 1 user, 1 group, 2 messages, limits 1 and 2, 2 waiting handlers | `TypeOK`, `RetentionHolds`, `MessagesHaveConversation`, `SendersAreKnown`, `UnreadIsJustified`, `ReceiptsMatchReads`, `ActiveIsRead`, `NothingIsLost`, and the refinement `ReceivedGoForward` |
| `service_groups` | 1 user, 1 group, 1 version, 1 message, 2 waiting handlers, `FairSpec` | `GroupsFollowServer`, and with fair writes `ReceivedIsStored`, `OpenIsRead` |
| `history_files` | 2 messages of 1 conversation, 1 of them in `history.json`, limits 1 and 2, 2 waiting writes, 3 changes of an array | `TypeOK`, `QuietMeansSaved`, `ClearedStaysCleared`, `MessagesHaveConversation`, `RetentionHolds`, `LegacyIsMigrated`, `FilesAreDurable` |

Bounds. Two users suffice for every property here: each relates one user, or a
sender and a recipient. Two sockets give two handlers whose commits and
fan-outs interleave in every way, and two sockets of one user. One group and one
message suffice because no property relates two of them; a second *name* makes two
versions of one group. A member list in a request is the second user alone
(`OnlyOther`), so a list can hold or miss the owner and add, replace or remove
the only other member; the violation runs leave out what the extension never sends
(`ProtocolLists <- NoIds`). A restart may happen at any point, any number of times. The
theorems of section 5 hold for all values of these constants.

The client runs use two WebSockets, since no handler can tell two old ones apart:
each acts on the socket the client holds and on its own captured configuration. With
both slots occupied, one that closes and one in use, a call that would open a third waits
for a close event; the invariants are proved for any number. The four configurations are
online with and without `autoReconnect`, under a second identity, and offline, so
an update may do each of the three things `updateConfig` does. One update under way is
enough for commands, timers and events to fall into its await.

`service_messages` has two handlers waiting at a time (`MaxHandlers`), which is the least at
which they overtake each other and a third step falls between them; two messages and a
limit of one make an arriving message drop another that is unread, or whose receipt is
still to be sent. Its group packets only delete (`NoVersion`), since that
run's properties do not mention groups; `service_groups` has the rest of them with
one message. In `history_files` two writes wait, so that one may refer to an old array
and one to the new; three changes (`MaxVersion`) are enough to add, clear or trim, and
edit while the first write is between its two files. Messages of one conversation
suffice, as the properties ask only whether a message has its conversation.

Symmetry. Sockets are interchangeable in every definition; so are messages in
`service_messages`. Symmetry is not used with liveness.

Views. A run may leave out of the fingerprint what neither its properties mention nor
any action's effect on the rest depends on. No action of the server reads `told`;
`MessagesOnly` keeps of it the acks, previews and messages, and drops the users and what
a presence or group packet says, which only the other parts of `told` depend on.
`GroupsAndMessages` drops the service's users, which only `UserOffline` reads (to
change them); of a count it keeps whether there is one, all an action asks of it; and
of `seen.told` nothing while the cache is stale, since it is told anew before it is
compared again. In `client_connection` no property
mentions `lost` and no action reads it; of a captured configuration the handlers read only
`autoReconnect` and `offlineMode`, and the latter is never set when a socket is opened
(`WithoutHistory`). In `history_files` only `LegacyIsMigrated` mentions `gone`, and only
of the messages of a `history.json`, while they are not `lost`; no action reads it
(`GoneIfMigrated`).

Deadlock is checked in the server runs. It never occurs since a restart is always
possible; `HandlersFinish` is the property that says nobody waits for ever. It is
not checked in the client runs: a disposed client has no timer and, once the
last close event has come, nothing left to do. Nor in the service runs: when the ids are used
up and nothing waits the model may stop, as the extension idles when nothing
happens. In `history_files` a crash is always possible, and deadlock is checked.

Fairness of the server, used by its two temporal runs only: a task that can take
the read lock or goes on with its fan-out is scheduled (weak fairness of `Broadcast` and
of the next recipient); the clean-up of a lost socket is strongly fair, because
other tasks take and release the lock while it waits and tokio's `RwLock` serves
waiters first come first served; a task that has ended is dropped (weak fairness
of `DropConnection`). Nothing is assumed of the extensions, of losses or of
restarts: a socket nobody notices to be gone stays open for ever, as it does in the
code, which has no timeout on the server's side.

Fairness of the client: a timer that is set goes off (`HelloTimeout`,
`HeartbeatTimeout`, `ReconnectTimeout`), and a socket that was closed gives its close
event, which the `ws` library bounds by a time limit. Nothing is assumed of the
server, which may refuse, stay silent, or answer pings for ever without acknowledging,
nor of the user. Pongs may keep a socket alive for ever; `SilentPeerIsDropped` speaks of a
socket whose pongs have stopped.

Fairness of the service: a write of a file ends, well or not, and the handler that
awaits it is resumed (`Fairness`, one queue each). Packets, commands and settings are free
to come or not.

## 4. Findings

1. `mark_user_offline` (`ws.rs:294`) removes the route of its user, whichever
   socket it leads to. When the extension has reconnected before the server
   notices the end of the old socket, the user is shown offline and gets no
   packets until it says hello again.
2. `update_group` (and the other handlers) fan out after releasing the write lock
   (`ws.rs:559`). What two sockets change of a group, its creation included, may
   be queued in the wrong order, after which members keep the older group until the
   next change. The run's trace has a creation or an update of one socket overtaken by a
   later update of another.
3. `group-updated` goes to the members after the change (`ws.rs:552`, which
   leaving calls): whoever leaves or is removed is never told, and its extension keeps the group
   until the next `hello-ack`. In the run's trace a member sends `leave-group`; the
   property speaks of groups that still exist, so no deletion is mistaken for it.
4. `truncate_preview` (`util.rs:6`) slices bytes; a long text with a character
   across byte 117 ends its sender's task without `mark_user_offline`, and
   the sender stays online with nobody reading its socket.
5. The close handler of *every* socket clears the client's timers and closes the
   client's current socket (`chatClient.ts:86-88`). After disconnect and connect, or
   offline mode on and off, the late close event of the old socket aborts the new
   connection. With `autoReconnect` the client tries again after its interval;
   without it, it stays disconnected although no connection was lost.

Each is a violation run, stated as what the repository's documentation says and
checked, for the server, in the situation where nothing is under way.

Also met while modelling. No run is spent on these; the properties name them as their
exceptions, so that what they say holds of the code as it is:

* The close handler decides by `autoReconnect` as it was when the socket was opened
  (`chatClient.ts:93`), `scheduleReconnect` by the current setting (`:208`): enabled
  while connected, it does not apply to the next loss; disabled, the state stays
  `reconnecting` with no timer (`LossIsRetried`).
* A message received in the open conversation is stored as read; if the
  conversation is left before its handler looks again
  (`maybeSendImmediateReceipt`), no receipt is sent for it, then or later
  (`seen.excused` in `ReceiptsMatchReads`). A failed write or a client that refuses to
  send has the same effect.
* `hello-ack` applies its groups after an await: a group packet that arrived
  meanwhile is overwritten by the older list (`seen.stale` in `GroupsFollowServer`).
* Each group packet, group message and `hello-ack` writes its conversation with
  `unreadCount` 0, so counts fall short of the unread messages;
  `UnreadIsJustified` is the direction that holds.
* A `history.json` that cannot be renamed is migrated again at each start with empty
  files, also after the history was cleared (`InLegacy` where `cleared` grows).
* The echo of an own group message that was cleared between sending and echo stores it
  again (`cleared` in `AddMessage`).
* `history.json` is renamed before the migrated files are written: until the first
  write of `messages.json`, a crash, also after a failed write, leaves its messages in the
  backup only (`unwritten` and `lost` in `LegacyIsMigrated`). After it none does.
* A write that fails at the end of `load` rejects the activation (`rejected`).

## 5. Proofs

For every finite or infinite choice of the constants. The server's theorems rest on
two assumptions: `NoneIsFresh` (the value `None` is none of the values it stands
beside) and `InputsAreSets` (requests carry sets of users, whether the extension sends
them or not; group ids are not message ids); the client's on `NoneIsOther`, `ConfigsAreConfigs` and
`BoundIsNatural`, which say no more; the service's on `ServiceConstants` and
`NoneIsNoMessage` (users and groups have different ids, limits are positive, there are
finitely many message ids), and the files' on `FileConstants` and
`LiveAndNoneAreNoArrays` (each message has a conversation, limits are positive,
finitely many ids). The bounds on waiting handlers, waiting writes and changes are
any numbers.

* `ChatServerProofs`. `TypeInv` is `TypeOK` and `HandlersOK`: an idle handler has no
  packet and no recipients, a busy one has a packet, and a broadcast carries
  presence. `TypeOK` alone is not inductive, since a fan-out applies `Tell` to
  `packet[c]`, which must then be a packet and not `None`. `RegistryInv` adds to
  `OnlineMatchesRoutes`, `RouteIsLive` and `HelloAckComesFirst` that a routed
  socket has had its ack and that a socket nobody said hello on has an empty
  queue. Without the first, a fan-out might be the first thing on a queue; without
  the second, a reused slot might start with one.
* `ChatServerGroupProofs`. `GroupInv` adds to `GroupsAreConsistent` and
  `NoMissedGroup` that a stored group has used up its id and that a
  `group-deleted` under way is about a group that is gone. The latter is why a
  late deletion never makes a member forget a group that exists.
  `DeletedStaysDeleted` is an action property and follows from the steps. The safety
  half of `HandlersFinish` is proved as well: a fan-out that wants or holds the read
  lock has a recipient left (`SomebodyIsLeft`; for receipts and announcements to a group
  this rests on `GroupsAreConsistent`, by which the owner is a member), and from step
  to step it only loses recipients and keeps its packet until it is over
  (`FanoutsOnlyShrink`). So no handler holds the lock with nothing to do, and none is
  given more to do than it began with.
* `ChatServerMessageProofs`. `DeliveryInv` adds that every id in a packet, a queue
  or the store is used up, so a fresh message is under way nowhere.
  `MessageInv` adds that conversations show stored messages. `NoMissedMessage`
  rests on `RouteIsLive` (one socket is the route of one user) and on the ack
  carrying the conversations of the same critical section that sets the route.
  `FannedOut` maps every step to one of `MessageFanout`: a message request to `Post`, a
  served message to `Serve`, hello and the end of a socket to `Open` and `Close`, a
  change of groups, and all that touches no message, to `Regroup`. It needs `DeliveryInv` twice: a
  fresh message is under way nowhere, so `Post` finds nobody owed it, and no second
  handler carries a message, so serving one recipient settles what is owed to
  them. `HeldMessagesWereServed` carries an invariant over that holds in any
  implementation.

* `ChatClientProofs`. `ClientInv` is `Sound(client)`, the types, and that nothing
  runs before `initialize`. `Sound` adds `HeldIsInUse` to the three properties: while
  the client holds a socket, its state is `connecting`, `connected` or
  `reconnecting`. This is why `connect` never replaces a socket: a late `hello-ack`
  or close event changes the state, but the one leaves it in use and the other
  lets the socket go. Without it, `connect` might open a second socket while the
  hello timer of the first still runs. The lemmas follow the calls:
  what `close` and `closeSocket` do, that `disconnect` makes any client quiet, that
  `connect` keeps a sound one sound, then the events and the service's calls.
  `Sound` also has `TimersRun`: an opened socket the client holds has its heartbeat, and its
  hello timer until an ack has come, so the timers that `HelloIsAnswered` and
  `SilentPeerIsDropped` wait for run. `RetriesAreKept` is the safety half of
  `LossIsRetried`, an action property: no step reuses the slot of an ended socket
  or changes the configuration it captured before its close event; that event schedules
  the reconnect if both configurations want it and the client is to be online; and
  only a socket that is opened, or a disconnect, takes the reconnect away.

* `ChatServiceProofs`. `ServiceInv` is the types and `RetentionHolds`,
  `MessagesHaveConversation`, `SendersAreKnown`, with what waiting handlers bring along
  (`WaitOf`): a direct message still to be stored has a known sender, and one computed
  before its await is a group's. Without it a resumed handler might store a message
  nobody knows the sender of.
* `ChatServiceMessageProofs`. `MessagesInv` says of every waiting handler what its
  values still mean (`Fits`): an incoming message to be stored is neither stored nor
  trimmed, cleared, nor acknowledged by a receipt; the messages `openConversation` is to send receipts for
  are received, and read if still stored. `Apart` says that no other
  handler carries a message one is to store. `SeenFits` relates the ids in use to the
  store. `CountInv` counts unread *or trimmed* messages as one set, which is
  stronger than `UnreadIsJustified` and, unlike it, inductive: trimming
  an unread message moves it from one part to the other. `Follows` is an invariant of
  its own: with no `hello-ack` waiting the groups are what was told, otherwise
  the last one waiting will make them so. `MessagesGoForward` is the refinement of
  `MessageLife`. An invariant says nothing about an earlier state, so the step lemmas also
  establish `Moved`: what is cleared, trimmed or acknowledged stays so, and a
  message leaves the store only for one of these. With `Fits`, by which a handler never
  stores what was there before, the phases go forward; `ReceiptsAreForReadMessages` is
  what the abstract specification's senders may rely on.
* `HistoryFilesProofs`. `OrderInv` orders the numbers: acknowledged, file, the write
  under way, the waiting writes from first to last, memory; and once a waiting write
  refers to the live array all later ones do. Every step then maps to a step of
  `DurableCache` or a stutter (`FilesImplementDurableCache`).
* `HistoryContentProofs`. `Normalized` gives the limit and the conversations.
  `ClearInv`: what was cleared, or is to be acknowledged as cleared, and was not
  stored again, is in no array a later write will store. `LegacyInv`: the messages of a
  renamed `history.json` are in memory and in every waiting write, and once one write of
  `messages.json` has stored them (`~unwritten`) in that file, whatever fails later.
  `SavedInv`: the last
  waiting write always refers to the live arrays, so when it ends the files hold
  what memory holds.

Each invariance proof has one lemma per action, or kind of step, that can disturb it and
one for the steps that cannot, put together in a step lemma; the temporal theorems
close with PTL.

Proved are all invariants and the safety action properties of the passing runs, and
the three refinements (`FilesAreDurable`, `MessagesAreFannedOut`, `ReceivedGoForward`). Only model-checked: the eight liveness properties (`HandlersFinish`,
`LostConnectionsAreReaped`, `MessageReachesRoute`, `LossIsRetried`,
`HelloIsAnswered`, `SilentPeerIsDropped`, `ReceivedIsStored`, `OpenIsRead`; liveness
under fairness is out of the prover's reach) and the five violations. Of six of them the
safety half is proved: `SomebodyIsLeft` and `FanoutsOnlyShrink`, `TimersRun`,
`RetriesAreKept`, `NothingIsLost` and `ActiveIsRead` (an unread message of the open
conversation has a handler that will read it, or a reason).

## 6. Not modelled

* `groups.json` and `users.json`: written by the same `persist` as the history's two
  files, loaded by a simpler `load`. The operations on the two caches and the waiting
  for their writes are in `ChatService`.
* Several VS Code windows over one storage directory: each has its stores, and the
  last writer wins.
* `ChatClient.reconnect()` (no caller) and invalid server addresses.
* Address parsing, binding, HTTP upgrade, serialisation: I/O and libraries.
* Timestamps, titles, previews and the order of messages and conversations in the
  view; notifications, texts and the webview.
* User ids with `:` (the setting `lanTextChat.userId` allows them), for which the id
  of a direct conversation is not the unordered pair.
* Packets written by anything but the extension or the server. The models take the
  packets their code can send, and of those of the protocol that the extension never
  sends (`models.rs`, `types.ts`) `join-group` and member lists that set or remove.

## 7. What could follow

1. `ConversationId`: `direct_conversation_id` and its parser as functions, against
   a reference definition over short ids.
2. A composition of `ChatServer` with `ChatService`: `told[c]`, the fold of a
   queue, would become the queue itself, and the inputs of `ChatService` its packets.
