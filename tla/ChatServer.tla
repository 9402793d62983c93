----------------------------- MODULE ChatServer -----------------------------
(***************************************************************************)
(* The Rust chat server (lan-text-chat-server/src/ws.rs and state.rs): one  *)
(* task per WebSocket, all of them sharing one AppState behind a tokio      *)
(* RwLock.                                                                  *)
(*                                                                          *)
(* A task handles one packet at a time.  Handling has two parts: one        *)
(* critical section under the write lock (no await inside, so one step      *)
(* here), and then a fan-out under the read lock.  Several fan-outs may     *)
(* hold the read lock together and interleave recipient by recipient; a     *)
(* critical section waits until none holds it.  Between its commit and its  *)
(* fan-out a task holds no lock, so any other task may commit or fan out    *)
(* there.                                                                   *)
(*                                                                          *)
(* Each connection has an unbounded FIFO queue drained in order by its      *)
(* writer task.  told[c] is the fold of everything ever queued on c: what   *)
(* an extension that reads its packets in order ends up knowing.            *)
(*                                                                          *)
(* Names, previews and texts are abstract; timestamps and addresses are     *)
(* left out.  User ids and message ids are UUIDs the extension makes         *)
(* (utils.ts uuid): without ':', and those of messages never reused.        *)
(***************************************************************************)
EXTENDS Naturals, FiniteSets

CONSTANTS
  Users,        \* user ids: the extensions' clientId
  Conns,        \* connection slots: WebSockets open at the same time
  GroupIds,     \* ids create_group can produce (uuid_like)
  MessageIds,   \* message ids the extensions can produce
  GroupNames,   \* group names
  Memberships,  \* the member lists a creation or an addition may carry
  ProtocolLists,\* those an update may set or take out (memberUserIds and
                \* removeMemberUserIds): requests the extension never sends
  None

VARIABLES
  clients,      \* AppState.clients: the connection a user's packets go to
  users,        \* AppState.users: presence, "absent" when never registered
  groups,       \* AppState.groups
  groupConvs,   \* AppState.conversations of type group
  directConvs,  \* AppState.conversations of type direct: the last message
  messages,     \* AppState.messages
  issued,       \* ids that exist or have existed, outside the process
  link,         \* the socket and its task
  registered,   \* handle_socket's registered_user_id
  pc,           \* where the task's handler is
  rcpt,         \* whom its fan-out still has to serve
  packet,       \* the packet it fans out
  told          \* what the connection's queue has told its extension

registry == <<clients, users>>
store    == <<groups, groupConvs, directConvs, messages, issued>>
sockets  == <<link, registered>>
tasks    == <<pc, rcpt, packet>>
vars     == <<registry, store, sockets, tasks, told>>

----------------------------------------------------------------------------
\* Shapes of the data

Group         == [name : GroupNames, owner : Users, members : SUBSET Users]
GroupConv     == [title : GroupNames, preview : MessageIds \cup {None}]
StoredMessage == [from : Users, to : Users \cup {None}, readBy : SUBSET Users]
DirectPairs   == {{a, b} : a \in Users, b \in Users}

\* ServerMessage: user-online and user-offline; direct-message and
\* group-message; group-created, group-updated (the group) and group-deleted
\* (None); read-receipt.
Presence(u, on)  == [type |-> "presence", user |-> u, online |-> on]
Chat(m)          == [type |-> "chat", message |-> m]
GroupIs(g, x)    == [type |-> "group", group |-> g, content |-> x]
Receipt(m, u)    == [type |-> "receipt", message |-> m, reader |-> u]
ServerMessage ==
       [type : {"presence"}, user : Users, online : BOOLEAN]
  \cup [type : {"chat"}, message : MessageIds]
  \cup [type : {"group"}, group : GroupIds, content : Group \cup {None}]
  \cup [type : {"receipt"}, message : MessageIds, reader : Users]

View == [acked : BOOLEAN, online : SUBSET Users,
         groups : [GroupIds -> Group \cup {None}], previews : SUBSET MessageIds,
         chats : SUBSET MessageIds]
Blank == [acked |-> FALSE, online |-> {}, groups |-> [g \in GroupIds |-> None],
          previews |-> {}, chats |-> {}]

\* Mutant of Tell: a chat packet is not queued.
TellWithoutChat(v, p) ==
  IF p.type = "group" THEN [v EXCEPT !.groups[p.group] = p.content] ELSE v

\* How packet p changes what the reader of a queue knows.  Receipts are not
\* kept: what matters of them here is decided before they are queued.
Tell(v, p) ==
  CASE p.type = "presence" ->
         [v EXCEPT !.online = IF p.online THEN @ \cup {p.user} ELSE @ \ {p.user}]
    [] p.type = "chat"     -> [v EXCEPT !.chats = @ \cup {p.message}]
    [] p.type = "group"    -> [v EXCEPT !.groups[p.group] = p.content]
    [] p.type = "receipt"  -> v

\* The values of the constants: None is none of the values it stands beside.
ASSUME NoneIsFresh ==
  /\ None \notin Users \cup Conns \cup GroupNames \cup MessageIds
  /\ None \notin Group /\ None \notin GroupConv
  /\ None \notin StoredMessage /\ None \notin ServerMessage
ASSUME InputsAreSets ==
  /\ Memberships \subseteq SUBSET Users
  /\ ProtocolLists \subseteq SUBSET Users
  /\ GroupIds \cap MessageIds = {}

TypeOK ==
  /\ clients \in [Users -> Conns \cup {None}]
  /\ users \in [Users -> {"absent", "online", "offline"}]
  /\ groups \in [GroupIds -> Group \cup {None}]
  /\ groupConvs \in [GroupIds -> GroupConv \cup {None}]
  /\ directConvs \in [DirectPairs -> MessageIds \cup {None}]
  /\ messages \in [MessageIds -> StoredMessage \cup {None}]
  /\ issued \in SUBSET (GroupIds \cup MessageIds)
  /\ link \in [Conns -> {"unused", "open", "lost", "leaving", "panicked"}]
  /\ registered \in [Conns -> Users \cup {None}]
  /\ pc \in [Conns -> {"idle", "broadcast", "send", "sending"}]
  /\ rcpt \in [Conns -> SUBSET Users]
  /\ packet \in [Conns -> ServerMessage \cup {None}]
  /\ told \in [Conns -> View]

----------------------------------------------------------------------------
\* Views of the state (state.rs)

\* Mutant of GroupsForUser: only the groups u owns.
OwnedGroups(u) ==
  [g \in GroupIds |-> IF groups[g] # None /\ u = groups[g].owner
                        THEN groups[g] ELSE None]

\* groups_for_user and conversations_for_user: what hello-ack hands to u.  A
\* conversation is represented by the message its preview shows.
GroupsForUser(u) ==
  [g \in GroupIds |-> IF groups[g] # None /\ u \in groups[g].members
                        THEN groups[g] ELSE None]
ConversationsForUser(u) ==
  {m \in MessageIds :
     \/ \E p \in DirectPairs : u \in p /\ directConvs[p] = m
     \/ \E g \in GroupIds : /\ groups[g] # None /\ groupConvs[g] # None
                            /\ u \in groups[g].members
                            /\ groupConvs[g].preview = m}

\* Mutants of HelloAck: it is queued after the lock is released, if at all;
\* and it leaves the conversations out.
HelloAckUnsent(v, u, online) == v
HelloAckWithoutConversations(v, u, online) ==
  [v EXCEPT !.acked = TRUE, !.online = online, !.groups = GroupsForUser(u)]

\* What hello-ack makes of what the reader of its queue knew.
HelloAck(v, u, online) ==
  [v EXCEPT !.acked = TRUE, !.online = online,
            !.groups = GroupsForUser(u), !.previews = ConversationsForUser(u)]

\* Mutant of UpdatedMembers: the owner is not put back.
MembersWithoutOwner(group, ids, adds, removes) ==
  ((IF ids = None THEN group.members ELSE ids)
     \cup (IF adds = None THEN {} ELSE adds))
  \ (IF removes = None THEN {} ELSE removes)

\* The member list update_group computes; an absent list is None.
UpdatedMembers(group, ids, adds, removes) ==
  LET base    == IF ids = None THEN group.members ELSE ids
      added   == IF adds = None THEN {} ELSE adds
      removed == IF removes = None THEN {} ELSE removes
  IN  ((base \cup added) \ removed) \cup {group.owner}

----------------------------------------------------------------------------
\* The lock and the handlers' common parts

\* The write lock can be taken: no fan-out holds the read lock.
CanWrite == \A c \in Conns : pc[c] # "sending"

\* Mutant of Fresh: an id is free again once nothing is stored under it.
NotStored(id) == IF id \in GroupIds THEN groups[id] = None ELSE messages[id] = None

\* Ids are UUIDs, or the time in nanoseconds read under the write lock.
Fresh(id) == id \notin issued

\* Task c is about to handle the next packet of its socket.
Ready(c) == link[c] = "open" /\ pc[c] = "idle"

\* Mutant of Dispatch: every user is served.
DispatchToUsers(c, to, p) ==
  /\ pc' = [pc EXCEPT ![c] = "send"]
  /\ rcpt' = [rcpt EXCEPT ![c] = Users]
  /\ packet' = [packet EXCEPT ![c] = p]

\* The end of a critical section whose fan-out is send_to_users(to, p).
Dispatch(c, to, p) ==
  /\ pc' = [pc EXCEPT ![c] = "send"]
  /\ rcpt' = [rcpt EXCEPT ![c] = to]
  /\ packet' = [packet EXCEPT ![c] = p]

\* The end of a critical section whose fan-out is broadcast(p).
DispatchToAll(c, p) ==
  /\ pc' = [pc EXCEPT ![c] = "broadcast"]
  /\ packet' = [packet EXCEPT ![c] = p]
  /\ UNCHANGED rcpt

----------------------------------------------------------------------------
\* Sockets

Init ==
  /\ clients = [u \in Users |-> None]
  /\ users = [u \in Users |-> "absent"]
  /\ groups = [g \in GroupIds |-> None]
  /\ groupConvs = [g \in GroupIds |-> None]
  /\ directConvs = [p \in DirectPairs |-> None]
  /\ messages = [m \in MessageIds |-> None]
  /\ issued = {}
  /\ link = [c \in Conns |-> "unused"]
  /\ registered = [c \in Conns |-> None]
  /\ pc = [c \in Conns |-> "idle"]
  /\ rcpt = [c \in Conns |-> {}]
  /\ packet = [c \in Conns |-> None]
  /\ told = [c \in Conns |-> Blank]

\* An extension connects: handle_socket starts with an empty queue.
Accept(c) ==
  /\ link[c] = "unused"
  /\ link' = [link EXCEPT ![c] = "open"]
  /\ UNCHANGED <<registry, store, registered, tasks, told>>

\* The last packet of the socket has been read and the next receiver.next()
\* will return an error or the end of the stream; a handler may be under way.
\* The server has no timeout of its own, so this happens when it happens.
LoseConnection(c) ==
  /\ link[c] = "open"
  /\ link' = [link EXCEPT ![c] = "lost"]
  /\ UNCHANGED <<registry, store, registered, tasks, told>>

\* hello: the route moves to this connection and hello-ack is queued before
\* the lock is released.  A socket belongs to one extension instance, so it
\* never says hello for a second user.
RegisterUser(c, u) ==
  /\ Ready(c) /\ CanWrite
  /\ registered[c] \in {None, u}
  /\ registered' = [registered EXCEPT ![c] = u]
  /\ clients' = [clients EXCEPT ![u] = c]
  /\ users' = [users EXCEPT ![u] = "online"]
  /\ told' = [told EXCEPT ![c] =
                HelloAck(@, u, {v \in Users : users'[v] = "online"})]
  /\ DispatchToAll(c, Presence(u, TRUE))
  /\ UNCHANGED <<store, link>>

\* Mutants of MarkUserOffline: for a socket that never said hello; leaving the
\* route in place; and only where the route is still this connection.
MarkAnyoneOffline(c) ==
  /\ link[c] = "lost" /\ pc[c] = "idle" /\ CanWrite
  /\ link' = [link EXCEPT ![c] = "leaving"]
  /\ DispatchToAll(c, Presence(registered[c], FALSE))
  /\ UNCHANGED <<registry, store, registered, told>>
MarkOfflineKeepingRoute(c) ==
  /\ link[c] = "lost" /\ pc[c] = "idle" /\ CanWrite
  /\ registered[c] # None
  /\ link' = [link EXCEPT ![c] = "leaving"]
  /\ users' = [users EXCEPT ![registered[c]] = "offline"]
  /\ DispatchToAll(c, Presence(registered[c], FALSE))
  /\ UNCHANGED <<clients, store, registered, told>>
MarkOwnRouteOffline(c) ==
  /\ registered[c] # None /\ clients[registered[c]] = c
  /\ MarkAnyoneOffline(c)

\* The read loop ended and the socket was registered.
MarkUserOffline(c) ==
  /\ link[c] = "lost" /\ pc[c] = "idle" /\ CanWrite
  /\ registered[c] # None
  /\ link' = [link EXCEPT ![c] = "leaving"]
  /\ clients' = [clients EXCEPT ![registered[c]] = None]
  /\ users' = [users EXCEPT ![registered[c]] =
                 IF @ = "absent" THEN @ ELSE "offline"]
  /\ DispatchToAll(c, Presence(registered[c], FALSE))
  /\ UNCHANGED <<store, registered, told>>

\* The task has nothing left to do, or it panicked and no route holds its
\* queue any longer: the queue is dropped and the slot is free.
DropConnection(c) ==
  /\ pc[c] = "idle"
  /\ \/ link[c] = "lost" /\ registered[c] = None
     \/ link[c] = "leaving"
     \/ link[c] = "panicked" /\ \A u \in Users : clients[u] # c
  /\ link' = [link EXCEPT ![c] = "unused"]
  /\ registered' = [registered EXCEPT ![c] = None]
  /\ told' = [told EXCEPT ![c] = Blank]
  /\ UNCHANGED <<registry, store, tasks>>

\* The server process is killed and started again: everything is in memory.
Restart ==
  /\ clients' = [u \in Users |-> None]
  /\ users' = [u \in Users |-> "absent"]
  /\ groups' = [g \in GroupIds |-> None]
  /\ groupConvs' = [g \in GroupIds |-> None]
  /\ directConvs' = [p \in DirectPairs |-> None]
  /\ messages' = [m \in MessageIds |-> None]
  /\ link' = [c \in Conns |-> "unused"]
  /\ registered' = [c \in Conns |-> None]
  /\ pc' = [c \in Conns |-> "idle"]
  /\ rcpt' = [c \in Conns |-> {}]
  /\ packet' = [c \in Conns |-> None]
  /\ told' = [c \in Conns |-> Blank]
  /\ UNCHANGED issued

----------------------------------------------------------------------------
\* Fan-out

\* broadcast reads the keys of clients under a read lock of its own.
Broadcast(c) ==
  LET routed == {u \in Users : clients[u] # None}
  IN  /\ pc[c] = "broadcast"
      /\ pc' = [pc EXCEPT ![c] = IF routed = {} THEN "idle" ELSE "send"]
      /\ rcpt' = [rcpt EXCEPT ![c] = routed]
      /\ packet' = IF routed = {} THEN [packet EXCEPT ![c] = None] ELSE packet
      /\ UNCHANGED <<registry, store, sockets, told>>

\* Mutant of Remaining: a recipient that was served is not struck off.
RemainingUnseen(c, u) == rcpt[c]

\* Whom c's fan-out still has to serve after u: the seen set of send_to_users.
Remaining(c, u) == rcpt[c] \ {u}

\* Mutant of SendToUser: without the seen set, a user that occurs again in the
\* list is served again.
SendWithoutSeen(c, u) ==
  \E again \in {{}, {u}} :
    LET rest == Remaining(c, u) \cup again
    IN  /\ pc[c] \in {"send", "sending"} /\ u \in rcpt[c]
        /\ told' = IF clients[u] = None THEN told
                   ELSE [told EXCEPT ![clients[u]] = Tell(@, packet[c])]
        /\ pc' = [pc EXCEPT ![c] = IF rest = {} THEN "idle" ELSE "sending"]
        /\ rcpt' = [rcpt EXCEPT ![c] = rest]
        /\ packet' = IF rest = {} THEN [packet EXCEPT ![c] = None] ELSE packet
        /\ UNCHANGED <<registry, store, sockets>>

\* send_to_user_locked for one recipient of c's fan-out: to the connection
\* that is the recipient's route now, or to nobody.  The read lock is taken
\* with the first recipient and released with the last.
SendToUser(c, u) ==
  LET last == Remaining(c, u) = {}
  IN  /\ pc[c] \in {"send", "sending"} /\ u \in rcpt[c]
      /\ told' = IF clients[u] = None THEN told
                 ELSE [told EXCEPT ![clients[u]] = Tell(@, packet[c])]
      /\ pc' = [pc EXCEPT ![c] = IF last THEN "idle" ELSE "sending"]
      /\ rcpt' = [rcpt EXCEPT ![c] = Remaining(c, u)]
      /\ packet' = IF last THEN [packet EXCEPT ![c] = None] ELSE packet
      /\ UNCHANGED <<registry, store, sockets>>

----------------------------------------------------------------------------
\* Messages

\* truncate_preview cuts a long text at byte 117.  Where that is inside a
\* character (~cuttable) the slice panics: the task ends inside its critical
\* section, after messages.push and before the conversation is written.  Its
\* read loop is gone and nobody will run mark_user_offline, but its queue and
\* writer live on.
PanicInPreview(c) ==
  /\ link' = [link EXCEPT ![c] = "panicked"]
  /\ UNCHANGED <<groupConvs, directConvs, tasks>>

RouteDirectMessage(c, m, from, to, cuttable) ==
  /\ Ready(c) /\ CanWrite
  /\ registered[c] # None /\ from # to
  /\ Fresh(m)
  /\ issued' = issued \cup {m}
  /\ messages' = [messages EXCEPT ![m] = [from |-> from, to |-> to, readBy |-> {}]]
  /\ \/ ~cuttable /\ PanicInPreview(c)
     \/ /\ cuttable
        /\ directConvs' = [directConvs EXCEPT ![{from, to}] = m]
        /\ Dispatch(c, {to}, Chat(m))
        /\ UNCHANGED <<groupConvs, link>>
  /\ UNCHANGED <<registry, groups, registered, told>>

RouteGroupMessage(c, m, g, from, cuttable) ==
  /\ Ready(c) /\ CanWrite
  /\ registered[c] # None
  /\ groups[g] # None /\ from \in groups[g].members
  /\ Fresh(m)
  /\ issued' = issued \cup {m}
  /\ messages' = [messages EXCEPT ![m] = [from |-> from, to |-> None, readBy |-> {}]]
  /\ \/ ~cuttable /\ PanicInPreview(c)
     \/ /\ cuttable
        /\ groupConvs' = [groupConvs EXCEPT ![g] =
                            [title |-> groups[g].name, preview |-> m]]
        /\ Dispatch(c, groups[g].members, Chat(m))
        /\ UNCHANGED <<directConvs, link>>
  /\ UNCHANGED <<registry, groups, registered, told>>

\* Mutant of WithReader: only the addressee of a direct message is recorded.
WithAddressee(m, reader) ==
  IF messages[m] = None \/ messages[m].to # reader THEN messages
  ELSE [messages EXCEPT ![m].readBy = @ \cup {reader}]

\* messages once reader is in the read_by of m; an unknown m changes nothing.
WithReader(m, reader) ==
  IF messages[m] = None THEN messages
  ELSE [messages EXCEPT ![m].readBy = @ \cup {reader}]

\* A receipt names the message, the kind of conversation (direct, or the
\* group g) and its reader.  No hello is required of the socket.  A message
\* the server does not know (any more) is not recorded, and the receipt then
\* goes back to its reader.
RouteReadReceipt(c, m, conv, reader) ==
  LET recipients ==
        CASE conv = None /\ messages[m] # None ->
               Users \cap {messages[m].from, messages[m].to}
          [] conv # None /\ groups[conv] # None -> groups[conv].members
          [] OTHER -> {reader}
  IN  /\ Ready(c) /\ CanWrite
      /\ m \in issued
      /\ messages' = WithReader(m, reader)
      /\ Dispatch(c, recipients, Receipt(m, reader))
      /\ UNCHANGED <<registry, groups, groupConvs, directConvs, issued, sockets, told>>

----------------------------------------------------------------------------
\* Groups

\* groups.insert followed by upsert_group_conversation without a preview.
StoreGroup(g, group) ==
  /\ groups' = [groups EXCEPT ![g] = group]
  /\ groupConvs' = [groupConvs EXCEPT ![g] = [title |-> group.name, preview |-> None]]

CreateGroup(c, g, name, ids) ==
  LET group == [name |-> name, owner |-> registered[c],
                members |-> ids \cup {registered[c]}]
  IN  /\ Ready(c) /\ CanWrite
      /\ registered[c] # None
      /\ Fresh(g)
      /\ issued' = issued \cup {g}
      /\ StoreGroup(g, group)
      /\ Dispatch(c, group.members, GroupIs(g, group))
      /\ UNCHANGED <<registry, directConvs, messages, sockets, told>>

\* update_group: an absent name or list is None.  No hello is required, and
\* the fan-out goes to the members the group has afterwards.
UpdateGroup(c, g, name, ids, adds, removes) ==
  LET group == [name |-> IF name = None THEN groups[g].name ELSE name,
                owner |-> groups[g].owner,
                members |-> UpdatedMembers(groups[g], ids, adds, removes)]
  IN  /\ Ready(c) /\ CanWrite
      /\ groups[g] # None
      /\ StoreGroup(g, group)
      /\ Dispatch(c, group.members, GroupIs(g, group))
      /\ UNCHANGED <<registry, directConvs, messages, issued, sockets, told>>

JoinGroup(c, g) ==
  /\ registered[c] # None
  /\ UpdateGroup(c, g, None, None, {registered[c]}, None)

LeaveGroup(c, g) ==
  /\ registered[c] # None
  /\ UpdateGroup(c, g, None, None, None, {registered[c]})

DeleteGroup(c, g) ==
  /\ Ready(c) /\ CanWrite
  /\ groups[g] # None
  /\ groups' = [groups EXCEPT ![g] = None]
  /\ groupConvs' = [groupConvs EXCEPT ![g] = None]
  /\ Dispatch(c, groups[g].members, GroupIs(g, None))
  /\ UNCHANGED <<registry, directConvs, messages, issued, sockets, told>>

\* Packets that change no shared state and answer, if at all, on the socket
\* they came from: ping, typing, undecodable text, and the requests refused
\* with NOT_REGISTERED, CANNOT_MESSAGE_SELF, GROUP_NOT_FOUND or
\* NOT_GROUP_MEMBER.
AnswerRequester(c) ==
  /\ Ready(c)
  /\ UNCHANGED vars

----------------------------------------------------------------------------
\* An extension signs its messages and receipts with its own id and sends
\* nothing before hello-ack (chatService.ts, chatClient.ts); the server's own
\* checks remain in the actions.  A request may name any group: the ids come from
\* groups.json and the conversations, which outlive the socket, the membership and
\* a change of clientId, and are shared by the windows of a profile.  Setting or
\* removing members and join-group are protocol only (models.rs, types.ts).
ExtensionRequest(c) ==
  /\ registered[c] # None
  /\ \/ \E m \in MessageIds, cuttable \in BOOLEAN :
          \/ \E to \in Users : RouteDirectMessage(c, m, registered[c], to, cuttable)
          \/ \E g \in GroupIds : RouteGroupMessage(c, m, g, registered[c], cuttable)
     \/ \E m \in MessageIds, conv \in (GroupIds \cap issued) \cup {None} :
          RouteReadReceipt(c, m, conv, registered[c])
     \/ \E g \in GroupIds :
          \/ \E name \in GroupNames, ids \in Memberships : CreateGroup(c, g, name, ids)
          \/ \E name \in GroupNames \cup {None}, adds \in Memberships \cup {None},
                ids, removes \in ProtocolLists \cup {None} :
               UpdateGroup(c, g, name, ids, adds, removes)
          \/ JoinGroup(c, g)
          \/ LeaveGroup(c, g)
          \/ DeleteGroup(c, g)

Next ==
  \/ \E c \in Conns :
       \/ Accept(c) \/ LoseConnection(c) \/ MarkUserOffline(c) \/ DropConnection(c)
       \/ \E u \in Users : RegisterUser(c, u)
       \/ Broadcast(c)
       \/ \E u \in Users : SendToUser(c, u)
       \/ ExtensionRequest(c)
       \/ AnswerRequester(c)
  \/ Restart

Spec == Init /\ [][Next]_vars

\* A task that holds or waits for the read lock is scheduled; tokio's RwLock
\* is first come first served, so a task that waits for the write lock gets
\* it although others keep using the lock.
Fairness ==
  \A c \in Conns :
    /\ WF_vars(Broadcast(c))
    /\ WF_vars(\E u \in Users : SendToUser(c, u))
    /\ SF_vars(MarkUserOffline(c))
    /\ WF_vars(DropConnection(c))

FairSpec == Spec /\ Fairness

----------------------------------------------------------------------------
\* Properties of the registry

\* A user is shown online exactly while a connection is registered as its
\* route (state.clients and state.users change together in register_user and
\* mark_user_offline).
OnlineMatchesRoutes == \A u \in Users : users[u] = "online" <=> clients[u] # None

\* A route leads to the queue of a connection of that very user that has not
\* been dropped, whatever the order in which connections of one user come and
\* go.
RouteIsLive ==
  \A u \in Users, c \in Conns :
    clients[u] = c => registered[c] = u /\ link[c] \in {"open", "lost", "panicked"}

\* The first thing a connection is ever told is hello-ack: no fan-out finds
\* the route before the ack is queued (register_user queues it before the
\* write lock is released).
HelloAckComesFirst == \A c \in Conns : told[c].acked \/ told[c] = Blank

\* The user of a registered, open connection with nothing in progress is
\* online (README: the server is the source of truth for online users).
ConnectedUserIsOnline ==
  \A c \in Conns :
    (link[c] = "open" /\ pc[c] = "idle" /\ registered[c] # None)
      => users[registered[c]] = "online"

----------------------------------------------------------------------------
\* Properties of groups

\* Whatever sequence of updates a group went through, its owner is a member
\* and its conversation entry exists and carries its current name; a deleted
\* group has no conversation left.
GroupsAreConsistent ==
  \A g \in GroupIds :
    /\ (groups[g] = None) <=> (groupConvs[g] = None)
    /\ groups[g] # None => /\ groups[g].owner \in groups[g].members
                           /\ groupConvs[g].title = groups[g].name

\* A group that was deleted, or lost with the process, never comes back under
\* its id, although update_group stores a modified copy of the group it read.
DeletedStaysDeleted ==
  [][\A g \in GroupIds : g \in issued /\ groups[g] = None => groups'[g] = None]_vars

Announced(u, g) ==
  \E d \in Conns : /\ u \in rcpt[d] /\ packet[d].type = "group"
                   /\ packet[d].group = g /\ packet[d].content # None

\* A member with a route knows of its group, or a fan-out under way is about
\* to tell it: no interleaving of hello, membership changes and fan-outs
\* leaves a connected member ignorant of a group.
NoMissedGroup ==
  \A u \in Users, g \in GroupIds :
    (clients[u] # None /\ groups[g] # None /\ u \in groups[g].members)
      => told[clients[u]].groups[g] # None \/ Announced(u, g)

Quiet == \A c \in Conns : pc[c] = "idle"

\* With no fan-out under way, what a connected member was told of its group is
\* the group (README: the server is the source of truth for group membership).
ToldGroupIsCurrent ==
  Quiet => \A u \in Users, g \in GroupIds :
    (clients[u] # None /\ groups[g] # None /\ u \in groups[g].members)
      => told[clients[u]].groups[g] \in {None, groups[g]}

\* With no fan-out under way, a connected user that was told of a group that still
\* exists is a member of it: who left or was removed has been told so (TESTING.md:
\* group mutations require server confirmation).
LeaverIsTold ==
  Quiet => \A u \in Users, g \in GroupIds :
    (clients[u] # None /\ groups[g] # None /\ told[clients[u]].groups[g] # None)
      => u \in groups[g].members

----------------------------------------------------------------------------
\* Properties of messages

Addressed(u, m) == \E d \in Conns : u \in rcpt[d] /\ packet[d] = Chat(m)
Learned(u, m)   == m \in told[clients[u]].chats \cup told[clients[u]].previews

\* The message a conversation shows as its last one has reached every routed
\* participant: as a packet, in the preview of its hello-ack, or by a fan-out
\* under way.  So no interleaving of hello with a routed message loses it.
NoMissedMessage ==
  \A u \in Users, m \in MessageIds :
    (clients[u] # None /\ m \in ConversationsForUser(u))
      => Learned(u, m) \/ Addressed(u, m) \/ messages[m].from = u

\* A message is queued at most once on any connection of a recipient: while a
\* fan-out still owes m to u no connection of u holds m, and no second
\* fan-out carries m.
DeliveredAtMostOnce ==
  \A c \in Conns, m \in MessageIds :
    packet[c] = Chat(m) =>
      /\ \A d \in Conns : packet[d] = Chat(m) => d = c
      /\ \A d \in Conns : registered[d] \in rcpt[c] => m \notin told[d].chats

\* A receipt that is fanned out is recorded in the message it is about, while
\* the server stores that message.
ReceiptsAreRecorded ==
  \A c \in Conns, m \in MessageIds, u \in Users :
    (packet[c] = Receipt(m, u) /\ messages[m] # None) => u \in messages[m].readBy

\* Of each message the server keeps the promise of MessageFanout: its
\* recipients are settled when it is committed, whatever becomes of the group or
\* of connections before its fan-out ends, and each is served at most once,
\* through one of its own connections.
Delivery == INSTANCE MessageFanout WITH
  Queues <- Conns, Groups <- GroupIds, Messages <- MessageIds,
  sent    <- issued \cap MessageIds,
  owed    <- [m \in MessageIds |-> {u \in Users : Addressed(u, m)}],
  reader  <- registered,
  held    <- [c \in Conns |-> told[c].chats],
  members <- [g \in GroupIds |-> IF groups[g] = None THEN {} ELSE groups[g].members]

MessagesAreFannedOut == Delivery!Spec

----------------------------------------------------------------------------
\* Liveness

\* Every handler returns to its read loop: no fan-out waits for ever.
HandlersFinish == \A c \in Conns : pc[c] # "idle" ~> pc[c] = "idle"

\* A connection the server lost is cleaned up, even while its handler was
\* busy and other tasks keep the lock in use.
LostConnectionsAreReaped == \A c \in Conns : link[c] = "lost" ~> link[c] = "unused"

\* A message under way to a user reaches the connection that is the user's
\* route, or that connection ceases to be the route.
MessageReachesRoute ==
  \A u \in Users, c \in Conns, m \in MessageIds :
    (Addressed(u, m) /\ clients[u] = c) ~> (m \in told[c].chats \/ clients[u] # c)

\* A user whose connection's task is gone is eventually shown offline or
\* connects again (README: the server is the source of truth for online
\* users).
DeadTaskGoesOffline ==
  \A u \in Users, c \in Conns :
    (clients[u] = c /\ link[c] = "panicked") ~> clients[u] # c

=============================================================================
