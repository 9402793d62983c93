-------------------------- MODULE ChatServerProofs --------------------------
(***************************************************************************)
(* Theorems about ChatServer, for every set of users, connections, ids and  *)
(* names.  Each invariant is proved from an inductive strengthening: the    *)
(* type invariant with the handlers' state first, then the registry, then   *)
(* groups and messages, each resting on the ones before it.                 *)
(***************************************************************************)
EXTENDS ChatServer, TLAPS

\* A handler carries a packet exactly while it is not idle, and recipients
\* only once it has them; what it broadcasts is presence.
HandlersOK ==
  \A c \in Conns : /\ pc[c] = "idle" <=> packet[c] = None
                   /\ pc[c] \in {"idle", "broadcast"} => rcpt[c] = {}
                   /\ pc[c] = "broadcast" => packet[c].type = "presence"

TypeInv == TypeOK /\ HandlersOK

----------------------------------------------------------------------------
\* Lemmas about the operators

LEMMA BlankIsView == Blank \in View
  BY DEF Blank, View

LEMMA PacketTypes ==
  /\ \A u \in Users, b \in BOOLEAN : Presence(u, b) \in ServerMessage
  /\ \A m \in MessageIds : Chat(m) \in ServerMessage
  /\ \A g \in GroupIds, x \in Group \cup {None} : GroupIs(g, x) \in ServerMessage
  /\ \A m \in MessageIds, u \in Users : Receipt(m, u) \in ServerMessage
  BY DEF Presence, Chat, GroupIs, Receipt, ServerMessage

LEMMA TellType ==
  ASSUME NEW v \in View, NEW p \in ServerMessage
  PROVE  Tell(v, p) \in View
<1>1. CASE p \in [type : {"presence"}, user : Users, online : BOOLEAN]
  BY <1>1 DEF Tell, View
<1>2. CASE p \in [type : {"chat"}, message : MessageIds]
  BY <1>2 DEF Tell, View
<1>3. CASE p \in [type : {"group"}, group : GroupIds, content : Group \cup {None}]
  BY <1>3 DEF Tell, View
<1>4. CASE p \in [type : {"receipt"}, message : MessageIds, reader : Users]
  BY <1>4 DEF Tell, View
<1>5. QED
  BY <1>1, <1>2, <1>3, <1>4 DEF ServerMessage

LEMMA HelloAckType ==
  ASSUME TypeOK, NEW v \in View, NEW u \in Users, NEW on \in SUBSET Users
  PROVE  HelloAck(v, u, on) \in View
<1>1. GroupsForUser(u) \in [GroupIds -> Group \cup {None}]
  BY DEF GroupsForUser, TypeOK
<1>2. ConversationsForUser(u) \in SUBSET MessageIds
  BY DEF ConversationsForUser
<1>3. QED
  BY <1>1, <1>2 DEF HelloAck, View

LEMMA UpdatedMembersType ==
  ASSUME NEW group \in Group, NEW ids \in ProtocolLists \cup {None},
         NEW adds \in (SUBSET Users) \cup {None}, NEW removes
  PROVE  /\ UpdatedMembers(group, ids, adds, removes) \in SUBSET Users
         /\ group.owner \in UpdatedMembers(group, ids, adds, removes)
  BY InputsAreSets DEF UpdatedMembers, Group

\* UpdateGroup preserves the types for every request, so JoinGroup and
\* LeaveGroup do too.
LEMMA UpdateGroupType ==
  ASSUME TypeInv, NEW c \in Conns, NEW g \in GroupIds,
         NEW name \in GroupNames \cup {None}, NEW ids \in ProtocolLists \cup {None},
         NEW adds \in (SUBSET Users) \cup {None}, NEW removes,
         UpdateGroup(c, g, name, ids, adds, removes)
  PROVE  TypeInv'
<1> DEFINE group == [name |-> IF name = None THEN groups[g].name ELSE name,
                     owner |-> groups[g].owner,
                     members |-> UpdatedMembers(groups[g], ids, adds, removes)]
<1>1. groups[g] \in Group /\ groups[g] # None
  BY DEF TypeInv, TypeOK, UpdateGroup
<1>2. group \in Group
  BY <1>1, UpdatedMembersType DEF Group
<1>3. /\ StoreGroup(g, group) /\ Dispatch(c, group.members, GroupIs(g, group))
      /\ UNCHANGED <<registry, directConvs, messages, issued, sockets, told>>
  BY DEF UpdateGroup
<1>4. group.name \in GroupNames /\ group.members \in SUBSET Users
  BY <1>2 DEF Group
<1> HIDE DEF group
<1>5. GroupIs(g, group) \in ServerMessage /\ GroupIs(g, group) # None
  BY <1>2, PacketTypes, NoneIsFresh
<1>6. [title |-> group.name, preview |-> None] \in GroupConv
  BY <1>4 DEF GroupConv
<1>7. TypeOK'
  BY <1>2, <1>3, <1>4, <1>5, <1>6
     DEF TypeInv, TypeOK, StoreGroup, Dispatch, registry, sockets
<1>8. HandlersOK'
  BY <1>3, <1>5 DEF TypeInv, TypeOK, HandlersOK, Dispatch
<1>9. QED
  BY <1>7, <1>8 DEF TypeInv

LEMMA CreateGroupType ==
  ASSUME TypeInv, NEW c \in Conns, NEW g \in GroupIds,
         NEW name \in GroupNames, NEW ids \in Memberships,
         CreateGroup(c, g, name, ids)
  PROVE  TypeInv'
<1> DEFINE group == [name |-> name, owner |-> registered[c],
                     members |-> ids \cup {registered[c]}]
<1>1. group \in Group
  BY InputsAreSets DEF TypeInv, TypeOK, CreateGroup, Group
<1>2. /\ StoreGroup(g, group) /\ Dispatch(c, group.members, GroupIs(g, group))
      /\ issued' = issued \cup {g}
      /\ UNCHANGED <<registry, directConvs, messages, sockets, told>>
  BY DEF CreateGroup
<1>3. group.name \in GroupNames /\ group.members \in SUBSET Users
  BY <1>1 DEF Group
<1> HIDE DEF group
<1>4. GroupIs(g, group) \in ServerMessage /\ GroupIs(g, group) # None
  BY <1>1, PacketTypes, NoneIsFresh
<1>5. [title |-> group.name, preview |-> None] \in GroupConv
  BY <1>3 DEF GroupConv
<1>6. TypeOK'
  BY <1>1, <1>2, <1>3, <1>4, <1>5
     DEF TypeInv, TypeOK, StoreGroup, Dispatch, registry, sockets
<1>7. HandlersOK'
  BY <1>2, <1>4 DEF TypeInv, TypeOK, HandlersOK, Dispatch
<1>8. QED
  BY <1>6, <1>7 DEF TypeInv

LEMMA DirectMessageType ==
  ASSUME TypeInv, NEW c \in Conns, NEW m \in MessageIds, NEW to \in Users,
         NEW cuttable \in BOOLEAN,
         RouteDirectMessage(c, m, registered[c], to, cuttable)
  PROVE  TypeInv'
<1> DEFINE pair == {registered[c], to}
           stored == [from |-> registered[c], to |-> to, readBy |-> {}]
<1>1. /\ registered[c] \in Users
      /\ Chat(m) \in ServerMessage /\ Chat(m) # None
  BY PacketTypes, NoneIsFresh DEF TypeInv, TypeOK, RouteDirectMessage
<1>2. stored \in StoredMessage
  BY <1>1 DEF StoredMessage
<1>3. pair \in DirectPairs
  BY <1>1 DEF DirectPairs
<1>4. /\ issued' = issued \cup {m}
      /\ messages' = [messages EXCEPT ![m] = stored]
      /\ UNCHANGED <<registry, groups, registered, told>>
  BY DEF RouteDirectMessage
<1>5. \/ PanicInPreview(c)
      \/ /\ directConvs' = [directConvs EXCEPT ![pair] = m]
         /\ Dispatch(c, {to}, Chat(m))
         /\ UNCHANGED <<groupConvs, link>>
  BY DEF RouteDirectMessage
<1> HIDE DEF pair, stored
<1>6. CASE PanicInPreview(c)
  BY <1>2, <1>4, <1>6
     DEF TypeInv, TypeOK, HandlersOK, PanicInPreview, registry, tasks
<1>7. CASE /\ directConvs' = [directConvs EXCEPT ![pair] = m]
           /\ Dispatch(c, {to}, Chat(m))
           /\ UNCHANGED <<groupConvs, link>>
  <2>1. TypeOK'
    BY <1>1, <1>2, <1>3, <1>4, <1>7 DEF TypeInv, TypeOK, Dispatch, registry
  <2>2. HandlersOK'
    BY <1>1, <1>7 DEF TypeInv, TypeOK, HandlersOK, Dispatch
  <2>3. QED
    BY <2>1, <2>2 DEF TypeInv
<1>8. QED
  BY <1>5, <1>6, <1>7

LEMMA GroupMessageType ==
  ASSUME TypeInv, NEW c \in Conns, NEW m \in MessageIds, NEW g \in GroupIds,
         NEW cuttable \in BOOLEAN,
         RouteGroupMessage(c, m, g, registered[c], cuttable)
  PROVE  TypeInv'
<1> USE DEF RouteGroupMessage, TypeInv
<1>1. /\ registered[c] \in Users
      /\ Chat(m) \in ServerMessage /\ Chat(m) # None
      /\ groups[g].members \in SUBSET Users /\ groups[g].name \in GroupNames
  BY PacketTypes, NoneIsFresh DEF TypeOK, Group
<1>2. [from |-> registered[c], to |-> None, readBy |-> {}] \in StoredMessage
  BY <1>1 DEF StoredMessage
<1>3. [title |-> groups[g].name, preview |-> m] \in GroupConv
  BY <1>1 DEF GroupConv
<1>4. TypeOK'
  BY <1>1, <1>2, <1>3 DEF TypeOK, Dispatch, PanicInPreview, registry, tasks
<1>5. HandlersOK'
  BY <1>1 DEF TypeOK, HandlersOK, Dispatch, PanicInPreview, tasks
<1>6. QED
  BY <1>4, <1>5

LEMMA ReadReceiptType ==
  ASSUME TypeInv, NEW c \in Conns, NEW m \in MessageIds,
         NEW conv \in GroupIds \cup {None}, registered[c] # None,
         RouteReadReceipt(c, m, conv, registered[c])
  PROVE  TypeInv'
<1> USE DEF RouteReadReceipt, TypeInv
<1>1. /\ registered[c] \in Users
      /\ Receipt(m, registered[c]) \in ServerMessage
      /\ Receipt(m, registered[c]) # None
  BY PacketTypes, NoneIsFresh DEF TypeOK
<1>2. WithReader(m, registered[c]) \in [MessageIds -> StoredMessage \cup {None}]
  <2>1. CASE messages[m] = None
    BY <2>1 DEF WithReader, TypeOK
  <2>2. CASE messages[m] # None
    BY <1>1, <2>2 DEF WithReader, TypeOK, StoredMessage
  <2>3. QED
    BY <2>1, <2>2
<1>3. PICK to \in SUBSET Users : Dispatch(c, to, Receipt(m, registered[c]))
  <2> DEFINE to == CASE conv = None /\ messages[m] # None ->
                          Users \cap {messages[m].from, messages[m].to}
                     [] conv # None /\ groups[conv] # None -> groups[conv].members
                     [] OTHER -> {registered[c]}
  <2>1. to \in SUBSET Users
    BY <1>1 DEF TypeOK, Group
  <2>2. Dispatch(c, to, Receipt(m, registered[c]))
    OBVIOUS
  <2>3. QED
    BY <2>1, <2>2
<1>4. messages' = WithReader(m, registered[c])
      /\ UNCHANGED <<registry, groups, groupConvs, directConvs, issued, sockets, told>>
  OBVIOUS
<1> HIDE DEF RouteReadReceipt
<1>5. TypeOK'
  BY <1>1, <1>2, <1>3, <1>4 DEF TypeOK, Dispatch, registry, sockets
<1>6. HandlersOK'
  BY <1>1, <1>3, <1>4 DEF TypeOK, HandlersOK, Dispatch
<1>7. QED
  BY <1>5, <1>6

LEMMA SendToUserType ==
  ASSUME TypeInv, NEW c \in Conns, NEW u \in Users, SendToUser(c, u)
  PROVE  TypeInv'
<1>1. packet[c] \in ServerMessage
  BY DEF SendToUser, TypeInv, TypeOK, HandlersOK
<1>2. told' \in [Conns -> View]
  <2>1. CASE clients[u] = None
    BY <2>1 DEF SendToUser, TypeInv, TypeOK
  <2>2. CASE clients[u] # None
    <3>1. clients[u] \in Conns
      BY <2>2 DEF TypeInv, TypeOK
    <3>2. Tell(told[clients[u]], packet[c]) \in View
      BY <1>1, <3>1, TellType DEF TypeInv, TypeOK
    <3>3. told' = [told EXCEPT ![clients[u]] = Tell(told[clients[u]], packet[c])]
      BY <2>2 DEF SendToUser
    <3>4. QED
      BY <3>1, <3>2, <3>3 DEF TypeInv, TypeOK
  <2>3. QED
    BY <2>1, <2>2
<1>3. TypeOK'
  BY <1>2 DEF SendToUser, Remaining, TypeInv, TypeOK, registry, store, sockets
<1>4. HandlersOK'
  BY <1>1, NoneIsFresh DEF SendToUser, Remaining, TypeInv, TypeOK, HandlersOK
<1>5. QED
  BY <1>3, <1>4 DEF TypeInv

LEMMA RegisterUserType ==
  ASSUME TypeInv, NEW c \in Conns, NEW u \in Users, RegisterUser(c, u)
  PROVE  TypeInv'
<1>1. /\ Presence(u, TRUE) \in ServerMessage /\ Presence(u, TRUE) # None
      /\ Presence(u, TRUE).type = "presence"
  BY PacketTypes, NoneIsFresh DEF Presence
<1>2. told' \in [Conns -> View]
  BY HelloAckType DEF RegisterUser, TypeInv, TypeOK
<1>3. TypeOK'
  BY <1>1, <1>2 DEF RegisterUser, DispatchToAll, TypeInv, TypeOK, store
<1>4. HandlersOK'
  BY <1>1 DEF RegisterUser, DispatchToAll, Ready, TypeInv, TypeOK, HandlersOK
<1>5. QED
  BY <1>3, <1>4 DEF TypeInv

LEMMA MarkUserOfflineType ==
  ASSUME TypeInv, NEW c \in Conns, MarkUserOffline(c)
  PROVE  TypeInv'
<1>1. registered[c] \in Users
  BY DEF MarkUserOffline, TypeInv, TypeOK
<1>2. /\ Presence(registered[c], FALSE) \in ServerMessage
      /\ Presence(registered[c], FALSE) # None
      /\ Presence(registered[c], FALSE).type = "presence"
  BY <1>1, PacketTypes, NoneIsFresh DEF Presence
<1>3. TypeOK'
  BY <1>1, <1>2 DEF MarkUserOffline, DispatchToAll, TypeInv, TypeOK, store
<1>4. HandlersOK'
  BY <1>2 DEF MarkUserOffline, DispatchToAll, TypeInv, TypeOK, HandlersOK
<1>5. QED
  BY <1>3, <1>4 DEF TypeInv

LEMMA DeleteGroupType ==
  ASSUME TypeInv, NEW c \in Conns, NEW g \in GroupIds, DeleteGroup(c, g)
  PROVE  TypeInv'
<1>1. GroupIs(g, None) \in ServerMessage /\ GroupIs(g, None) # None
  BY PacketTypes, NoneIsFresh
<1>2. groups[g].members \in SUBSET Users
  BY DEF DeleteGroup, TypeInv, TypeOK, Group
<1>3. TypeOK'
  BY <1>1, <1>2
     DEF DeleteGroup, Dispatch, TypeInv, TypeOK, registry, sockets
<1>4. HandlersOK'
  BY <1>1 DEF DeleteGroup, Dispatch, TypeInv, TypeOK, HandlersOK
<1>5. QED
  BY <1>3, <1>4 DEF TypeInv

----------------------------------------------------------------------------
\* Type correctness.

LEMMA TypeInvInit == Init => TypeInv
  BY BlankIsView DEF Init, TypeInv, TypeOK, HandlersOK

LEMMA ExtensionRequestType ==
  ASSUME TypeInv, NEW c \in Conns, ExtensionRequest(c)
  PROVE  TypeInv'
<1>1. ASSUME NEW m \in MessageIds, NEW to \in Users, NEW cuttable \in BOOLEAN,
             RouteDirectMessage(c, m, registered[c], to, cuttable)
      PROVE  TypeInv'
  BY <1>1, DirectMessageType
<1>2. ASSUME NEW m \in MessageIds, NEW g \in GroupIds, NEW cuttable \in BOOLEAN,
             RouteGroupMessage(c, m, g, registered[c], cuttable)
      PROVE  TypeInv'
  BY <1>2, GroupMessageType
<1>3. ASSUME NEW m \in MessageIds, NEW conv \in (GroupIds \cap issued) \cup {None},
             RouteReadReceipt(c, m, conv, registered[c]), registered[c] # None
      PROVE  TypeInv'
  BY <1>3, ReadReceiptType
<1>4. ASSUME NEW g \in GroupIds, NEW name \in GroupNames, NEW ids \in Memberships,
             CreateGroup(c, g, name, ids)
      PROVE  TypeInv'
  BY <1>4, CreateGroupType
<1>5. ASSUME NEW g \in GroupIds, NEW name \in GroupNames \cup {None},
             NEW ids \in ProtocolLists \cup {None},
             NEW adds \in Memberships \cup {None},
             NEW removes \in ProtocolLists \cup {None},
             UpdateGroup(c, g, name, ids, adds, removes)
      PROVE  TypeInv'
  BY <1>5, UpdateGroupType, InputsAreSets
<1>6. ASSUME NEW g \in GroupIds, JoinGroup(c, g)
      PROVE  TypeInv'
  <2>1. {registered[c]} \in SUBSET Users
    BY <1>6 DEF JoinGroup, TypeInv, TypeOK
  <2>2. QED
    BY <1>6, <2>1, UpdateGroupType DEF JoinGroup
<1>7. ASSUME NEW g \in GroupIds, LeaveGroup(c, g)
      PROVE  TypeInv'
  BY <1>7, UpdateGroupType DEF LeaveGroup
<1>8. ASSUME NEW g \in GroupIds, DeleteGroup(c, g)
      PROVE  TypeInv'
  BY <1>8, DeleteGroupType
<1>9. QED
  BY <1>1, <1>2, <1>3, <1>4, <1>5, <1>6, <1>7, <1>8 DEF ExtensionRequest

LEMMA TypeInvStep == TypeInv /\ [Next]_vars => TypeInv'
<1> SUFFICES ASSUME TypeInv, [Next]_vars
             PROVE  TypeInv'
  OBVIOUS
<1>1. ASSUME NEW c \in Conns, Accept(c) \/ LoseConnection(c)
      PROVE  TypeInv'
  BY <1>1 DEF Accept, LoseConnection, TypeInv, TypeOK, HandlersOK,
              registry, store, tasks
<1>2. ASSUME NEW c \in Conns, DropConnection(c)
      PROVE  TypeInv'
  BY <1>2, BlankIsView DEF DropConnection, TypeInv, TypeOK, HandlersOK,
                           registry, store, tasks
<1>3. ASSUME NEW c \in Conns, MarkUserOffline(c)
      PROVE  TypeInv'
  BY <1>3, MarkUserOfflineType
<1>4. ASSUME NEW c \in Conns, NEW u \in Users, RegisterUser(c, u)
      PROVE  TypeInv'
  BY <1>4, RegisterUserType
<1>5. ASSUME NEW c \in Conns, Broadcast(c)
      PROVE  TypeInv'
  BY <1>5 DEF Broadcast, TypeInv, TypeOK, HandlersOK, registry, store, sockets
<1>6. ASSUME NEW c \in Conns, NEW u \in Users, SendToUser(c, u)
      PROVE  TypeInv'
  BY <1>6, SendToUserType
<1>7. ASSUME NEW c \in Conns, ExtensionRequest(c)
      PROVE  TypeInv'
  BY <1>7, ExtensionRequestType
<1>8. CASE UNCHANGED vars
  BY <1>8 DEF vars, registry, store, sockets, tasks, TypeInv, TypeOK, HandlersOK
<1>9. CASE Restart
  BY <1>9, BlankIsView DEF Restart, TypeInv, TypeOK, HandlersOK
<1>10. QED
  BY <1>1, <1>2, <1>3, <1>4, <1>5, <1>6, <1>7, <1>8, <1>9
     DEF Next, AnswerRequester

\* The shared state, the handlers and the queues keep their types, and no
\* handler sends without a packet (ws.rs, state.rs).
THEOREM TypeCorrect == Spec => []TypeInv
<1>1. QED
  BY TypeInvInit, TypeInvStep, PTL DEF Spec

\* The type invariant the runs check.
THEOREM TypeOKHolds == Spec => []TypeOK
<1>1. TypeInv => TypeOK
  BY DEF TypeInv
<1>2. QED
  BY TypeCorrect, <1>1, PTL

----------------------------------------------------------------------------
(***************************************************************************)
(* The registry.  OnlineMatchesRoutes and RouteIsLive are inductive once    *)
(* every route is known to have had its hello-ack, and a free slot and a    *)
(* socket that never said hello to have an empty queue.                     *)
(***************************************************************************)
RoutedIsAcked ==
  \A u \in Users, c \in Conns : clients[u] = c => told[c].acked
NothingBeforeHello ==
  \A c \in Conns : /\ registered[c] = None => told[c] = Blank
                   /\ link[c] = "unused" => registered[c] = None
RegistryInv == /\ OnlineMatchesRoutes /\ RouteIsLive /\ HelloAckComesFirst
               /\ RoutedIsAcked /\ NothingBeforeHello

LEMMA TellKeepsAck ==
  ASSUME NEW v \in View, NEW p \in ServerMessage
  PROVE  Tell(v, p).acked = v.acked
<1>1. CASE p \in [type : {"presence"}, user : Users, online : BOOLEAN]
  BY <1>1 DEF Tell, View
<1>2. CASE p \in [type : {"chat"}, message : MessageIds]
  BY <1>2 DEF Tell, View
<1>3. CASE p \in [type : {"group"}, group : GroupIds, content : Group \cup {None}]
  BY <1>3 DEF Tell, View
<1>4. CASE p \in [type : {"receipt"}, message : MessageIds, reader : Users]
  BY <1>4 DEF Tell, View
<1>5. QED
  BY <1>1, <1>2, <1>3, <1>4 DEF ServerMessage

\* What an extension asks for never touches the routes or the queues; a task
\* that panics leaves its route where it is.
LEMMA RequestsKeepRegistry ==
  ASSUME TypeInv, NEW c \in Conns, ExtensionRequest(c)
  PROVE  /\ UNCHANGED <<clients, users, registered, told>>
         /\ link' \in {link, [link EXCEPT ![c] = "panicked"]}
         /\ link[c] = "open"
<1> USE DEF registry, sockets, Ready
<1>1. ASSUME NEW m \in MessageIds, NEW to \in Users, NEW cuttable \in BOOLEAN,
             RouteDirectMessage(c, m, registered[c], to, cuttable)
      PROVE  /\ UNCHANGED <<clients, users, registered, told>>
             /\ link' \in {link, [link EXCEPT ![c] = "panicked"]}
             /\ link[c] = "open"
  BY <1>1 DEF RouteDirectMessage, PanicInPreview
<1>2. ASSUME NEW m \in MessageIds, NEW g \in GroupIds, NEW cuttable \in BOOLEAN,
             RouteGroupMessage(c, m, g, registered[c], cuttable)
      PROVE  /\ UNCHANGED <<clients, users, registered, told>>
             /\ link' \in {link, [link EXCEPT ![c] = "panicked"]}
             /\ link[c] = "open"
  BY <1>2 DEF RouteGroupMessage, PanicInPreview
<1>3. ASSUME NEW m \in MessageIds, NEW conv,
             RouteReadReceipt(c, m, conv, registered[c])
      PROVE  UNCHANGED <<clients, users, sockets, told>> /\ link[c] = "open"
  BY <1>3 DEF RouteReadReceipt
<1>4. ASSUME NEW g \in GroupIds, NEW name, NEW ids, CreateGroup(c, g, name, ids)
      PROVE  UNCHANGED <<clients, users, sockets, told>> /\ link[c] = "open"
  BY <1>4 DEF CreateGroup
<1>5. ASSUME NEW g \in GroupIds, NEW name, NEW ids, NEW adds, NEW removes,
             UpdateGroup(c, g, name, ids, adds, removes)
      PROVE  UNCHANGED <<clients, users, sockets, told>> /\ link[c] = "open"
  BY <1>5 DEF UpdateGroup
<1>6. ASSUME NEW g \in GroupIds, DeleteGroup(c, g)
      PROVE  UNCHANGED <<clients, users, sockets, told>> /\ link[c] = "open"
  BY <1>6 DEF DeleteGroup
<1>7. QED
  BY <1>1, <1>2, <1>3, <1>4, <1>5, <1>6
     DEF ExtensionRequest, JoinGroup, LeaveGroup

LEMMA RegistryInit == Init => RegistryInv
  BY NoneIsFresh
     DEF Init, RegistryInv, OnlineMatchesRoutes, RouteIsLive, HelloAckComesFirst,
         RoutedIsAcked, NothingBeforeHello

LEMMA RegistryRegister ==
  ASSUME TypeInv, RegistryInv, NEW c \in Conns, NEW u \in Users, RegisterUser(c, u)
  PROVE  RegistryInv'
<1>1. told'[c].acked = TRUE /\ \A d \in Conns : d # c => told'[d] = told[d]
  BY DEF RegisterUser, HelloAck, TypeInv, TypeOK, View
<1>2. /\ link[c] = "open" /\ link' = link
      /\ clients' = [clients EXCEPT ![u] = c]
      /\ users' = [users EXCEPT ![u] = "online"]
      /\ registered' = [registered EXCEPT ![c] = u]
      /\ registered[c] \in {None, u}
  BY DEF RegisterUser, Ready
<1>3. OnlineMatchesRoutes'
  BY <1>2, NoneIsFresh DEF RegistryInv, OnlineMatchesRoutes, TypeInv, TypeOK
<1>4. RouteIsLive'
  BY <1>2, NoneIsFresh DEF RegistryInv, RouteIsLive, TypeInv, TypeOK
<1>5. HelloAckComesFirst' /\ RoutedIsAcked'
  BY <1>1, <1>2 DEF RegistryInv, HelloAckComesFirst, RoutedIsAcked, TypeInv, TypeOK
<1>6. NothingBeforeHello'
  BY <1>1, <1>2, NoneIsFresh DEF RegistryInv, NothingBeforeHello, TypeInv, TypeOK
<1>7. QED
  BY <1>3, <1>4, <1>5, <1>6 DEF RegistryInv

LEMMA RegistryOffline ==
  ASSUME TypeInv, RegistryInv, NEW c \in Conns, MarkUserOffline(c)
  PROVE  RegistryInv'
<1> DEFINE u == registered[c]
<1>1. u \in Users
  BY DEF MarkUserOffline, TypeInv, TypeOK
<1>2. /\ link[c] = "lost" /\ link' = [link EXCEPT ![c] = "leaving"]
      /\ clients' = [clients EXCEPT ![u] = None]
      /\ users' = [users EXCEPT ![u] = IF @ = "absent" THEN @ ELSE "offline"]
      /\ UNCHANGED <<registered, told>>
  BY DEF MarkUserOffline
<1>3. OnlineMatchesRoutes'
  BY <1>1, <1>2 DEF RegistryInv, OnlineMatchesRoutes, TypeInv, TypeOK
<1>4. RouteIsLive'
  BY <1>1, <1>2, NoneIsFresh DEF RegistryInv, RouteIsLive, TypeInv, TypeOK
<1>5. HelloAckComesFirst' /\ RoutedIsAcked' /\ NothingBeforeHello'
  BY <1>1, <1>2, NoneIsFresh
     DEF RegistryInv, HelloAckComesFirst, RoutedIsAcked, NothingBeforeHello,
         TypeInv, TypeOK
<1>6. QED
  BY <1>3, <1>4, <1>5 DEF RegistryInv

LEMMA RegistrySend ==
  ASSUME TypeInv, RegistryInv, NEW c \in Conns, NEW u \in Users, SendToUser(c, u)
  PROVE  RegistryInv'
<1>1. UNCHANGED <<clients, users, link, registered>>
  BY DEF SendToUser, registry, sockets
<1>2. CASE clients[u] = None
  BY <1>1, <1>2
     DEF SendToUser, RegistryInv, OnlineMatchesRoutes, RouteIsLive,
         HelloAckComesFirst, RoutedIsAcked, NothingBeforeHello
<1>3. CASE clients[u] # None
  <2> DEFINE d == clients[u]
  <2>1. d \in Conns /\ registered[d] = u /\ told[d].acked
    BY <1>3 DEF RegistryInv, RouteIsLive, RoutedIsAcked, TypeInv, TypeOK
  <2>2. packet[c] \in ServerMessage
    BY DEF SendToUser, TypeInv, TypeOK, HandlersOK
  <2>3. /\ told'[d].acked /\ \A x \in Conns : x # d => told'[x] = told[x]
        /\ registered[d] # None
    BY <1>3, <2>1, <2>2, TellKeepsAck, NoneIsFresh
       DEF SendToUser, TypeInv, TypeOK
  <2> HIDE DEF d
  <2>4. HelloAckComesFirst' /\ RoutedIsAcked' /\ NothingBeforeHello'
    BY <1>1, <2>1, <2>3
       DEF RegistryInv, HelloAckComesFirst, RoutedIsAcked, NothingBeforeHello
  <2>5. QED
    BY <1>1, <2>4 DEF RegistryInv, OnlineMatchesRoutes, RouteIsLive
<1>4. QED
  BY <1>2, <1>3

LEMMA RegistryDrop ==
  ASSUME TypeInv, RegistryInv, NEW c \in Conns, DropConnection(c)
  PROVE  RegistryInv'
<1>1. \A u \in Users : clients[u] # c
  BY NoneIsFresh DEF DropConnection, RegistryInv, RouteIsLive, TypeInv, TypeOK
<1>2. /\ UNCHANGED <<clients, users>>
      /\ link' = [link EXCEPT ![c] = "unused"]
      /\ registered' = [registered EXCEPT ![c] = None]
      /\ told' = [told EXCEPT ![c] = Blank]
  BY DEF DropConnection, registry
<1>3. QED
  BY <1>1, <1>2
     DEF RegistryInv, OnlineMatchesRoutes, RouteIsLive, HelloAckComesFirst,
         RoutedIsAcked, NothingBeforeHello, TypeInv, TypeOK

LEMMA RegistryStep == TypeInv /\ RegistryInv /\ [Next]_vars => RegistryInv'
<1> SUFFICES ASSUME TypeInv, RegistryInv, [Next]_vars
             PROVE  RegistryInv'
  OBVIOUS
<1> USE DEF registry, sockets
<1>1. ASSUME NEW c \in Conns, Accept(c) \/ LoseConnection(c)
      PROVE  RegistryInv'
  BY <1>1 DEF Accept, LoseConnection, RegistryInv, OnlineMatchesRoutes, RouteIsLive,
              HelloAckComesFirst, RoutedIsAcked, NothingBeforeHello, TypeInv, TypeOK
<1>2. ASSUME NEW c \in Conns, Broadcast(c)
      PROVE  RegistryInv'
  BY <1>2 DEF Broadcast, RegistryInv, OnlineMatchesRoutes, RouteIsLive,
              HelloAckComesFirst, RoutedIsAcked, NothingBeforeHello
<1>3. ASSUME NEW c \in Conns, ExtensionRequest(c)
      PROVE  RegistryInv'
  BY <1>3, RequestsKeepRegistry
     DEF RegistryInv, OnlineMatchesRoutes, RouteIsLive, HelloAckComesFirst,
         RoutedIsAcked, NothingBeforeHello, TypeInv, TypeOK
<1>4. CASE UNCHANGED vars
  BY <1>4 DEF vars, RegistryInv, OnlineMatchesRoutes, RouteIsLive,
              HelloAckComesFirst, RoutedIsAcked, NothingBeforeHello
<1>5. CASE Restart
  BY <1>5, NoneIsFresh
     DEF Restart, RegistryInv, OnlineMatchesRoutes, RouteIsLive,
         HelloAckComesFirst, RoutedIsAcked, NothingBeforeHello
<1>6. QED
  BY <1>1, <1>2, <1>3, <1>4, <1>5, RegistryRegister, RegistryOffline,
     RegistrySend, RegistryDrop
     DEF Next, AnswerRequester

\* A user is online exactly while a live connection of its own is its route,
\* and every queue starts with hello-ack (register_user, mark_user_offline).
THEOREM RegistryCorrect == Spec => []RegistryInv
<1>1. QED
  BY TypeCorrect, RegistryInit, RegistryStep, PTL DEF Spec

\* Presence and routes agree in every reachable state.
THEOREM OnlineMatchesRoutesHolds == Spec => []OnlineMatchesRoutes
<1>1. RegistryInv => OnlineMatchesRoutes
  BY DEF RegistryInv
<1>2. QED
  BY RegistryCorrect, <1>1, PTL

\* No route ever leads to a dropped queue or to another user's connection.
THEOREM RouteIsLiveHolds == Spec => []RouteIsLive
<1>1. RegistryInv => RouteIsLive
  BY DEF RegistryInv
<1>2. QED
  BY RegistryCorrect, <1>1, PTL

\* No packet overtakes hello-ack.
THEOREM HelloAckComesFirstHolds == Spec => []HelloAckComesFirst
<1>1. RegistryInv => HelloAckComesFirst
  BY DEF RegistryInv
<1>2. QED
  BY RegistryCorrect, <1>1, PTL
=============================================================================
