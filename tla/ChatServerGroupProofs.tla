------------------------ MODULE ChatServerGroupProofs ------------------------
(***************************************************************************)
(* Theorems about the groups of ChatServer: they are consistent, their      *)
(* deletion is final, and no connected member misses one; and about its     *)
(* fan-outs, which serve one recipient after the other.  They rest on the   *)
(* type invariant and the registry invariant of ChatServerProofs.           *)
(***************************************************************************)
EXTENDS ChatServerProofs

\* A stored group has used up its id, and a deletion is announced only of a
\* group that is gone: a late group-deleted never hits a group that exists.
GroupsAreIssued == \A g \in GroupIds : groups[g] # None => g \in issued
DeletionsAreFinal ==
  \A c \in Conns, g \in GroupIds :
    packet[c] = GroupIs(g, None) => g \in issued /\ groups[g] = None

GroupInv == /\ GroupsAreConsistent /\ GroupsAreIssued
            /\ DeletionsAreFinal /\ NoMissedGroup

----------------------------------------------------------------------------
\* Lemmas

LEMMA TellGroups ==
  ASSUME NEW v \in View, NEW p \in ServerMessage, NEW g \in GroupIds
  PROVE  Tell(v, p).groups[g] = IF p.type = "group" /\ p.group = g
                                  THEN p.content ELSE v.groups[g]
<1>1. CASE p \in [type : {"presence"}, user : Users, online : BOOLEAN]
  BY <1>1 DEF Tell, View
<1>2. CASE p \in [type : {"chat"}, message : MessageIds]
  BY <1>2 DEF Tell, View
<1>3. CASE p \in [type : {"group"}, group : GroupIds, content : Group \cup {None}]
  BY <1>3 DEF Tell, View
<1>4. CASE p \in [type : {"receipt"}, message : MessageIds, reader : Users]
  BY <1>4 DEF Tell, View
<1>5. QED
  BY <1>1, <1>2, <1>3, <1>4 DEF ServerMessage

\* A handler that starts a fan-out takes no other announcement away.
LEMMA AnnouncementsStay ==
  ASSUME TypeInv, NEW c \in Conns, rcpt[c] = {},
         \A d \in Conns : d # c => rcpt'[d] = rcpt[d] /\ packet'[d] = packet[d],
         NEW u \in Users, NEW g \in GroupIds, Announced(u, g)
  PROVE  Announced(u, g)'
  BY DEF Announced

\* Storing a group and dispatching it to its members: the common part of
\* create_group and update_group.
LEMMA StoredGroupIsAnnounced ==
  ASSUME TypeInv, GroupInv, NEW c \in Conns, NEW g \in GroupIds, NEW group \in Group,
         pc[c] = "idle", group.owner \in group.members,
         StoreGroup(g, group), Dispatch(c, group.members, GroupIs(g, group)),
         issued' = issued \cup {g}, groups[g] # None \/ Fresh(g),
         UNCHANGED <<clients, told>>
  PROVE  GroupInv'
<1>1. /\ groups' = [groups EXCEPT ![g] = group]
      /\ groupConvs' = [groupConvs EXCEPT ![g] = [title |-> group.name, preview |-> None]]
      /\ packet' = [packet EXCEPT ![c] = GroupIs(g, group)]
      /\ rcpt' = [rcpt EXCEPT ![c] = group.members]
      /\ rcpt[c] = {} /\ group # None
  BY NoneIsFresh DEF StoreGroup, Dispatch, TypeInv, HandlersOK
<1>2. GroupsAreConsistent'
  <2>1. [title |-> group.name, preview |-> None] # None
    BY NoneIsFresh DEF Group, GroupConv
  <2>2. QED
    BY <1>1, <2>1 DEF GroupInv, GroupsAreConsistent, TypeInv, TypeOK
<1>3. GroupsAreIssued'
  BY <1>1 DEF GroupInv, GroupsAreIssued, TypeInv, TypeOK
<1>4. DeletionsAreFinal'
  <2>1. \A x \in GroupIds : GroupIs(g, group) # GroupIs(x, None)
    BY <1>1 DEF GroupIs
  <2>2. \A d \in Conns : packet[d] # GroupIs(g, None)
    BY DEF GroupInv, DeletionsAreFinal, Fresh
  <2>3. QED
    BY <1>1, <2>1, <2>2 DEF GroupInv, DeletionsAreFinal, TypeInv, TypeOK
<1>5. NoMissedGroup'
  <2> SUFFICES ASSUME NEW v \in Users, NEW x \in GroupIds,
                      clients[v] # None, groups'[x] # None, v \in groups'[x].members
               PROVE  told[clients[v]].groups[x] # None \/ Announced(v, x)'
    BY DEF NoMissedGroup
  <2>1. CASE x = g
    <3>1. v \in rcpt'[c] /\ packet'[c] = GroupIs(g, group)
      BY <1>1, <2>1 DEF TypeInv, TypeOK
    <3>2. QED
      BY <1>1, <2>1, <3>1 DEF Announced, GroupIs
  <2>2. CASE x # g
    BY <1>1, <2>2, AnnouncementsStay
       DEF GroupInv, NoMissedGroup, TypeInv, TypeOK
  <2>3. QED
    BY <2>1, <2>2
<1>6. QED
  BY <1>2, <1>3, <1>4, <1>5 DEF GroupInv

LEMMA GroupCreate ==
  ASSUME TypeInv, GroupInv, NEW c \in Conns, NEW g \in GroupIds,
         NEW name \in GroupNames, NEW ids \in Memberships,
         CreateGroup(c, g, name, ids)
  PROVE  GroupInv'
<1> DEFINE group == [name |-> name, owner |-> registered[c],
                     members |-> ids \cup {registered[c]}]
<1>1. group \in Group /\ group.owner \in group.members
  BY InputsAreSets DEF TypeInv, TypeOK, CreateGroup, Group
<1>2. /\ StoreGroup(g, group) /\ Dispatch(c, group.members, GroupIs(g, group))
      /\ issued' = issued \cup {g} /\ Fresh(g) /\ pc[c] = "idle"
      /\ UNCHANGED <<clients, told>>
  BY DEF CreateGroup, Ready, registry
<1> HIDE DEF group
<1>3. QED
  BY <1>1, <1>2, StoredGroupIsAnnounced

LEMMA GroupUpdate ==
  ASSUME TypeInv, GroupInv, NEW c \in Conns, NEW g \in GroupIds,
         NEW name \in GroupNames \cup {None}, NEW ids \in ProtocolLists \cup {None},
         NEW adds \in (SUBSET Users) \cup {None}, NEW removes,
         UpdateGroup(c, g, name, ids, adds, removes)
  PROVE  GroupInv'
<1> DEFINE group == [name |-> IF name = None THEN groups[g].name ELSE name,
                     owner |-> groups[g].owner,
                     members |-> UpdatedMembers(groups[g], ids, adds, removes)]
<1>1. groups[g] \in Group /\ groups[g] # None
  BY DEF TypeInv, TypeOK, UpdateGroup
<1>2. group \in Group /\ group.owner \in group.members
  BY <1>1, UpdatedMembersType DEF Group
<1>3. /\ StoreGroup(g, group) /\ Dispatch(c, group.members, GroupIs(g, group))
      /\ pc[c] = "idle" /\ UNCHANGED <<clients, told, issued>>
  BY DEF UpdateGroup, Ready, registry
<1>4. issued' = issued \cup {g}
  BY <1>1, <1>3 DEF GroupInv, GroupsAreIssued
<1> HIDE DEF group
<1>5. QED
  BY <1>1, <1>2, <1>3, <1>4, StoredGroupIsAnnounced

LEMMA GroupDelete ==
  ASSUME TypeInv, GroupInv, NEW c \in Conns, NEW g \in GroupIds, DeleteGroup(c, g)
  PROVE  GroupInv'
<1>1. /\ groups[g] # None /\ groups' = [groups EXCEPT ![g] = None]
      /\ groupConvs' = [groupConvs EXCEPT ![g] = None]
      /\ packet' = [packet EXCEPT ![c] = GroupIs(g, None)]
      /\ rcpt' = [rcpt EXCEPT ![c] = groups[g].members]
      /\ rcpt[c] = {} /\ UNCHANGED <<clients, told, issued>>
  BY DEF DeleteGroup, Dispatch, Ready, registry, TypeInv, HandlersOK
<1>2. GroupsAreConsistent' /\ GroupsAreIssued'
  BY <1>1 DEF GroupInv, GroupsAreConsistent, GroupsAreIssued, TypeInv, TypeOK
<1>3. DeletionsAreFinal'
  <2> SUFFICES ASSUME NEW d \in Conns, NEW x \in GroupIds,
                      packet'[d] = GroupIs(x, None)
               PROVE  x \in issued' /\ groups'[x] = None
    BY DEF DeletionsAreFinal
  <2>1. CASE d = c
    <3>1. x = g
      BY <1>1, <2>1 DEF GroupIs, TypeInv, TypeOK
    <3>2. QED
      BY <1>1, <3>1 DEF GroupInv, GroupsAreIssued, TypeInv, TypeOK
  <2>2. CASE d # c
    BY <1>1, <2>2 DEF GroupInv, DeletionsAreFinal, TypeInv, TypeOK
  <2>3. QED
    BY <2>1, <2>2
<1>4. NoMissedGroup'
  BY <1>1, AnnouncementsStay DEF GroupInv, NoMissedGroup, TypeInv, TypeOK
<1>5. QED
  BY <1>2, <1>3, <1>4 DEF GroupInv

\* A request about a message dispatches a packet that is not about a group and
\* changes of a group at most the preview of its conversation.
LEMMA GroupOther ==
  ASSUME TypeInv, GroupInv, NEW c \in Conns, NEW p, rcpt[c] = {},
         \A g \in GroupIds : p # GroupIs(g, None),
         packet' = [packet EXCEPT ![c] = p],
         \A d \in Conns : d # c => rcpt'[d] = rcpt[d],
         issued \subseteq issued', GroupsAreConsistent',
         UNCHANGED <<clients, groups, told>>
  PROVE  GroupInv'
<1>1. GroupsAreIssued' /\ DeletionsAreFinal'
  BY DEF GroupInv, GroupsAreIssued, DeletionsAreFinal, TypeInv, TypeOK
<1>2. NoMissedGroup'
  BY AnnouncementsStay DEF GroupInv, NoMissedGroup, TypeInv, TypeOK
<1>3. QED
  BY <1>1, <1>2 DEF GroupInv

LEMMA GroupMessages ==
  ASSUME TypeInv, GroupInv, NEW c \in Conns, NEW m \in MessageIds,
         NEW cuttable \in BOOLEAN,
         \/ \E to \in Users : RouteDirectMessage(c, m, registered[c], to, cuttable)
         \/ \E g \in GroupIds : RouteGroupMessage(c, m, g, registered[c], cuttable)
         \/ \E conv \in GroupIds \cup {None} : RouteReadReceipt(c, m, conv, registered[c])
  PROVE  GroupInv'
<1>1. /\ rcpt[c] = {} /\ packet[c] = None /\ issued \subseteq issued'
      /\ UNCHANGED <<clients, groups, told>>
  BY DEF RouteDirectMessage, RouteGroupMessage, RouteReadReceipt, Ready, registry,
         TypeInv, HandlersOK
<1>2. GroupsAreConsistent'
  <2>1. ASSUME NEW g \in GroupIds, RouteGroupMessage(c, m, g, registered[c], cuttable)
        PROVE  GroupsAreConsistent'
    <3>1. \/ UNCHANGED groupConvs
          \/ groupConvs' = [groupConvs EXCEPT ![g] =
                              [title |-> groups[g].name, preview |-> m]]
      BY <2>1 DEF RouteGroupMessage, PanicInPreview
    <3>2. /\ groups[g] # None
          /\ [title |-> groups[g].name, preview |-> m] \in GroupConv
      BY <2>1 DEF RouteGroupMessage, TypeInv, TypeOK, Group, GroupConv
    <3>3. QED
      BY <1>1, <3>1, <3>2, NoneIsFresh
         DEF GroupInv, GroupsAreConsistent, TypeInv, TypeOK
  <2>2. CASE UNCHANGED groupConvs
    BY <1>1, <2>2 DEF GroupInv, GroupsAreConsistent
  <2>3. QED
    BY <2>1, <2>2 DEF RouteDirectMessage, RouteReadReceipt, PanicInPreview
<1>3. PICK p :
        /\ packet' = [packet EXCEPT ![c] = p]
        /\ \A d \in Conns : d # c => rcpt'[d] = rcpt[d]
        /\ p \in {None, Chat(m), Receipt(m, registered[c])}
  <2>1. CASE PanicInPreview(c)
    BY <1>1, <2>1 DEF PanicInPreview, tasks, TypeInv, TypeOK
  <2>2. ASSUME NEW to, NEW p, Dispatch(c, to, p)
        PROVE  /\ packet' = [packet EXCEPT ![c] = p]
               /\ \A d \in Conns : d # c => rcpt'[d] = rcpt[d]
    BY <2>2 DEF Dispatch, TypeInv, TypeOK
  <2>3. \/ PanicInPreview(c)
        \/ \E to : Dispatch(c, to, Chat(m))
        \/ \E to : Dispatch(c, to, Receipt(m, registered[c]))
    BY DEF RouteDirectMessage, RouteGroupMessage, RouteReadReceipt
  <2>4. QED
    BY <2>1, <2>2, <2>3
<1>4. \A g \in GroupIds : p # GroupIs(g, None)
  <2>1. Chat(m).type = "chat" /\ Receipt(m, registered[c]).type = "receipt"
    BY DEF Chat, Receipt
  <2>2. \A g \in GroupIds : GroupIs(g, None).type = "group" /\ GroupIs(g, None) # None
    BY PacketTypes, NoneIsFresh DEF GroupIs
  <2>3. QED
    BY <1>3, <2>1, <2>2
<1>5. QED
  BY <1>1, <1>2, <1>3, <1>4, GroupOther

LEMMA GroupSend ==
  ASSUME TypeInv, RegistryInv, GroupInv, NEW c \in Conns, NEW u \in Users,
         SendToUser(c, u)
  PROVE  GroupInv'
<1>1. /\ UNCHANGED <<clients, groups, groupConvs, issued>>
      /\ u \in rcpt[c] /\ rcpt' = [rcpt EXCEPT ![c] = rcpt[c] \ {u}]
      /\ \/ packet' = packet
         \/ packet' = [packet EXCEPT ![c] = None] /\ rcpt'[c] = {}
      /\ packet[c] \in ServerMessage
  BY DEF SendToUser, Remaining, registry, store, TypeInv, TypeOK, HandlersOK
<1>2. GroupsAreConsistent' /\ GroupsAreIssued'
  BY <1>1 DEF GroupInv, GroupsAreConsistent, GroupsAreIssued
<1>3. DeletionsAreFinal'
  BY <1>1, PacketTypes, NoneIsFresh DEF GroupInv, DeletionsAreFinal, TypeInv, TypeOK
<1>4. NoMissedGroup'
  <2> SUFFICES ASSUME NEW v \in Users, NEW g \in GroupIds,
                      clients[v] # None, groups[g] # None, v \in groups[g].members
               PROVE  told'[clients[v]].groups[g] # None \/ Announced(v, g)'
    BY <1>1 DEF NoMissedGroup
  <2> DEFINE d == clients[v]
  <2>1. d \in Conns /\ registered[d] = v
    BY DEF RegistryInv, RouteIsLive, TypeInv, TypeOK
  <2>2. told[d].groups[g] # None \/ Announced(v, g)
    BY DEF GroupInv, NoMissedGroup
  <2>3. CASE v # u
    <3>1. told'[d] = told[d]
      <4>1. clients[u] # d
        BY <2>1, <2>3 DEF RegistryInv, RouteIsLive
      <4>2. QED
        BY <2>1, <4>1 DEF SendToUser, TypeInv, TypeOK
    <3>2. Announced(v, g) => Announced(v, g)'
      BY <1>1, <2>3 DEF Announced, TypeInv, TypeOK
    <3>3. QED
      BY <2>2, <3>1, <3>2
  <2>4. CASE v = u
    <3>1. told'[d] = Tell(told[d], packet[c])
      BY <2>1, <2>4 DEF SendToUser, TypeInv, TypeOK
    <3>2. told'[d].groups[g] = IF packet[c].type = "group" /\ packet[c].group = g
                                 THEN packet[c].content ELSE told[d].groups[g]
      BY <1>1, <2>1, <3>1, TellGroups DEF TypeInv, TypeOK
    <3>3. CASE packet[c].type = "group" /\ packet[c].group = g
      <4>1. packet[c] = GroupIs(g, packet[c].content)
        BY <1>1, <3>3 DEF ServerMessage, GroupIs
      <4>2. packet[c].content # None
        BY <4>1 DEF GroupInv, DeletionsAreFinal
      <4>3. QED
        BY <3>2, <3>3, <4>2
    <3>4. CASE ~(packet[c].type = "group" /\ packet[c].group = g)
      <4>1. Announced(v, g) => Announced(v, g)'
        BY <1>1, <3>4 DEF Announced, TypeInv, TypeOK
      <4>2. QED
        BY <2>2, <3>2, <3>4, <4>1
    <3>5. QED
      BY <3>3, <3>4
  <2>5. QED
    BY <2>3, <2>4
<1>5. QED
  BY <1>2, <1>3, <1>4 DEF GroupInv

LEMMA GroupRegister ==
  ASSUME TypeInv, RegistryInv, GroupInv, NEW c \in Conns, NEW u \in Users,
         RegisterUser(c, u)
  PROVE  GroupInv'
<1>1. /\ UNCHANGED <<groups, groupConvs, issued, rcpt>>
      /\ packet' = [packet EXCEPT ![c] = Presence(u, TRUE)]
      /\ clients' = [clients EXCEPT ![u] = c]
      /\ rcpt[c] = {} /\ registered[c] \in {None, u}
  BY DEF RegisterUser, DispatchToAll, Ready, store, TypeInv, HandlersOK
<1>2. GroupsAreConsistent' /\ GroupsAreIssued'
  BY <1>1 DEF GroupInv, GroupsAreConsistent, GroupsAreIssued
<1>3. DeletionsAreFinal'
  <2>1. \A g \in GroupIds : Presence(u, TRUE) # GroupIs(g, None)
    BY DEF Presence, GroupIs
  <2>2. QED
    BY <1>1, <2>1 DEF GroupInv, DeletionsAreFinal, TypeInv, TypeOK
<1>4. NoMissedGroup'
  <2> SUFFICES ASSUME NEW v \in Users, NEW g \in GroupIds,
                      clients'[v] # None, groups[g] # None, v \in groups[g].members
               PROVE  told'[clients'[v]].groups[g] # None \/ Announced(v, g)'
    BY <1>1 DEF NoMissedGroup
  <2>1. CASE v = u
    <3>1. told'[c].groups = GroupsForUser(u)
      BY DEF RegisterUser, HelloAck, TypeInv, TypeOK, View
    <3>2. clients'[v] = c /\ GroupsForUser(u)[g] = groups[g]
      BY <1>1, <2>1 DEF GroupsForUser, TypeInv, TypeOK
    <3>3. QED
      BY <3>1, <3>2
  <2>2. CASE v # u
    <3>1. clients'[v] = clients[v] /\ clients[v] # c
      BY <1>1, <2>2, NoneIsFresh DEF RegistryInv, RouteIsLive, TypeInv, TypeOK
    <3>2. told'[clients[v]] = told[clients[v]]
      BY <2>2, <3>1 DEF RegisterUser, TypeInv, TypeOK
    <3>3. Announced(v, g) => Announced(v, g)'
      BY <1>1, AnnouncementsStay DEF TypeInv, TypeOK
    <3>4. QED
      BY <3>1, <3>2, <3>3 DEF GroupInv, NoMissedGroup
  <2>3. QED
    BY <2>1, <2>2
<1>5. QED
  BY <1>2, <1>3, <1>4 DEF GroupInv

LEMMA GroupOffline ==
  ASSUME TypeInv, GroupInv, NEW c \in Conns, MarkUserOffline(c)
  PROVE  GroupInv'
<1>1. /\ UNCHANGED <<groups, groupConvs, issued, rcpt, told>>
      /\ packet' = [packet EXCEPT ![c] = Presence(registered[c], FALSE)]
      /\ clients' = [clients EXCEPT ![registered[c]] = None]
      /\ rcpt[c] = {}
  BY DEF MarkUserOffline, DispatchToAll, store, TypeInv, HandlersOK
<1>2. GroupsAreConsistent' /\ GroupsAreIssued'
  BY <1>1 DEF GroupInv, GroupsAreConsistent, GroupsAreIssued
<1>3. DeletionsAreFinal'
  <2>1. \A g \in GroupIds : Presence(registered[c], FALSE) # GroupIs(g, None)
    BY DEF Presence, GroupIs
  <2>2. QED
    BY <1>1, <2>1 DEF GroupInv, DeletionsAreFinal, TypeInv, TypeOK
<1>4. NoMissedGroup'
  BY <1>1, AnnouncementsStay DEF GroupInv, NoMissedGroup, TypeInv, TypeOK
<1>5. QED
  BY <1>2, <1>3, <1>4 DEF GroupInv

LEMMA GroupBroadcast ==
  ASSUME TypeInv, GroupInv, NEW c \in Conns, Broadcast(c)
  PROVE  GroupInv'
<1>1. /\ UNCHANGED <<groups, groupConvs, issued, told, clients>>
      /\ \/ packet' = packet
         \/ packet' = [packet EXCEPT ![c] = None]
      /\ \A d \in Conns : d # c => rcpt'[d] = rcpt[d]
      /\ rcpt[c] = {}
  BY DEF Broadcast, registry, store, TypeInv, TypeOK, HandlersOK
<1>2. GroupsAreConsistent' /\ GroupsAreIssued'
  BY <1>1 DEF GroupInv, GroupsAreConsistent, GroupsAreIssued
<1>3. DeletionsAreFinal'
  BY <1>1, PacketTypes, NoneIsFresh DEF GroupInv, DeletionsAreFinal, TypeInv, TypeOK
<1>4. NoMissedGroup'
  BY <1>1, AnnouncementsStay DEF GroupInv, NoMissedGroup, TypeInv, TypeOK
<1>5. QED
  BY <1>2, <1>3, <1>4 DEF GroupInv

LEMMA GroupDrop ==
  ASSUME TypeInv, RegistryInv, GroupInv, NEW c \in Conns, DropConnection(c)
  PROVE  GroupInv'
<1>1. \A u \in Users : clients[u] # c
  BY NoneIsFresh DEF DropConnection, RegistryInv, RouteIsLive, TypeInv, TypeOK
<1>2. /\ UNCHANGED <<groups, groupConvs, issued, clients, rcpt, packet>>
      /\ told' = [told EXCEPT ![c] = Blank]
  BY DEF DropConnection, registry, store, tasks
<1>3. GroupsAreConsistent' /\ GroupsAreIssued' /\ DeletionsAreFinal'
  BY <1>2 DEF GroupInv, GroupsAreConsistent, GroupsAreIssued, DeletionsAreFinal
<1>4. NoMissedGroup'
  BY <1>1, <1>2 DEF GroupInv, NoMissedGroup, Announced, TypeInv, TypeOK
<1>5. QED
  BY <1>3, <1>4 DEF GroupInv

----------------------------------------------------------------------------
\* The theorems

LEMMA GroupInit == Init => GroupInv
  BY PacketTypes, NoneIsFresh
     DEF Init, GroupInv, GroupsAreConsistent, GroupsAreIssued, DeletionsAreFinal,
         NoMissedGroup

LEMMA GroupRestart == Restart => GroupInv'
  BY PacketTypes, NoneIsFresh
     DEF Restart, GroupInv, GroupsAreConsistent, GroupsAreIssued, DeletionsAreFinal,
         NoMissedGroup

LEMMA GroupStep == TypeInv /\ RegistryInv /\ GroupInv /\ [Next]_vars => GroupInv'
<1> SUFFICES ASSUME TypeInv, RegistryInv, GroupInv, [Next]_vars
             PROVE  GroupInv'
  OBVIOUS
<1> USE DEF registry, store, tasks
<1>1. ASSUME NEW c \in Conns, Accept(c) \/ LoseConnection(c)
      PROVE  GroupInv'
  BY <1>1 DEF Accept, LoseConnection, GroupInv, GroupsAreConsistent,
              GroupsAreIssued, DeletionsAreFinal, NoMissedGroup, Announced
<1>2. CASE UNCHANGED vars
  BY <1>2 DEF vars, GroupInv, GroupsAreConsistent, GroupsAreIssued,
              DeletionsAreFinal, NoMissedGroup, Announced
<1>3. ASSUME NEW c \in Conns, ExtensionRequest(c)
      PROVE  GroupInv'
  <2>1. ASSUME NEW g \in GroupIds, JoinGroup(c, g)
        PROVE  GroupInv'
    <3>1. {registered[c]} \in SUBSET Users
      BY <2>1 DEF JoinGroup, TypeInv, TypeOK
    <3>2. QED
      BY <2>1, <3>1, GroupUpdate DEF JoinGroup
  <2>2. ASSUME NEW g \in GroupIds, LeaveGroup(c, g)
        PROVE  GroupInv'
    BY <2>2, GroupUpdate DEF LeaveGroup
  <2>3. ASSUME NEW g \in GroupIds, NEW name \in GroupNames \cup {None},
               NEW ids \in ProtocolLists \cup {None},
               NEW adds \in Memberships \cup {None},
               NEW removes \in ProtocolLists \cup {None},
               UpdateGroup(c, g, name, ids, adds, removes)
        PROVE  GroupInv'
    BY <2>3, GroupUpdate, InputsAreSets
  <2>4. QED
    BY <1>3, <2>1, <2>2, <2>3, GroupCreate, GroupDelete, GroupMessages
       DEF ExtensionRequest
<1>4. QED
  BY <1>1, <1>2, <1>3, GroupRestart, GroupSend, GroupRegister, GroupOffline,
     GroupBroadcast, GroupDrop
     DEF Next, AnswerRequester

\* The inductive invariant of the groups.
THEOREM GroupsCorrect == Spec => []GroupInv
<1>1. QED
  BY TypeCorrect, RegistryCorrect, GroupInit, GroupStep, PTL DEF Spec

\* The owner stays a member and the conversation entry follows the group
\* (update_group, upsert_group_conversation, delete_group).
THEOREM GroupsAreConsistentHolds == Spec => []GroupsAreConsistent
<1>1. GroupInv => GroupsAreConsistent
  BY DEF GroupInv
<1>2. QED
  BY GroupsCorrect, <1>1, PTL

\* However hello, membership changes and fan-outs interleave, a connected
\* member knows of its group or is about to be told.
THEOREM NoMissedGroupHolds == Spec => []NoMissedGroup
<1>1. GroupInv => NoMissedGroup
  BY DEF GroupInv
<1>2. QED
  BY GroupsCorrect, <1>1, PTL

\* A deleted group never returns: update_group stores only over a group that
\* exists, and create_group takes a fresh id.
THEOREM DeletedStaysDeletedHolds == Spec => DeletedStaysDeleted
<1>1. ASSUME TypeInv, [Next]_vars, NEW g \in GroupIds, g \in issued, groups[g] = None
      PROVE  groups'[g] = None
  <2> USE DEF store
  <2>1. ASSUME NEW c \in Conns,
               \/ Accept(c) \/ LoseConnection(c) \/ MarkUserOffline(c)
               \/ DropConnection(c) \/ Broadcast(c) \/ AnswerRequester(c)
               \/ \E u \in Users : RegisterUser(c, u) \/ SendToUser(c, u)
        PROVE  groups' = groups
    BY <2>1 DEF Accept, LoseConnection, MarkUserOffline, DropConnection, Broadcast,
                AnswerRequester, RegisterUser, SendToUser, vars
  <2>2. ASSUME NEW c \in Conns, ExtensionRequest(c)
        PROVE  groups'[g] = None
    <3>1. ASSUME NEW x \in GroupIds, NEW name, NEW ids, CreateGroup(c, x, name, ids)
          PROVE  x # g /\ \E group : groups' = [groups EXCEPT ![x] = group]
      BY <1>1, <3>1 DEF CreateGroup, StoreGroup, Fresh
    <3>2. ASSUME NEW x \in GroupIds, NEW name, NEW ids, NEW adds, NEW removes,
                 UpdateGroup(c, x, name, ids, adds, removes)
          PROVE  x # g /\ \E group : groups' = [groups EXCEPT ![x] = group]
      BY <1>1, <3>2 DEF UpdateGroup, StoreGroup
    <3>3. ASSUME NEW x \in GroupIds, DeleteGroup(c, x)
          PROVE  x # g /\ \E group : groups' = [groups EXCEPT ![x] = group]
      BY <1>1, <3>3 DEF DeleteGroup
    <3>4. \/ groups' = groups
          \/ \E x \in GroupIds : \E group : x # g /\ groups' = [groups EXCEPT ![x] = group]
      BY <2>2, <3>1, <3>2, <3>3
         DEF ExtensionRequest, JoinGroup, LeaveGroup, RouteDirectMessage,
             RouteGroupMessage, RouteReadReceipt
    <3>5. QED
      BY <1>1, <3>4 DEF TypeInv, TypeOK
  <2>3. CASE Restart
    BY <2>3 DEF Restart
  <2>4. CASE UNCHANGED vars
    BY <1>1, <2>4 DEF vars
  <2>5. QED
    BY <1>1, <2>1, <2>2, <2>3, <2>4 DEF Next
<1>2. TypeInv /\ [Next]_vars =>
        [\A g \in GroupIds : g \in issued /\ groups[g] = None => groups'[g] = None]_vars
  BY <1>1
<1>3. QED
  BY TypeCorrect, <1>2, PTL DEF Spec, DeletedStaysDeleted

----------------------------------------------------------------------------
(***************************************************************************)
(* The fan-outs.  A task that waits for the write lock gets it once those   *)
(* that hold the read lock have served their recipients.  So each of them   *)
(* must have somebody left, or it would hold the lock for ever; and their   *)
(* recipients must never grow.  Receipts to the members of a group and the  *)
(* announcements of its changes make this rest on GroupsAreConsistent: the  *)
(* owner is always left.                                                    *)
(***************************************************************************)
SomebodyIsLeft == \A c \in Conns : pc[c] \in {"send", "sending"} => rcpt[c] # {}

FanoutsOnlyShrink ==
  [][\A c \in Conns : pc[c] \in {"send", "sending"} =>
       rcpt'[c] \subseteq rcpt[c] /\ packet'[c] \in {packet[c], None}]_vars

LEMMA GroupsHaveMembers ==
  ASSUME TypeInv, GroupInv, NEW g \in GroupIds, groups[g] # None
  PROVE  groups[g].members # {}
  BY DEF GroupInv, GroupsAreConsistent

\* A request dispatches to somebody, or its task panics.
LEMMA RequestServesSomebody ==
  ASSUME TypeInv, GroupInv, NEW c \in Conns, ExtensionRequest(c)
  PROVE  /\ pc[c] = "idle"
         /\ \/ UNCHANGED tasks
            \/ \E to, p : to # {} /\ Dispatch(c, to, p)
<1> USE DEF Ready
<1>1. ASSUME NEW m \in MessageIds, NEW cuttable \in BOOLEAN,
             \/ \E to \in Users : RouteDirectMessage(c, m, registered[c], to, cuttable)
             \/ \E g \in GroupIds : RouteGroupMessage(c, m, g, registered[c], cuttable)
      PROVE  pc[c] = "idle" /\ (UNCHANGED tasks \/ \E to, p : to # {} /\ Dispatch(c, to, p))
  <2>1. ASSUME NEW to \in Users, RouteDirectMessage(c, m, registered[c], to, cuttable)
        PROVE  pc[c] = "idle" /\ (PanicInPreview(c) \/ Dispatch(c, {to}, Chat(m)))
    BY <2>1 DEF RouteDirectMessage
  <2>2. ASSUME NEW g \in GroupIds, RouteGroupMessage(c, m, g, registered[c], cuttable)
        PROVE  /\ pc[c] = "idle" /\ groups[g] # None
               /\ PanicInPreview(c) \/ Dispatch(c, groups[g].members, Chat(m))
    BY <2>2 DEF RouteGroupMessage
  <2>3. QED
    BY <1>1, <2>1, <2>2, GroupsHaveMembers DEF PanicInPreview
<1>2. ASSUME NEW m \in MessageIds, NEW conv \in GroupIds \cup {None}, registered[c] # None,
             RouteReadReceipt(c, m, conv, registered[c])
      PROVE  pc[c] = "idle" /\ \E to, p : to # {} /\ Dispatch(c, to, p)
  <2>1. messages[m] # None => messages[m].from \in Users
    BY DEF TypeInv, TypeOK, StoredMessage
  <2> DEFINE to == CASE conv = None /\ messages[m] # None ->
                          Users \cap {messages[m].from, messages[m].to}
                     [] conv # None /\ groups[conv] # None -> groups[conv].members
                     [] OTHER -> {registered[c]}
  <2>2. to # {}
    BY <1>2, <2>1, GroupsHaveMembers
  <2>3. pc[c] = "idle" /\ Dispatch(c, to, Receipt(m, registered[c]))
    BY <1>2 DEF RouteReadReceipt
  <2> HIDE DEF to
  <2>4. QED
    BY <2>2, <2>3
<1>3. ASSUME NEW g \in GroupIds, NEW name, NEW ids, CreateGroup(c, g, name, ids)
      PROVE  pc[c] = "idle" /\ \E to, p : to # {} /\ Dispatch(c, to, p)
  BY <1>3 DEF CreateGroup
<1>4. ASSUME NEW g \in GroupIds, NEW name, NEW ids, NEW adds, NEW removes,
             UpdateGroup(c, g, name, ids, adds, removes)
      PROVE  pc[c] = "idle" /\ \E to, p : to # {} /\ Dispatch(c, to, p)
  BY <1>4 DEF UpdateGroup, UpdatedMembers
<1>5. ASSUME NEW g \in GroupIds, DeleteGroup(c, g)
      PROVE  pc[c] = "idle" /\ \E to, p : to # {} /\ Dispatch(c, to, p)
  BY <1>5, GroupsHaveMembers DEF DeleteGroup
<1>6. registered[c] # None
  BY DEF ExtensionRequest
<1>7. QED
  BY <1>1, <1>2, <1>3, <1>4, <1>5, <1>6 DEF ExtensionRequest, JoinGroup, LeaveGroup

\* What a step may do to the handler of one connection.
LEMMA HandlerSteps ==
  ASSUME TypeInv, GroupInv, [Next]_vars, NEW c \in Conns
  PROVE  \/ pc'[c] = pc[c] /\ rcpt'[c] = rcpt[c] /\ packet'[c] = packet[c]
         \/ pc'[c] \in {"idle", "broadcast"} /\ rcpt'[c] = {} /\ packet'[c] = None
         \/ pc[c] \in {"idle", "broadcast"} /\ (pc'[c] = "broadcast" \/ rcpt'[c] # {})
         \/ /\ pc[c] \in {"send", "sending"}
            /\ rcpt'[c] # {} /\ rcpt'[c] \subseteq rcpt[c] /\ packet'[c] = packet[c]
<1>1. ASSUME NEW d \in Conns, Accept(d) \/ LoseConnection(d) \/ DropConnection(d)
      PROVE  UNCHANGED <<pc, rcpt, packet>>
  BY <1>1 DEF Accept, LoseConnection, DropConnection, tasks
<1>2. ASSUME NEW d \in Conns, MarkUserOffline(d) \/ \E u \in Users : RegisterUser(d, u)
      PROVE  pc[d] = "idle" /\ \E p : DispatchToAll(d, p)
  BY <1>2 DEF MarkUserOffline, RegisterUser, Ready
<1>3. ASSUME NEW d \in Conns, NEW p, pc[d] = "idle", DispatchToAll(d, p)
      PROVE  \/ pc'[c] = pc[c] /\ rcpt'[c] = rcpt[c] /\ packet'[c] = packet[c]
             \/ pc[c] = "idle" /\ pc'[c] = "broadcast"
  BY <1>3 DEF DispatchToAll, TypeInv, TypeOK
<1>4. ASSUME NEW d \in Conns, NEW p, NEW to, pc[d] = "idle", to # {}, Dispatch(d, to, p)
      PROVE  \/ pc'[c] = pc[c] /\ rcpt'[c] = rcpt[c] /\ packet'[c] = packet[c]
             \/ pc[c] = "idle" /\ rcpt'[c] # {}
  BY <1>4 DEF Dispatch, TypeInv, TypeOK
<1>5. ASSUME NEW d \in Conns, Broadcast(d)
      PROVE  \/ pc'[c] = pc[c] /\ rcpt'[c] = rcpt[c] /\ packet'[c] = packet[c]
             \/ pc'[c] = "idle" /\ rcpt'[c] = {} /\ packet'[c] = None
             \/ pc[c] = "broadcast" /\ rcpt'[c] # {}
  BY <1>5 DEF Broadcast, TypeInv, TypeOK
<1>6. ASSUME NEW d \in Conns, NEW u \in Users, SendToUser(d, u)
      PROVE  \/ pc'[c] = pc[c] /\ rcpt'[c] = rcpt[c] /\ packet'[c] = packet[c]
             \/ pc'[c] = "idle" /\ rcpt'[c] = {} /\ packet'[c] = None
             \/ /\ pc[c] \in {"send", "sending"}
                /\ rcpt'[c] # {} /\ rcpt'[c] \subseteq rcpt[c] /\ packet'[c] = packet[c]
  BY <1>6 DEF SendToUser, Remaining, TypeInv, TypeOK
<1>7. CASE Restart
  BY <1>7 DEF Restart
<1>8. CASE UNCHANGED vars
  BY <1>8 DEF vars, tasks
<1>9. ASSUME NEW d \in Conns, ExtensionRequest(d)
      PROVE  \/ pc'[c] = pc[c] /\ rcpt'[c] = rcpt[c] /\ packet'[c] = packet[c]
             \/ pc[c] = "idle" /\ rcpt'[c] # {}
  BY <1>4, <1>9, RequestServesSomebody DEF tasks
<1>10. QED
  BY <1>1, <1>2, <1>3, <1>5, <1>6, <1>7, <1>8, <1>9 DEF Next, AnswerRequester

\* No handler holds the lock with nobody to serve (send_to_users, broadcast).
THEOREM SomebodyIsLeftHolds == Spec => []SomebodyIsLeft
<1>1. Init => SomebodyIsLeft
  BY DEF Init, SomebodyIsLeft
<1>2. TypeInv /\ GroupInv /\ SomebodyIsLeft /\ [Next]_vars => SomebodyIsLeft'
  BY HandlerSteps DEF SomebodyIsLeft
<1>3. QED
  BY TypeCorrect, GroupsCorrect, <1>1, <1>2, PTL DEF Spec

\* A fan-out serves whom it was given at its commit, with the packet it was
\* given, until it is over.  With SomebodyIsLeft this is what makes handlers
\* finish, whatever the number of users.
THEOREM FanoutsOnlyShrinkHolds == Spec => FanoutsOnlyShrink
<1>1. TypeInv /\ GroupInv /\ [Next]_vars =>
        [\A c \in Conns : pc[c] \in {"send", "sending"} =>
           rcpt'[c] \subseteq rcpt[c] /\ packet'[c] \in {packet[c], None}]_vars
  BY HandlerSteps
<1>2. QED
  BY TypeCorrect, GroupsCorrect, <1>1, PTL DEF Spec, FanoutsOnlyShrink
=============================================================================
