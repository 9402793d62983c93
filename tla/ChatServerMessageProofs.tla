----------------------- MODULE ChatServerMessageProofs -----------------------
(***************************************************************************)
(* Theorems about the messages of ChatServer: no routed participant misses  *)
(* the last message of a conversation, no message is queued twice, a        *)
(* receipt that is fanned out is recorded, and the server implements        *)
(* MessageFanout.                                                           *)
(***************************************************************************)
EXTENDS ChatServerProofs

\* Ids that are stored, fanned out or delivered are used up, so a fresh
\* message is in no packet and on no queue.
MessageIdsAreIssued ==
  /\ \A m \in MessageIds : messages[m] # None => m \in issued
  /\ \A c \in Conns, m \in MessageIds :
       /\ packet[c] = Chat(m) => m \in issued
       /\ \A u \in Users : packet[c] = Receipt(m, u) => m \in issued
       /\ m \in told[c].chats => m \in issued

\* A conversation shows a message that is stored.
ConversationsAreStored ==
  \A u \in Users, m \in MessageIds :
    m \in ConversationsForUser(u) => messages[m] # None

DeliveryInv == /\ MessageIdsAreIssued
               /\ DeliveredAtMostOnce /\ ReceiptsAreRecorded
MessageInv  == ConversationsAreStored /\ NoMissedMessage

----------------------------------------------------------------------------
\* Lemmas about packets and queues

LEMMA TellChats ==
  ASSUME NEW v \in View, NEW p \in ServerMessage
  PROVE  /\ Tell(v, p).chats = IF p.type = "chat" THEN v.chats \cup {p.message}
                                                  ELSE v.chats
         /\ Tell(v, p).previews = v.previews
<1>1. CASE p \in [type : {"presence"}, user : Users, online : BOOLEAN]
  BY <1>1 DEF Tell, View
<1>2. CASE p \in [type : {"chat"}, message : MessageIds]
  BY <1>2 DEF Tell, View
<1>3. CASE p \in [type : {"group"}, group : GroupIds, content : Group \cup {None}]
  BY <1>3 DEF Tell, View
<1>4. CASE p \in [type : {"receipt"}, message : MessageIds, reader : Users]
  BY <1>4 DEF Tell, View
<1>5. QED
  BY <1>1, <1>2, <1>3, <1>4 DEF ServerMessage

LEMMA ChatIsNotOther ==
  /\ \A m, x : Chat(m) = Chat(x) => m = x
  /\ \A m, x, u, v : Receipt(m, u) = Receipt(x, v) => (m = x /\ u = v)
  /\ \A m, x, u : Chat(m) # Receipt(x, u)
  /\ \A m, u, b : Chat(m) # Presence(u, b)
  /\ \A m, g, x : Chat(m) # GroupIs(g, x)
  /\ \A m, u, v, b : Receipt(m, u) # Presence(v, b)
  /\ \A m, u, g, x : Receipt(m, u) # GroupIs(g, x)
<1>1. /\ \A m : Chat(m).type = "chat" /\ Chat(m).message = m
      /\ \A m, u : /\ Receipt(m, u).type = "receipt"
                   /\ Receipt(m, u).message = m /\ Receipt(m, u).reader = u
      /\ \A u, b : Presence(u, b).type = "presence"
      /\ \A g, x : GroupIs(g, x).type = "group"
  BY DEF Chat, Receipt, Presence, GroupIs
<1>2. QED
  BY <1>1

LEMMA ChatAndReceiptAreNotNone ==
  /\ \A m \in MessageIds : Chat(m) # None
  /\ \A m \in MessageIds, u \in Users : Receipt(m, u) # None
  BY PacketTypes, NoneIsFresh

\* hello-ack brings previews, no messages.
LEMMA HelloKeepsChats ==
  ASSUME TypeInv, NEW c \in Conns, NEW u \in Users, RegisterUser(c, u)
  PROVE  \A d \in Conns : told'[d].chats = told[d].chats
  BY DEF RegisterUser, HelloAck, TypeInv, TypeOK, View

\* What every request does to the handlers: it adds at most one fan-out, by
\* the requester, and touches no route and no queue.
Fanout(c, to, p) ==
  /\ packet' = [packet EXCEPT ![c] = p]
  /\ rcpt' = [rcpt EXCEPT ![c] = to]
  /\ packet[c] = None /\ rcpt[c] = {}
  /\ UNCHANGED <<clients, registered, told>>

LEMMA DispatchIsFanout ==
  ASSUME TypeInv, NEW c \in Conns, Ready(c), NEW to, NEW p,
         Dispatch(c, to, p), UNCHANGED <<clients, registered, told>>
  PROVE  Fanout(c, to, p)
  BY DEF Fanout, Dispatch, Ready, TypeInv, TypeOK, HandlersOK

LEMMA PanicIsFanout ==
  ASSUME TypeInv, NEW c \in Conns, Ready(c), PanicInPreview(c),
         UNCHANGED <<clients, registered, told>>
  PROVE  Fanout(c, {}, None)
  BY DEF Fanout, PanicInPreview, tasks, Ready, TypeInv, TypeOK, HandlersOK

\* Whom a packet about a stored message goes to: one user, or a group as it is.
Recipients(to) ==
  \/ \E u \in Users : to = {u}
  \/ \E g \in GroupIds : groups[g] # None /\ to = groups[g].members

\* The three kinds of request, as far as messages and receipts go.
LEMMA RequestCases ==
  ASSUME TypeInv, NEW c \in Conns, ExtensionRequest(c)
  PROVE  \/ \E g \in GroupIds : \E x, to :
              /\ Fanout(c, to, GroupIs(g, x))
              /\ messages' = messages
              /\ issued' \cap MessageIds = issued \cap MessageIds /\ issued \subseteq issued'
         \/ \E m \in MessageIds : \E to :
              /\ Fanout(c, to, Receipt(m, registered[c]))
              /\ registered[c] \in Users /\ m \in issued
              /\ messages' = WithReader(m, registered[c]) /\ issued' = issued
         \/ \E m \in MessageIds, to \in SUBSET Users, rec \in StoredMessage :
              \E p \in {None, Chat(m)} :
              /\ Fanout(c, to, p)
              /\ m \notin issued /\ issued' = issued \cup {m}
              /\ rec.readBy = {}
              /\ messages' = [messages EXCEPT ![m] = rec]
              /\ groups' = groups /\ (p = None \/ Recipients(to))
<1> USE DEF registry, sockets
<1>1. ASSUME NEW g \in GroupIds, NEW name, NEW ids, CreateGroup(c, g, name, ids)
      PROVE  \E x, to : /\ Fanout(c, to, GroupIs(g, x))
                        /\ messages' = messages
                        /\ issued' \cap MessageIds = issued \cap MessageIds
                        /\ issued \subseteq issued'
  BY <1>1, DispatchIsFanout, InputsAreSets DEF CreateGroup
<1>2. ASSUME NEW g \in GroupIds, NEW name, NEW ids, NEW adds, NEW removes,
             UpdateGroup(c, g, name, ids, adds, removes)
      PROVE  \E x, to : /\ Fanout(c, to, GroupIs(g, x))
                        /\ messages' = messages
                        /\ issued' \cap MessageIds = issued \cap MessageIds
                        /\ issued \subseteq issued'
  BY <1>2, DispatchIsFanout DEF UpdateGroup
<1>3. ASSUME NEW g \in GroupIds, DeleteGroup(c, g)
      PROVE  \E x, to : /\ Fanout(c, to, GroupIs(g, x))
                        /\ messages' = messages
                        /\ issued' \cap MessageIds = issued \cap MessageIds
                        /\ issued \subseteq issued'
  BY <1>3, DispatchIsFanout DEF DeleteGroup
<1>4. ASSUME NEW m \in MessageIds, NEW conv, registered[c] # None,
             RouteReadReceipt(c, m, conv, registered[c])
      PROVE  \E to : /\ Fanout(c, to, Receipt(m, registered[c]))
                     /\ registered[c] \in Users /\ m \in issued
                     /\ messages' = WithReader(m, registered[c]) /\ issued' = issued
  <2>1. \E to : Dispatch(c, to, Receipt(m, registered[c]))
    BY <1>4 DEF RouteReadReceipt
  <2>2. QED
    BY <1>4, <2>1, DispatchIsFanout DEF RouteReadReceipt, TypeInv, TypeOK
<1>5. ASSUME NEW m \in MessageIds, NEW to \in Users, NEW cuttable \in BOOLEAN,
             RouteDirectMessage(c, m, registered[c], to, cuttable)
      PROVE  \E dest \in SUBSET Users, p \in {None, Chat(m)}, rec \in StoredMessage :
               /\ Fanout(c, dest, p)
               /\ m \notin issued /\ issued' = issued \cup {m}
               /\ rec.readBy = {}
               /\ messages' = [messages EXCEPT ![m] = rec]
               /\ groups' = groups /\ (p = None \/ Recipients(dest))
  <2>1. [from |-> registered[c], to |-> to, readBy |-> {}] \in StoredMessage
    BY <1>5 DEF RouteDirectMessage, StoredMessage, TypeInv, TypeOK
  <2>2. Fanout(c, {}, None) \/ Fanout(c, {to}, Chat(m))
    BY <1>5, DispatchIsFanout, PanicIsFanout DEF RouteDirectMessage
  <2>3. \E dest \in SUBSET Users, p \in {None, Chat(m)} :
          Fanout(c, dest, p) /\ (p = None \/ Recipients(dest))
    BY <2>2 DEF Recipients
  <2>4. QED
    BY <1>5, <2>1, <2>3 DEF RouteDirectMessage, Fresh
<1>6. ASSUME NEW m \in MessageIds, NEW g \in GroupIds, NEW cuttable \in BOOLEAN,
             RouteGroupMessage(c, m, g, registered[c], cuttable)
      PROVE  \E dest \in SUBSET Users, p \in {None, Chat(m)}, rec \in StoredMessage :
               /\ Fanout(c, dest, p)
               /\ m \notin issued /\ issued' = issued \cup {m}
               /\ rec.readBy = {}
               /\ messages' = [messages EXCEPT ![m] = rec]
               /\ groups' = groups /\ (p = None \/ Recipients(dest))
  <2>1. /\ [from |-> registered[c], to |-> None, readBy |-> {}] \in StoredMessage
        /\ groups[g].members \in SUBSET Users
    BY <1>6 DEF RouteGroupMessage, StoredMessage, Group, TypeInv, TypeOK
  <2>2. Fanout(c, {}, None) \/ Fanout(c, groups[g].members, Chat(m))
    BY <1>6, DispatchIsFanout, PanicIsFanout DEF RouteGroupMessage
  <2>3. \E dest \in SUBSET Users, p \in {None, Chat(m)} :
          Fanout(c, dest, p) /\ (p = None \/ Recipients(dest))
    BY <1>6, <2>1, <2>2 DEF RouteGroupMessage, Recipients
  <2>4. QED
    BY <1>6, <2>1, <2>3 DEF RouteGroupMessage, Fresh
<1>7. QED
  BY <1>1, <1>2, <1>3, <1>4, <1>5, <1>6
     DEF ExtensionRequest, JoinGroup, LeaveGroup

----------------------------------------------------------------------------
(***************************************************************************)
(* Delivery and receipts.  DeliveredAtMostOnce and ReceiptsAreRecorded are   *)
(* inductive once ids in use are known to be issued: a fresh message cannot *)
(* be in a packet, on a queue or the subject of a receipt.                  *)
(***************************************************************************)
LEMMA DeliveryInit == Init => DeliveryInv
  BY ChatAndReceiptAreNotNone
     DEF Init, Blank, DeliveryInv, MessageIdsAreIssued, DeliveredAtMostOnce,
         ReceiptsAreRecorded

LEMMA DeliveryRestart == Restart => DeliveryInv'
  BY ChatAndReceiptAreNotNone
     DEF Restart, Blank, DeliveryInv, MessageIdsAreIssued, DeliveredAtMostOnce,
         ReceiptsAreRecorded

\* A step that starts no fan-out of a message or a receipt.
LEMMA DeliveryQuiet ==
  ASSUME TypeInv, DeliveryInv, NEW c \in Conns, NEW p,
         packet' = [packet EXCEPT ![c] = p],
         \A m \in MessageIds : p # Chat(m),
         \A m \in MessageIds, u \in Users : p # Receipt(m, u),
         \A d \in Conns : d # c => rcpt'[d] = rcpt[d],
         issued \subseteq issued', messages' = messages,
         UNCHANGED <<registered, told>>
  PROVE  DeliveryInv'
<1>1. MessageIdsAreIssued'
  BY DEF DeliveryInv, MessageIdsAreIssued, TypeInv, TypeOK
<1>2. DeliveredAtMostOnce'
  BY DEF DeliveryInv, DeliveredAtMostOnce, TypeInv, TypeOK
<1>3. ReceiptsAreRecorded'
  BY DEF DeliveryInv, ReceiptsAreRecorded, TypeInv, TypeOK
<1>4. QED
  BY <1>1, <1>2, <1>3 DEF DeliveryInv

LEMMA DeliveryReceipt ==
  ASSUME TypeInv, DeliveryInv, NEW c \in Conns, NEW m \in MessageIds, NEW to,
         Fanout(c, to, Receipt(m, registered[c])),
         registered[c] \in Users, m \in issued,
         messages' = WithReader(m, registered[c]), issued' = issued
  PROVE  DeliveryInv'
<1> DEFINE r == registered[c]
<1>1. /\ packet' = [packet EXCEPT ![c] = Receipt(m, r)] /\ packet[c] = None
      /\ \A d \in Conns : d # c => rcpt'[d] = rcpt[d]
      /\ UNCHANGED <<registered, told>>
  BY DEF Fanout, TypeInv, TypeOK
<1>2. \A x \in MessageIds : /\ messages'[x] # None <=> messages[x] # None
                            /\ messages[x] # None =>
                                 messages[x].readBy \subseteq messages'[x].readBy
                            /\ messages[m] # None => r \in messages'[m].readBy
  <2>1. CASE messages[m] = None
    BY <2>1 DEF WithReader
  <2>2. CASE messages[m] # None
    <3>1. messages[m] \in StoredMessage
      BY <2>2 DEF TypeInv, TypeOK
    <3>2. [messages[m] EXCEPT !.readBy = @ \cup {r}] \in StoredMessage
      BY <3>1 DEF StoredMessage
    <3>3. messages' = [messages EXCEPT ![m] = [messages[m] EXCEPT !.readBy = @ \cup {r}]]
      BY <2>2 DEF WithReader
    <3>4. [messages[m] EXCEPT !.readBy = @ \cup {r}].readBy = messages[m].readBy \cup {r}
      BY <3>1 DEF StoredMessage
    <3>5. QED
      BY <2>2, <3>2, <3>3, <3>4, NoneIsFresh DEF TypeInv, TypeOK
  <2>3. QED
    BY <2>1, <2>2
<1>3. MessageIdsAreIssued'
  BY <1>1, <1>2, ChatIsNotOther DEF DeliveryInv, MessageIdsAreIssued, TypeInv, TypeOK
<1>4. DeliveredAtMostOnce'
  BY <1>1, ChatIsNotOther DEF DeliveryInv, DeliveredAtMostOnce, TypeInv, TypeOK
<1>5. ReceiptsAreRecorded'
  <2> SUFFICES ASSUME NEW d \in Conns, NEW x \in MessageIds, NEW u \in Users,
                      packet'[d] = Receipt(x, u), messages'[x] # None
               PROVE  u \in messages'[x].readBy
    BY DEF ReceiptsAreRecorded
  <2>1. CASE d = c
    BY <1>1, <1>2, <2>1, ChatIsNotOther DEF TypeInv, TypeOK
  <2>2. CASE d # c
    BY <1>1, <1>2, <2>2 DEF DeliveryInv, ReceiptsAreRecorded, TypeInv, TypeOK
  <2>3. QED
    BY <2>1, <2>2
<1>6. QED
  BY <1>3, <1>4, <1>5 DEF DeliveryInv

LEMMA DeliveryPost ==
  ASSUME TypeInv, DeliveryInv, NEW c \in Conns, NEW m \in MessageIds,
         NEW to \in SUBSET Users, NEW rec \in StoredMessage, NEW p \in {None, Chat(m)},
         Fanout(c, to, p), m \notin issued, issued' = issued \cup {m},
         messages' = [messages EXCEPT ![m] = rec]
  PROVE  DeliveryInv'
<1>1. /\ packet' = [packet EXCEPT ![c] = p] /\ packet[c] = None
      /\ rcpt' = [rcpt EXCEPT ![c] = to]
      /\ UNCHANGED <<registered, told>>
  BY DEF Fanout
<1>2. \A d \in Conns : /\ packet[d] # Chat(m) /\ m \notin told[d].chats
                       /\ \A u \in Users : packet[d] # Receipt(m, u)
  BY DEF DeliveryInv, MessageIdsAreIssued
<1>3. \A x \in MessageIds : p = Chat(x) => x = m
  BY ChatIsNotOther, ChatAndReceiptAreNotNone
<1>4. \A x \in MessageIds, u \in Users : p # Receipt(x, u)
  BY ChatIsNotOther, ChatAndReceiptAreNotNone
<1>5. MessageIdsAreIssued'
  BY <1>1, <1>3, <1>4 DEF DeliveryInv, MessageIdsAreIssued, TypeInv, TypeOK
<1>6. DeliveredAtMostOnce'
  BY <1>1, <1>2, <1>3 DEF DeliveryInv, DeliveredAtMostOnce, TypeInv, TypeOK
<1>7. ReceiptsAreRecorded'
  BY <1>1, <1>2, <1>4 DEF DeliveryInv, ReceiptsAreRecorded, TypeInv, TypeOK
<1>8. QED
  BY <1>5, <1>6, <1>7 DEF DeliveryInv

LEMMA DeliverySend ==
  ASSUME TypeInv, RegistryInv, DeliveryInv, NEW c \in Conns, NEW u \in Users,
         SendToUser(c, u)
  PROVE  DeliveryInv'
<1>1. /\ UNCHANGED <<messages, issued, registered>>
      /\ u \in rcpt[c] /\ rcpt' = [rcpt EXCEPT ![c] = rcpt[c] \ {u}]
      /\ packet' \in {packet, [packet EXCEPT ![c] = None]}
      /\ packet[c] \in ServerMessage
  BY DEF SendToUser, Remaining, registry, store, sockets, TypeInv, TypeOK, HandlersOK
<1>2. \A d \in Conns, m \in MessageIds :
        m \in told'[d].chats /\ m \notin told[d].chats
          => packet[c] = Chat(m) /\ registered[d] = u
  <2> SUFFICES ASSUME NEW d \in Conns, NEW m \in MessageIds,
                      m \in told'[d].chats, m \notin told[d].chats
               PROVE  packet[c] = Chat(m) /\ registered[d] = u
    OBVIOUS
  <2>1. d = clients[u] /\ told'[d] = Tell(told[d], packet[c])
    BY DEF SendToUser, TypeInv, TypeOK
  <2>2. packet[c].type = "chat" /\ packet[c].message = m
    <3>1. told[d] \in View
      BY DEF TypeInv, TypeOK
    <3>2. told'[d].chats = IF packet[c].type = "chat"
                             THEN told[d].chats \cup {packet[c].message}
                             ELSE told[d].chats
      BY <1>1, <2>1, <3>1, TellChats
    <3>3. QED
      BY <3>2
  <2>3. packet[c] = Chat(m)
    <3>1. packet[c] \in [type : {"chat"}, message : MessageIds]
      BY <1>1, <2>2 DEF ServerMessage
    <3>2. QED
      BY <2>2, <3>1 DEF Chat
  <2>4. QED
    BY <2>1, <2>3 DEF RegistryInv, RouteIsLive
<1>3. \A d \in Conns : packet'[d] # None => packet'[d] = packet[d]
  BY <1>1 DEF TypeInv, TypeOK
<1>4. MessageIdsAreIssued'
  BY <1>1, <1>2, <1>3, ChatAndReceiptAreNotNone DEF DeliveryInv, MessageIdsAreIssued
<1>5. DeliveredAtMostOnce'
  <2> SUFFICES ASSUME NEW e \in Conns, NEW m \in MessageIds, packet'[e] = Chat(m)
               PROVE  /\ \A d \in Conns : packet'[d] = Chat(m) => d = e
                      /\ \A d \in Conns :
                           registered[d] \in rcpt'[e] => m \notin told'[d].chats
    BY <1>1 DEF DeliveredAtMostOnce
  <2>1. packet[e] = Chat(m)
    BY <1>3, ChatAndReceiptAreNotNone
  <2>2. \A d \in Conns : packet'[d] = Chat(m) => d = e
    BY <1>3, <2>1, ChatAndReceiptAreNotNone DEF DeliveryInv, DeliveredAtMostOnce
  <2>3. ASSUME NEW d \in Conns, registered[d] \in rcpt'[e]
        PROVE  m \notin told'[d].chats
    <3>1. registered[d] \in rcpt[e] /\ (e = c => registered[d] # u)
      BY <1>1, <2>3 DEF TypeInv, TypeOK
    <3>2. m \notin told[d].chats
      BY <2>1, <3>1 DEF DeliveryInv, DeliveredAtMostOnce
    <3>3. packet[c] = Chat(m) => e = c
      BY <2>1 DEF DeliveryInv, DeliveredAtMostOnce
    <3>4. QED
      BY <1>2, <3>1, <3>2, <3>3
  <2>4. QED
    BY <2>2, <2>3
<1>6. ReceiptsAreRecorded'
  BY <1>1, <1>3, ChatAndReceiptAreNotNone DEF DeliveryInv, ReceiptsAreRecorded
<1>7. QED
  BY <1>4, <1>5, <1>6 DEF DeliveryInv

LEMMA DeliveryRegister ==
  ASSUME TypeInv, RegistryInv, DeliveryInv, NEW c \in Conns, NEW u \in Users,
         RegisterUser(c, u)
  PROVE  DeliveryInv'
<1>1. /\ UNCHANGED <<messages, issued, rcpt>>
      /\ packet' = [packet EXCEPT ![c] = Presence(u, TRUE)]
      /\ registered' = [registered EXCEPT ![c] = u]
      /\ registered[c] \in {None, u}
  BY DEF RegisterUser, DispatchToAll, store
<1>2. \A d \in Conns : told'[d].chats = told[d].chats
  BY HelloKeepsChats
<1>3. registered[c] = None => told[c].chats = {}
  BY DEF RegistryInv, NothingBeforeHello, Blank
<1>4. /\ \A m \in MessageIds : Presence(u, TRUE) # Chat(m)
      /\ \A m \in MessageIds, v \in Users : Presence(u, TRUE) # Receipt(m, v)
  BY ChatIsNotOther
<1>5. \A d \in Conns : d # c => packet'[d] = packet[d] /\ registered'[d] = registered[d]
  BY <1>1 DEF TypeInv, TypeOK
<1>6. packet'[c] = Presence(u, TRUE) /\ registered'[c] = u
  BY <1>1 DEF TypeInv, TypeOK
<1>7. MessageIdsAreIssued'
  BY <1>1, <1>2, <1>4, <1>5, <1>6 DEF DeliveryInv, MessageIdsAreIssued
<1>8. DeliveredAtMostOnce'
  <2> SUFFICES ASSUME NEW e \in Conns, NEW m \in MessageIds, packet'[e] = Chat(m)
               PROVE  /\ \A d \in Conns : packet'[d] = Chat(m) => d = e
                      /\ \A d \in Conns :
                           registered'[d] \in rcpt[e] => m \notin told'[d].chats
    BY <1>1 DEF DeliveredAtMostOnce
  <2>1. e # c /\ packet[e] = Chat(m)
    BY <1>4, <1>5, <1>6
  <2>2. \A d \in Conns : packet'[d] = Chat(m) => d = e
    BY <1>4, <1>5, <1>6, <2>1 DEF DeliveryInv, DeliveredAtMostOnce
  <2>3. ASSUME NEW d \in Conns, registered'[d] \in rcpt[e]
        PROVE  m \notin told'[d].chats
    <3>1. registered[d] \in rcpt[e] => m \notin told[d].chats
      BY <2>1 DEF DeliveryInv, DeliveredAtMostOnce
    <3>2. CASE d # c
      BY <1>2, <1>5, <2>3, <3>1, <3>2
    <3>3. CASE d = c
      BY <1>1, <1>2, <1>3, <1>6, <2>3, <3>1, <3>3
    <3>4. QED
      BY <3>2, <3>3
  <2>4. QED
    BY <2>2, <2>3
<1>9. ReceiptsAreRecorded'
  BY <1>1, <1>4, <1>5, <1>6 DEF DeliveryInv, ReceiptsAreRecorded
<1>10. QED
  BY <1>7, <1>8, <1>9 DEF DeliveryInv

LEMMA DeliveryDrop ==
  ASSUME TypeInv, DeliveryInv, NEW c \in Conns, DropConnection(c)
  PROVE  DeliveryInv'
<1>1. /\ UNCHANGED <<messages, issued, rcpt, packet>>
      /\ told' = [told EXCEPT ![c] = Blank] /\ Blank.chats = {}
      /\ registered' = [registered EXCEPT ![c] = None]
  BY DEF DropConnection, store, tasks, Blank
<1>2. QED
  BY <1>1 DEF DeliveryInv, MessageIdsAreIssued, DeliveredAtMostOnce,
              ReceiptsAreRecorded, TypeInv, TypeOK

LEMMA DeliveryRequest ==
  ASSUME TypeInv, DeliveryInv, NEW c \in Conns, ExtensionRequest(c)
  PROVE  DeliveryInv'
<1>1. ASSUME NEW g \in GroupIds, NEW x, NEW to,
             Fanout(c, to, GroupIs(g, x)), messages' = messages,
             issued \subseteq issued'
      PROVE  DeliveryInv'
  <2>1. /\ \A m \in MessageIds : GroupIs(g, x) # Chat(m)
        /\ \A m \in MessageIds, v \in Users : GroupIs(g, x) # Receipt(m, v)
    BY ChatIsNotOther
  <2>2. /\ packet' = [packet EXCEPT ![c] = GroupIs(g, x)]
        /\ \A d \in Conns : d # c => rcpt'[d] = rcpt[d]
        /\ UNCHANGED <<registered, told>>
    BY <1>1 DEF Fanout, TypeInv, TypeOK
  <2>3. QED
    BY <1>1, <2>1, <2>2, DeliveryQuiet
<1>2. QED
  BY <1>1, RequestCases, DeliveryReceipt, DeliveryPost

LEMMA DeliveryStep ==
  TypeInv /\ RegistryInv /\ DeliveryInv /\ [Next]_vars => DeliveryInv'
<1> SUFFICES ASSUME TypeInv, RegistryInv, DeliveryInv, [Next]_vars
             PROVE  DeliveryInv'
  OBVIOUS
<1> USE DEF registry, store, sockets, tasks
<1>1. ASSUME NEW c \in Conns, Accept(c) \/ LoseConnection(c)
      PROVE  DeliveryInv'
  BY <1>1 DEF Accept, LoseConnection, DeliveryInv, MessageIdsAreIssued,
              DeliveredAtMostOnce, ReceiptsAreRecorded
<1>2. ASSUME NEW c \in Conns, MarkUserOffline(c)
      PROVE  DeliveryInv'
  <2>1. /\ \A m \in MessageIds : Presence(registered[c], FALSE) # Chat(m)
        /\ \A m \in MessageIds, v \in Users :
             Presence(registered[c], FALSE) # Receipt(m, v)
    BY ChatIsNotOther
  <2>2. /\ packet' = [packet EXCEPT ![c] = Presence(registered[c], FALSE)]
        /\ UNCHANGED <<rcpt, messages, issued, registered, told>>
    BY <1>2 DEF MarkUserOffline, DispatchToAll
  <2>3. QED
    BY <2>1, <2>2, DeliveryQuiet
<1>3. ASSUME NEW c \in Conns, Broadcast(c)
      PROVE  DeliveryInv'
  <2>1. packet'[c] \in {packet[c], None} /\ rcpt[c] = {}
    BY <1>3 DEF Broadcast, TypeInv, TypeOK, HandlersOK
  <2>2. \A d \in Conns : d # c => packet'[d] = packet[d] /\ rcpt'[d] = rcpt[d]
    BY <1>3 DEF Broadcast, TypeInv, TypeOK
  <2>3. \A m \in MessageIds : packet[c] # Chat(m) \/ packet'[c] = None
    BY <1>3 DEF Broadcast, Chat, TypeInv, HandlersOK
  <2>4. QED
    BY <1>3, <2>1, <2>2, <2>3, ChatAndReceiptAreNotNone
       DEF Broadcast, DeliveryInv, MessageIdsAreIssued, DeliveredAtMostOnce,
           ReceiptsAreRecorded
<1>4. CASE UNCHANGED vars
  BY <1>4 DEF vars, DeliveryInv, MessageIdsAreIssued, DeliveredAtMostOnce,
              ReceiptsAreRecorded
<1>5. QED
  BY <1>1, <1>2, <1>3, <1>4, DeliveryRestart, DeliverySend, DeliveryRegister,
     DeliveryDrop, DeliveryRequest
     DEF Next, AnswerRequester

----------------------------------------------------------------------------
(***************************************************************************)
(* No missed message.  A request changes what the conversations of a user   *)
(* show in one of two ways: nothing new appears, or the posted message does *)
(* and its fan-out starts with everybody it appears to but its sender.      *)
(***************************************************************************)
LEMMA RequestConversations ==
  ASSUME TypeInv, NEW c \in Conns, ExtensionRequest(c)
  PROVE  \/ \A v \in Users : ConversationsForUser(v)' \subseteq ConversationsForUser(v)
         \/ \E m \in MessageIds :
              /\ packet'[c] = Chat(m) /\ messages'[m] # None
              /\ \A v \in Users :
                   /\ ConversationsForUser(v)' \subseteq ConversationsForUser(v) \cup {m}
                   /\ m \in ConversationsForUser(v)' \ ConversationsForUser(v)
                        => v \in rcpt'[c] \/ messages'[m].from = v
<1> DEFINE Fewer == \A v \in Users :
                      ConversationsForUser(v)' \subseteq ConversationsForUser(v)
<1>1. CASE UNCHANGED <<groups, groupConvs, directConvs>>
  <2>1. Fewer
    BY <1>1 DEF ConversationsForUser
  <2>2. QED
    BY <2>1
<1>2. ASSUME NEW g \in GroupIds, NEW group \in Group, StoreGroup(g, group),
             UNCHANGED directConvs
      PROVE  Fewer
  <2>1. [title |-> group.name, preview |-> None].preview = None
    OBVIOUS
  <2>2. /\ groupConvs'[g].preview = None
        /\ \A x \in GroupIds : x # g => groups'[x] = groups[x] /\ groupConvs'[x] = groupConvs[x]
    BY <1>2, <2>1 DEF StoreGroup, TypeInv, TypeOK
  <2>3. QED
    BY <1>2, <2>2, NoneIsFresh DEF ConversationsForUser
<1>3. ASSUME NEW g \in GroupIds, DeleteGroup(c, g)
      PROVE  Fewer
  <2>1. /\ groups'[g] = None /\ directConvs' = directConvs
        /\ \A x \in GroupIds : x # g => groups'[x] = groups[x] /\ groupConvs'[x] = groupConvs[x]
    BY <1>3 DEF DeleteGroup, TypeInv, TypeOK
  <2>2. QED
    BY <2>1 DEF ConversationsForUser
<1>4. ASSUME NEW g \in GroupIds, NEW name \in GroupNames, NEW ids \in Memberships,
             CreateGroup(c, g, name, ids)
      PROVE  Fewer
  <2> DEFINE group == [name |-> name, owner |-> registered[c],
                       members |-> ids \cup {registered[c]}]
  <2>1. group \in Group
    BY <1>4, InputsAreSets DEF CreateGroup, Group, TypeInv, TypeOK
  <2>2. StoreGroup(g, group) /\ UNCHANGED directConvs
    BY <1>4 DEF CreateGroup
  <2>3. QED
    BY <1>2, <2>1, <2>2
<1>5. ASSUME NEW g \in GroupIds, NEW name \in GroupNames \cup {None},
             NEW ids \in ProtocolLists \cup {None},
             NEW adds \in (SUBSET Users) \cup {None}, NEW removes,
             UpdateGroup(c, g, name, ids, adds, removes)
      PROVE  Fewer
  <2> DEFINE group == [name |-> IF name = None THEN groups[g].name ELSE name,
                       owner |-> groups[g].owner,
                       members |-> UpdatedMembers(groups[g], ids, adds, removes)]
  <2>1. groups[g] \in Group
    BY <1>5 DEF UpdateGroup, TypeInv, TypeOK
  <2>2. group \in Group
    BY <2>1, UpdatedMembersType DEF Group
  <2>3. StoreGroup(g, group) /\ UNCHANGED directConvs
    BY <1>5 DEF UpdateGroup
  <2>4. QED
    BY <1>2, <2>2, <2>3
<1>6. ASSUME NEW m \in MessageIds, NEW to \in Users, NEW cuttable \in BOOLEAN,
             RouteDirectMessage(c, m, registered[c], to, cuttable)
      PROVE  \/ UNCHANGED <<groups, groupConvs, directConvs>>
             \/ /\ packet'[c] = Chat(m) /\ messages'[m] # None
                /\ \A v \in Users :
                     /\ ConversationsForUser(v)' \subseteq ConversationsForUser(v) \cup {m}
                     /\ m \in ConversationsForUser(v)' \ ConversationsForUser(v)
                          => v \in rcpt'[c] \/ messages'[m].from = v
  <2> DEFINE rec == [from |-> registered[c], to |-> to, readBy |-> {}]
             pair == {registered[c], to}
  <2>1. CASE PanicInPreview(c)
    BY <1>6, <2>1 DEF RouteDirectMessage, PanicInPreview
  <2>2. CASE ~PanicInPreview(c)
    <3>1. /\ registered[c] \in Users /\ UNCHANGED <<groups, groupConvs>>
          /\ directConvs' = [directConvs EXCEPT ![pair] = m]
          /\ messages' = [messages EXCEPT ![m] = rec]
          /\ Dispatch(c, {to}, Chat(m))
      BY <1>6, <2>2 DEF RouteDirectMessage, TypeInv, TypeOK
    <3>2. rec \in StoredMessage /\ rec.from = registered[c] /\ rec # None
      BY <3>1, NoneIsFresh DEF StoredMessage
    <3> HIDE DEF rec
    <3>3. /\ packet'[c] = Chat(m) /\ rcpt'[c] = {to}
          /\ messages'[m] = rec
      BY <3>1 DEF Dispatch, TypeInv, TypeOK
    <3>4. /\ \A p \in DirectPairs : directConvs'[p] \in {directConvs[p], m}
          /\ \A p \in DirectPairs : p # pair => directConvs'[p] = directConvs[p]
      BY <3>1 DEF TypeInv, TypeOK
    <3>5. ASSUME NEW v \in Users
          PROVE  /\ ConversationsForUser(v)' \subseteq ConversationsForUser(v) \cup {m}
                 /\ m \in ConversationsForUser(v)' \ ConversationsForUser(v) => v \in pair
      BY <3>1, <3>4 DEF ConversationsForUser
    <3>6. QED
      BY <3>2, <3>3, <3>5
  <2>3. QED
    BY <2>1, <2>2
<1>7. ASSUME NEW m \in MessageIds, NEW g \in GroupIds, NEW cuttable \in BOOLEAN,
             RouteGroupMessage(c, m, g, registered[c], cuttable)
      PROVE  \/ UNCHANGED <<groups, groupConvs, directConvs>>
             \/ /\ packet'[c] = Chat(m) /\ messages'[m] # None
                /\ \A v \in Users :
                     /\ ConversationsForUser(v)' \subseteq ConversationsForUser(v) \cup {m}
                     /\ m \in ConversationsForUser(v)' \ ConversationsForUser(v)
                          => v \in rcpt'[c] \/ messages'[m].from = v
  <2> DEFINE rec == [from |-> registered[c], to |-> None, readBy |-> {}]
             conv == [title |-> groups[g].name, preview |-> m]
  <2>1. CASE PanicInPreview(c)
    BY <1>7, <2>1 DEF RouteGroupMessage, PanicInPreview
  <2>2. CASE ~PanicInPreview(c)
    <3>1. /\ UNCHANGED <<groups, directConvs>> /\ groups[g] # None
          /\ groupConvs' = [groupConvs EXCEPT ![g] = conv] /\ conv.preview = m
          /\ messages' = [messages EXCEPT ![m] = rec]
          /\ Dispatch(c, groups[g].members, Chat(m))
      BY <1>7, <2>2 DEF RouteGroupMessage
    <3>2. rec \in StoredMessage /\ rec # None
      BY <1>7, NoneIsFresh DEF RouteGroupMessage, StoredMessage, TypeInv, TypeOK
    <3> HIDE DEF rec, conv
    <3>3. /\ packet'[c] = Chat(m) /\ rcpt'[c] = groups[g].members
          /\ messages'[m] = rec
      BY <3>1 DEF Dispatch, TypeInv, TypeOK
    <3>4. /\ groupConvs'[g] = conv
          /\ \A x \in GroupIds : x # g => groupConvs'[x] = groupConvs[x]
      BY <3>1 DEF TypeInv, TypeOK
    <3>5. ASSUME NEW v \in Users
          PROVE  /\ ConversationsForUser(v)' \subseteq ConversationsForUser(v) \cup {m}
                 /\ m \in ConversationsForUser(v)' \ ConversationsForUser(v)
                      => v \in groups[g].members
      BY <3>1, <3>4 DEF ConversationsForUser
    <3>6. QED
      BY <3>2, <3>3, <3>5
  <2>3. QED
    BY <2>1, <2>2
<1>8. ASSUME NEW m \in MessageIds, NEW conv, RouteReadReceipt(c, m, conv, registered[c])
      PROVE  UNCHANGED <<groups, groupConvs, directConvs>>
  BY <1>8 DEF RouteReadReceipt
<1>9. \A g \in GroupIds : JoinGroup(c, g) => Fewer
  <2>1. \A g \in GroupIds : JoinGroup(c, g) => {registered[c]} \in SUBSET Users
    BY DEF JoinGroup, TypeInv, TypeOK
  <2>2. QED
    BY <1>5, <2>1 DEF JoinGroup
<1>10. \A g \in GroupIds : LeaveGroup(c, g) => Fewer
  BY <1>5 DEF LeaveGroup
<1>11. QED
  BY <1>1, <1>3, <1>4, <1>5, <1>6, <1>7, <1>8, <1>9, <1>10, InputsAreSets
     DEF ExtensionRequest

\* A stored message stays, with its sender, until the process is restarted.
LEMMA RequestKeepsMessages ==
  ASSUME TypeInv, DeliveryInv, NEW c \in Conns, ExtensionRequest(c),
         NEW x \in MessageIds, messages[x] # None
  PROVE  messages'[x] # None /\ messages'[x].from = messages[x].from
<1>1. CASE messages' = messages
  BY <1>1
<1>2. ASSUME NEW m \in MessageIds, messages' = WithReader(m, registered[c]),
             registered[c] \in Users
      PROVE  messages'[x] # None /\ messages'[x].from = messages[x].from
  <2> DEFINE read == [messages[m] EXCEPT !.readBy = @ \cup {registered[c]}]
  <2>1. CASE messages[m] = None \/ x # m
    BY <1>2, <2>1 DEF WithReader, TypeInv, TypeOK
  <2>2. CASE messages[m] # None /\ x = m
    <3>1. messages[m] \in StoredMessage
      BY <2>2 DEF TypeInv, TypeOK
    <3>2. read \in StoredMessage /\ read.from = messages[m].from
      BY <1>2, <3>1 DEF StoredMessage
    <3>3. messages'[m] = read
      BY <1>2, <2>2 DEF WithReader, TypeInv, TypeOK
    <3>4. QED
      BY <2>2, <3>2, <3>3, NoneIsFresh
  <2>3. QED
    BY <2>1, <2>2
<1>3. ASSUME NEW m \in MessageIds, NEW rec, m \notin issued,
             messages' = [messages EXCEPT ![m] = rec]
      PROVE  messages'[x] # None /\ messages'[x].from = messages[x].from
  <2>1. x # m
    BY <1>3 DEF DeliveryInv, MessageIdsAreIssued
  <2>2. QED
    BY <1>3, <2>1 DEF TypeInv, TypeOK
<1>4. QED
  BY <1>1, <1>2, <1>3, RequestCases

LEMMA RequestIsFanout ==
  ASSUME TypeInv, NEW c \in Conns, ExtensionRequest(c)
  PROVE  /\ UNCHANGED <<clients, told>> /\ rcpt[c] = {}
         /\ \A d \in Conns : d # c => rcpt'[d] = rcpt[d] /\ packet'[d] = packet[d]
<1>1. \E to, p : Fanout(c, to, p)
  BY RequestCases
<1>2. QED
  BY <1>1 DEF Fanout, TypeInv, TypeOK

LEMMA MessageRequest ==
  ASSUME TypeInv, DeliveryInv, MessageInv, NEW c \in Conns, ExtensionRequest(c)
  PROVE  MessageInv'
<1>1. ASSUME NEW v \in Users, NEW x \in MessageIds, x \in ConversationsForUser(v)
      PROVE  /\ messages'[x] # None /\ messages'[x].from = messages[x].from
             /\ clients[v] # None =>
                  Learned(v, x) \/ Addressed(v, x)' \/ messages'[x].from = v
  <2>1. messages[x] # None
    BY <1>1 DEF MessageInv, ConversationsAreStored
  <2>2. messages'[x] # None /\ messages'[x].from = messages[x].from
    BY <2>1, RequestKeepsMessages
  <2>3. Addressed(v, x) => Addressed(v, x)'
    BY RequestIsFanout DEF Addressed
  <2>4. QED
    BY <1>1, <2>2, <2>3 DEF MessageInv, NoMissedMessage
<1>2. \A v \in Users, x \in MessageIds : Learned(v, x)' <=> Learned(v, x)
  BY RequestIsFanout DEF Learned
<1>3. CASE \A v \in Users : ConversationsForUser(v)' \subseteq ConversationsForUser(v)
  BY <1>1, <1>2, <1>3, RequestIsFanout
     DEF MessageInv, ConversationsAreStored, NoMissedMessage
<1>4. ASSUME NEW m \in MessageIds,
             packet'[c] = Chat(m), messages'[m] # None,
             \A v \in Users :
               /\ ConversationsForUser(v)' \subseteq ConversationsForUser(v) \cup {m}
               /\ m \in ConversationsForUser(v)' \ ConversationsForUser(v)
                    => v \in rcpt'[c] \/ messages'[m].from = v
      PROVE  MessageInv'
  <2>1. ConversationsAreStored'
    BY <1>1, <1>4 DEF ConversationsAreStored
  <2>2. ASSUME NEW v \in Users, NEW x \in MessageIds,
               clients'[v] # None, x \in ConversationsForUser(v)'
        PROVE  Learned(v, x)' \/ Addressed(v, x)' \/ messages'[x].from = v
    <3>1. CASE x \in ConversationsForUser(v)
      BY <1>1, <1>2, <2>2, <3>1, RequestIsFanout
    <3>2. CASE x \notin ConversationsForUser(v)
      <4>1. x = m
        BY <1>4, <2>2, <3>2
      <4>2. v \in rcpt'[c] => Addressed(v, x)'
        BY <1>4, <4>1 DEF Addressed
      <4>3. QED
        BY <1>4, <2>2, <3>2, <4>1, <4>2
    <3>3. QED
      BY <3>1, <3>2
  <2>3. QED
    BY <2>1, <2>2 DEF MessageInv, NoMissedMessage
<1>5. QED
  BY <1>3, <1>4, RequestConversations

\* Steps that leave the store alone leave what conversations show alone.
LEMMA StoreKeepsConversations ==
  ASSUME UNCHANGED store
  PROVE  /\ \A v \in Users : ConversationsForUser(v)' = ConversationsForUser(v)
         /\ UNCHANGED messages
         /\ ConversationsAreStored => ConversationsAreStored'
  BY DEF store, ConversationsForUser, ConversationsAreStored

LEMMA MessageSend ==
  ASSUME TypeInv, RegistryInv, MessageInv, NEW c \in Conns, NEW u \in Users,
         SendToUser(c, u)
  PROVE  MessageInv'
<1>1. /\ UNCHANGED <<clients, store>>
      /\ u \in rcpt[c] /\ rcpt' = [rcpt EXCEPT ![c] = rcpt[c] \ {u}]
      /\ \/ packet' = packet
         \/ packet' = [packet EXCEPT ![c] = None] /\ rcpt'[c] = {}
      /\ packet[c] \in ServerMessage
  BY DEF SendToUser, Remaining, registry, TypeInv, TypeOK, HandlersOK
<1>2. NoMissedMessage'
  <2> SUFFICES ASSUME NEW v \in Users, NEW m \in MessageIds, clients[v] # None,
                      m \in ConversationsForUser(v)
               PROVE  Learned(v, m)' \/ Addressed(v, m)' \/ messages[m].from = v
    BY <1>1, StoreKeepsConversations DEF NoMissedMessage
  <2> DEFINE d == clients[v]
  <2>1. d \in Conns /\ registered[d] = v /\ told[d] \in View
    BY DEF RegistryInv, RouteIsLive, TypeInv, TypeOK
  <2>2. Learned(v, m) \/ Addressed(v, m) \/ messages[m].from = v
    BY DEF MessageInv, NoMissedMessage
  <2>3. CASE v # u
    <3>1. told'[d] = told[d]
      <4>1. clients[u] # d
        BY <2>1, <2>3 DEF RegistryInv, RouteIsLive
      <4>2. QED
        BY <2>1, <4>1 DEF SendToUser, TypeInv, TypeOK
    <3>2. Addressed(v, m) => Addressed(v, m)'
      BY <1>1, <2>3 DEF Addressed, TypeInv, TypeOK
    <3>3. QED
      BY <1>1, <2>2, <3>1, <3>2 DEF Learned
  <2>4. CASE v = u
    <3>1. told'[d] = Tell(told[d], packet[c])
      BY <2>1, <2>4 DEF SendToUser, TypeInv, TypeOK
    <3>2. /\ told'[d].chats = IF packet[c].type = "chat"
                                THEN told[d].chats \cup {packet[c].message}
                                ELSE told[d].chats
          /\ told'[d].previews = told[d].previews
      <4>1. PICK w \in View, p \in ServerMessage : w = told[d] /\ p = packet[c]
        BY <1>1, <2>1
      <4>2. told'[d] = Tell(w, p)
        BY <3>1, <4>1
      <4>3. /\ Tell(w, p).chats = IF p.type = "chat" THEN w.chats \cup {p.message}
                                                     ELSE w.chats
            /\ Tell(w, p).previews = w.previews
        BY TellChats
      <4>4. QED
        BY ONLY <4>1, <4>2, <4>3
    <3>3. Learned(v, m) => Learned(v, m)'
      BY <1>1, <3>2 DEF Learned
    <3>4. CASE packet[c] = Chat(m)
      <4>1. packet[c].type = "chat" /\ packet[c].message = m
        BY <3>4 DEF Chat
      <4>2. QED
        BY <1>1, <3>2, <4>1 DEF Learned
    <3>5. CASE packet[c] # Chat(m)
      <4>1. Addressed(v, m) => Addressed(v, m)'
        BY <1>1, <3>5 DEF Addressed, TypeInv, TypeOK
      <4>2. QED
        BY <2>2, <3>3, <4>1
    <3>6. QED
      BY <3>4, <3>5
  <2>5. QED
    BY <2>3, <2>4
<1>3. QED
  BY <1>1, <1>2, StoreKeepsConversations DEF MessageInv

LEMMA MessageRegister ==
  ASSUME TypeInv, RegistryInv, MessageInv, NEW c \in Conns, NEW u \in Users,
         RegisterUser(c, u)
  PROVE  MessageInv'
<1>1. /\ UNCHANGED <<store, rcpt>> /\ rcpt[c] = {}
      /\ packet' = [packet EXCEPT ![c] = Presence(u, TRUE)]
      /\ clients' = [clients EXCEPT ![u] = c] /\ registered[c] \in {None, u}
  BY DEF RegisterUser, DispatchToAll, Ready, TypeInv, HandlersOK
<1>2. NoMissedMessage'
  <2> SUFFICES ASSUME NEW v \in Users, NEW m \in MessageIds, clients'[v] # None,
                      m \in ConversationsForUser(v)
               PROVE  Learned(v, m)' \/ Addressed(v, m)' \/ messages[m].from = v
    BY <1>1, StoreKeepsConversations DEF NoMissedMessage
  <2>1. CASE v = u
    <3>1. told'[c].previews = ConversationsForUser(u)
      BY DEF RegisterUser, HelloAck, TypeInv, TypeOK, View
    <3>2. clients'[v] = c
      BY <1>1, <2>1 DEF TypeInv, TypeOK
    <3>3. QED
      BY <2>1, <3>1, <3>2 DEF Learned
  <2>2. CASE v # u
    <3>1. clients'[v] = clients[v] /\ clients[v] # c
      BY <1>1, <2>2, NoneIsFresh DEF RegistryInv, RouteIsLive, TypeInv, TypeOK
    <3>2. told'[clients[v]] = told[clients[v]]
      BY <2>2, <3>1 DEF RegisterUser, TypeInv, TypeOK
    <3>3. Addressed(v, m) => Addressed(v, m)'
      BY <1>1 DEF Addressed, TypeInv, TypeOK
    <3>4. QED
      BY <3>1, <3>2, <3>3 DEF MessageInv, NoMissedMessage, Learned
  <2>3. QED
    BY <2>1, <2>2
<1>3. QED
  BY <1>1, <1>2, StoreKeepsConversations DEF MessageInv

\* A step by which at most one route or one unused queue goes away.
LEMMA MessageQuiet ==
  ASSUME TypeInv, MessageInv, UNCHANGED store,
         \A d \in Conns : rcpt[d] # {} => rcpt'[d] = rcpt[d] /\ packet'[d] = packet[d],
         \A v \in Users : clients'[v] # None =>
                            clients'[v] = clients[v] /\ told'[clients[v]] = told[clients[v]]
  PROVE  MessageInv'
<1>1. ASSUME NEW v \in Users, NEW m \in MessageIds, Addressed(v, m)
      PROVE  Addressed(v, m)'
  BY <1>1 DEF Addressed
<1>2. NoMissedMessage'
  BY <1>1, StoreKeepsConversations DEF MessageInv, NoMissedMessage, Learned
<1>3. QED
  BY <1>2, StoreKeepsConversations DEF MessageInv

LEMMA MessageEmpty ==
  ASSUME \A p \in DirectPairs : directConvs[p] = None,
         \A g \in GroupIds : groups[g] = None
  PROVE  MessageInv
  BY NoneIsFresh
     DEF MessageInv, ConversationsAreStored, NoMissedMessage, ConversationsForUser

LEMMA MessageInit == Init => MessageInv
  BY MessageEmpty DEF Init

LEMMA MessageRestart == Restart => MessageInv'
<1> SUFFICES ASSUME Restart
             PROVE  MessageInv'
  OBVIOUS
<1>1. \A u \in Users : clients'[u] = None /\ ConversationsForUser(u)' = {}
  BY NoneIsFresh DEF Restart, ConversationsForUser
<1>2. QED
  BY <1>1 DEF MessageInv, ConversationsAreStored, NoMissedMessage

LEMMA MessageStep ==
  TypeInv /\ RegistryInv /\ DeliveryInv /\ MessageInv /\ [Next]_vars => MessageInv'
<1> SUFFICES ASSUME TypeInv, RegistryInv, DeliveryInv, MessageInv, [Next]_vars
             PROVE  MessageInv'
  OBVIOUS
<1>1. ASSUME NEW c \in Conns, Accept(c) \/ LoseConnection(c)
      PROVE  MessageInv'
  BY <1>1, MessageQuiet DEF Accept, LoseConnection, registry, tasks
<1>2. ASSUME NEW c \in Conns, MarkUserOffline(c)
      PROVE  MessageInv'
  BY <1>2, MessageQuiet
     DEF MarkUserOffline, DispatchToAll, TypeInv, TypeOK, HandlersOK
<1>3. ASSUME NEW c \in Conns, Broadcast(c)
      PROVE  MessageInv'
  BY <1>3, MessageQuiet DEF Broadcast, registry, TypeInv, TypeOK, HandlersOK
<1>4. ASSUME NEW c \in Conns, DropConnection(c)
      PROVE  MessageInv'
  <2>1. \A u \in Users : clients[u] # c
    BY <1>4, NoneIsFresh DEF DropConnection, RegistryInv, RouteIsLive, TypeInv, TypeOK
  <2>2. QED
    BY <1>4, <2>1, MessageQuiet DEF DropConnection, registry, tasks, TypeInv, TypeOK
<1>5. CASE UNCHANGED vars
  BY <1>5 DEF vars, registry, store, tasks, MessageInv, ConversationsAreStored,
              NoMissedMessage, ConversationsForUser, Learned, Addressed
<1>6. QED
  BY <1>1, <1>2, <1>3, <1>4, <1>5, MessageRestart, MessageSend, MessageRegister,
     MessageRequest
     DEF Next, AnswerRequester

----------------------------------------------------------------------------
(***************************************************************************)
(* Fan-out.  Every step of the server is a step of MessageFanout: a request *)
(* posts at most one message, a fan-out serves one recipient, hello opens a *)
(* queue and dropping the connection closes it.  The rest is Regroup, which *)
(* allows any change of the groups and leaves the messages alone.           *)
(***************************************************************************)
LEMMA FanoutAddresses ==
  ASSUME TypeInv, NEW c \in Conns, NEW to, NEW p, Fanout(c, to, p),
         NEW m \in MessageIds, NEW u \in Users
  PROVE  Addressed(u, m)' <=> Addressed(u, m) \/ (p = Chat(m) /\ u \in to)
<1>1. /\ packet'[c] = p /\ rcpt'[c] = to /\ rcpt[c] = {}
      /\ \A d \in Conns : d # c => packet'[d] = packet[d] /\ rcpt'[d] = rcpt[d]
  BY DEF Fanout, TypeInv, TypeOK
<1>2. QED
  BY <1>1 DEF Addressed

LEMMA RestIsRegroup ==
  ASSUME TypeInv', \A m \in MessageIds, u \in Users : Addressed(u, m)' <=> Addressed(u, m),
         issued' \cap MessageIds = issued \cap MessageIds, registered' = registered,
         \A d \in Conns : told'[d].chats = told[d].chats
  PROVE  Delivery!Regroup
<1>1. [g \in GroupIds |-> IF groups'[g] = None THEN {} ELSE groups'[g].members]
        \in [GroupIds -> SUBSET Users]
  BY DEF TypeInv, TypeOK, Group
<1>2. [m \in MessageIds |-> {u \in Users : Addressed(u, m)'}]
        = [m \in MessageIds |-> {u \in Users : Addressed(u, m)}]
  OBVIOUS
<1>3. [d \in Conns |-> told'[d].chats] = [d \in Conns |-> told[d].chats]
  OBVIOUS
<1>4. QED
  BY <1>1, <1>2, <1>3 DEF Delivery!Regroup

LEMMA RequestPosts ==
  ASSUME TypeInv, TypeInv', NEW c \in Conns, NEW m \in MessageIds, NEW to \in SUBSET Users,
         NEW p \in {None, Chat(m)}, Fanout(c, to, p), m \notin issued,
         issued' = issued \cup {m}, groups' = groups, p = None \/ Recipients(to),
         \A u \in Users : ~Addressed(u, m)
  PROVE  Delivery!Post(m)
<1> DEFINE Owed    == [x \in MessageIds |-> {u \in Users : Addressed(u, x)}]
           Members == [g \in GroupIds |-> IF groups[g] = None THEN {} ELSE groups[g].members]
<1>1. /\ m \notin issued \cap MessageIds
      /\ issued' \cap MessageIds = (issued \cap MessageIds) \cup {m}
      /\ UNCHANGED <<registered, told>> /\ Members' = Members
  BY DEF Fanout
<1>2. \A x \in MessageIds, u \in Users :
        Addressed(u, x)' <=> Addressed(u, x) \/ (p = Chat(x) /\ u \in to)
  BY FanoutAddresses
<1>3. CASE p = None
  <2>1. \A x \in MessageIds, u \in Users : Addressed(u, x)' <=> Addressed(u, x)
    BY <1>2, <1>3, ChatAndReceiptAreNotNone
  <2>2. Owed' = Owed
    BY <2>1
  <2>3. QED
    BY <1>1, <2>2 DEF Delivery!Post
<1>4. CASE p = Chat(m)
  <2>1. \A x \in MessageIds, u \in Users :
          Addressed(u, x)' <=> IF x = m THEN u \in to ELSE Addressed(u, x)
    BY <1>2, <1>4, ChatIsNotOther
  <2>2. Owed' = [Owed EXCEPT ![m] = to]
    BY <2>1
  <2>3. Recipients(to)
    BY <1>4, ChatAndReceiptAreNotNone
  <2>4. \/ \E u \in Users : Owed' = [Owed EXCEPT ![m] = {u}]
        \/ \E g \in GroupIds : Owed' = [Owed EXCEPT ![m] = Members[g]]
    <3> HIDE DEF Owed
    <3>1. QED
      BY <2>2, <2>3 DEF Recipients
  <2>5. QED
    BY <1>1, <2>4 DEF Delivery!Post
<1>5. QED
  BY <1>3, <1>4

LEMMA RequestIsFannedOut ==
  ASSUME TypeInv, TypeInv', DeliveryInv, NEW c \in Conns, ExtensionRequest(c)
  PROVE  Delivery!Regroup \/ \E m \in MessageIds : Delivery!Post(m)
<1>1. ASSUME NEW p, NEW to, Fanout(c, to, p), \A m \in MessageIds : p # Chat(m),
             issued' \cap MessageIds = issued \cap MessageIds
      PROVE  Delivery!Regroup
  <2>1. \A m \in MessageIds, u \in Users : Addressed(u, m)' <=> Addressed(u, m)
    BY <1>1, FanoutAddresses
  <2>2. QED
    BY <1>1, <2>1, RestIsRegroup DEF Fanout
<1>2. \A m, x : \A g : GroupIs(g, x) # Chat(m) /\ \A u : Receipt(x, u) # Chat(m)
  BY ChatIsNotOther
<1>3. \A m \in MessageIds, u \in Users : m \notin issued => ~Addressed(u, m)
  BY DEF DeliveryInv, MessageIdsAreIssued, Addressed
<1>4. QED
  BY <1>1, <1>2, <1>3, RequestCases, RequestPosts

LEMMA SendIsFannedOut ==
  ASSUME TypeInv, TypeInv', RegistryInv, DeliveryInv, NEW c \in Conns, NEW u \in Users,
         SendToUser(c, u)
  PROVE  Delivery!Regroup \/ \E m \in MessageIds : Delivery!Serve(m, u)
<1>1. /\ UNCHANGED <<clients, issued, groups, registered>>
      /\ u \in rcpt[c] /\ rcpt' = [rcpt EXCEPT ![c] = rcpt[c] \ {u}]
      /\ \/ packet' = packet
         \/ packet' = [packet EXCEPT ![c] = None] /\ rcpt'[c] = {}
      /\ packet[c] \in ServerMessage
  BY DEF SendToUser, Remaining, registry, store, sockets, TypeInv, TypeOK, HandlersOK
<1>2. \A d \in Conns : told'[d].chats =
        IF d = clients[u] /\ packet[c].type = "chat"
          THEN told[d].chats \cup {packet[c].message} ELSE told[d].chats
  <2>1. CASE clients[u] = None
    BY <2>1, NoneIsFresh DEF SendToUser
  <2>2. CASE clients[u] # None
    <3>1. clients[u] \in Conns
      BY <2>2 DEF TypeInv, TypeOK
    <3>2. told' = [told EXCEPT ![clients[u]] = Tell(told[clients[u]], packet[c])]
      BY <2>2 DEF SendToUser
    <3>3. Tell(told[clients[u]], packet[c]).chats =
            IF packet[c].type = "chat" THEN told[clients[u]].chats \cup {packet[c].message}
                                       ELSE told[clients[u]].chats
      BY <1>1, <3>1, TellChats DEF TypeInv, TypeOK
    <3>4. QED
      BY <3>1, <3>2, <3>3 DEF TypeInv, TypeOK
  <2>3. QED
    BY <2>1, <2>2
<1>3. CASE packet[c].type # "chat"
  <2>1. \A m \in MessageIds : packet[c] # Chat(m)
    BY <1>3 DEF Chat
  <2>2. \A m \in MessageIds, v \in Users : Addressed(v, m)' <=> Addressed(v, m)
    BY <1>1, <2>1, ChatAndReceiptAreNotNone DEF Addressed, TypeInv, TypeOK
  <2>3. QED
    BY <1>1, <1>2, <1>3, <2>2, RestIsRegroup
<1>4. CASE packet[c].type = "chat"
  <2>1. PICK m \in MessageIds : packet[c] = Chat(m)
    BY <1>1, <1>4 DEF ServerMessage, Chat
  <2>2. packet[c].message = m
    BY <2>1 DEF Chat
  <2>3. \A x \in MessageIds, v \in Users :
          Addressed(v, x)' <=> Addressed(v, x) /\ ~(x = m /\ v = u)
    <3>1. \A d \in Conns : packet[d] = Chat(m) => d = c
      BY <2>1 DEF DeliveryInv, DeliveredAtMostOnce
    <3>2. \A x \in MessageIds : packet[c] = Chat(x) => x = m
      BY <2>1, ChatIsNotOther
    <3>3. QED
      BY <1>1, <2>1, <3>1, <3>2, ChatAndReceiptAreNotNone DEF Addressed, TypeInv, TypeOK
  <2> DEFINE Owed == [x \in MessageIds |-> {v \in Users : Addressed(v, x)}]
             Held == [d \in Conns |-> told[d].chats]
  <2>4. u \in Owed[m] /\ Owed' = [Owed EXCEPT ![m] = @ \ {u}]
    <3>1. Addressed(u, m)
      BY <1>1, <2>1 DEF Addressed
    <3>2. Owed' = [Owed EXCEPT ![m] = @ \ {u}]
      BY <2>3
    <3>3. QED
      BY <3>1, <3>2
  <2>5. \/ Held' = Held
        \/ \E d \in Conns : /\ registered[d] = u /\ m \notin Held[d]
                            /\ Held' = [Held EXCEPT ![d] = @ \cup {m}]
    <3>1. CASE clients[u] = None
      BY <1>2, <3>1, NoneIsFresh
    <3>2. CASE clients[u] # None
      <4>1. clients[u] \in Conns /\ registered[clients[u]] = u
        BY <3>2 DEF RegistryInv, RouteIsLive, TypeInv, TypeOK
      <4>2. m \notin told[clients[u]].chats
        BY <1>1, <2>1, <4>1 DEF DeliveryInv, DeliveredAtMostOnce
      <4>3. Held' = [Held EXCEPT ![clients[u]] = @ \cup {m}]
        BY <1>2, <1>4, <2>2, <4>1
      <4>4. QED
        BY <4>1, <4>2, <4>3
    <3>3. QED
      BY <3>1, <3>2
  <2>6. QED
    BY <1>1, <2>4, <2>5 DEF Delivery!Serve
<1>5. QED
  BY <1>3, <1>4

LEMMA HelloIsFannedOut ==
  ASSUME TypeInv, TypeInv', RegistryInv, NEW c \in Conns, NEW u \in Users, RegisterUser(c, u)
  PROVE  Delivery!Regroup \/ Delivery!Open(c, u)
<1>1. /\ UNCHANGED <<issued, groups, rcpt>> /\ rcpt[c] = {}
      /\ packet' = [packet EXCEPT ![c] = Presence(u, TRUE)]
      /\ registered[c] \in {None, u} /\ registered' = [registered EXCEPT ![c] = u]
  BY DEF RegisterUser, DispatchToAll, Ready, store, TypeInv, HandlersOK
<1>2. \A d \in Conns : told'[d].chats = told[d].chats
  BY HelloKeepsChats
<1>3. \A m \in MessageIds, v \in Users : Addressed(v, m)' <=> Addressed(v, m)
  BY <1>1 DEF Addressed, TypeInv, TypeOK
<1>4. CASE registered[c] = u
  <2>1. registered' = registered
    BY <1>1, <1>4 DEF TypeInv, TypeOK
  <2>2. QED
    BY <1>1, <1>2, <1>3, <2>1, RestIsRegroup
<1>5. CASE registered[c] = None
  <2>1. told[c].chats = {}
    BY <1>5 DEF RegistryInv, NothingBeforeHello, Blank
  <2>2. /\ [m \in MessageIds |-> {v \in Users : Addressed(v, m)'}]
             = [m \in MessageIds |-> {v \in Users : Addressed(v, m)}]
        /\ [d \in Conns |-> told'[d].chats] = [d \in Conns |-> told[d].chats]
    BY <1>2, <1>3
  <2>3. QED
    BY <1>1, <1>5, <2>1, <2>2 DEF Delivery!Open
<1>6. QED
  BY <1>1, <1>4, <1>5

LEMMA DropIsFannedOut ==
  ASSUME TypeInv, NEW c \in Conns, DropConnection(c)
  PROVE  Delivery!Close(c)
<1>1. /\ UNCHANGED <<issued, groups, rcpt, packet>>
      /\ registered' = [registered EXCEPT ![c] = None]
      /\ told' = [told EXCEPT ![c] = Blank]
  BY DEF DropConnection, store, tasks
<1>2. [m \in MessageIds |-> {v \in Users : Addressed(v, m)'}]
        = [m \in MessageIds |-> {v \in Users : Addressed(v, m)}]
  BY <1>1 DEF Addressed
<1>3. [d \in Conns |-> told'[d].chats] = [[d \in Conns |-> told[d].chats] EXCEPT ![c] = {}]
  BY <1>1 DEF Blank, TypeInv, TypeOK
<1>4. QED
  BY <1>1, <1>2, <1>3 DEF Delivery!Close

LEMMA FannedOutInit == Init => Delivery!Init
<1> SUFFICES ASSUME Init
             PROVE  Delivery!Init
  OBVIOUS
<1>1. \A m \in MessageIds, v \in Users : ~Addressed(v, m)
  BY DEF Init, Addressed
<1>2. [m \in MessageIds |-> {v \in Users : Addressed(v, m)}] = [m \in MessageIds |-> {}]
  BY <1>1
<1>3. [d \in Conns |-> told[d].chats] = [d \in Conns |-> {}]
  BY DEF Init, Blank
<1>4. QED
  BY <1>2, <1>3 DEF Init, Delivery!Init

LEMMA FannedOutRestart == Restart => Delivery!Restart
<1> SUFFICES ASSUME Restart
             PROVE  Delivery!Restart
  OBVIOUS
<1>1. \A m \in MessageIds, v \in Users : ~Addressed(v, m)'
  BY DEF Restart, Addressed
<1>2. [m \in MessageIds |-> {v \in Users : Addressed(v, m)'}] = [m \in MessageIds |-> {}]
  BY <1>1
<1>3. [d \in Conns |-> told'[d].chats] = [d \in Conns |-> {}]
  BY DEF Restart, Blank
<1>4. QED
  BY <1>2, <1>3 DEF Restart, Delivery!Restart

LEMMA FannedOutStep ==
  ASSUME TypeInv, TypeInv', RegistryInv, DeliveryInv, [Next]_vars
  PROVE  Delivery!Next
<1>1. ASSUME NEW c \in Conns, Accept(c) \/ LoseConnection(c) \/ MarkUserOffline(c)
      PROVE  Delivery!Regroup
  <2>1. /\ UNCHANGED <<store, registered, told, rcpt>>
        /\ packet[c] # None => packet' = packet
        /\ \A d \in Conns : d # c => packet'[d] = packet[d]
    <3>1. CASE Accept(c) \/ LoseConnection(c)
      BY <3>1 DEF Accept, LoseConnection, tasks
    <3>2. CASE MarkUserOffline(c)
      <4>1. /\ UNCHANGED <<store, registered, told, rcpt>> /\ pc[c] = "idle"
            /\ packet' = [packet EXCEPT ![c] = Presence(registered[c], FALSE)]
        BY <3>2 DEF MarkUserOffline, DispatchToAll
      <4>2. packet \in [Conns -> ServerMessage \cup {None}]
        BY DEF TypeInv, TypeOK
      <4>3. packet[c] = None
        BY <4>1 DEF TypeInv, HandlersOK
      <4>4. QED
        BY <4>1, <4>2, <4>3
    <3>3. QED
      BY <1>1, <3>1, <3>2
  <2>2. packet[c] = None => rcpt[c] = {}
    BY DEF TypeInv, HandlersOK
  <2>3. \A m \in MessageIds, u \in Users : Addressed(u, m)' <=> Addressed(u, m)
    BY <2>1, <2>2 DEF Addressed
  <2>4. QED
    BY <2>1, <2>3, RestIsRegroup DEF store
<1>2. ASSUME NEW c \in Conns, Broadcast(c)
      PROVE  Delivery!Regroup
  <2>1. /\ UNCHANGED <<store, registered, told>>
        /\ \A d \in Conns : d # c => packet'[d] = packet[d] /\ rcpt'[d] = rcpt[d]
        /\ packet'[c] \in {packet[c], None} /\ packet[c].type = "presence"
    BY <1>2 DEF Broadcast, sockets, TypeInv, TypeOK, HandlersOK
  <2>2. \A m \in MessageIds : packet[c] # Chat(m) /\ packet'[c] # Chat(m)
    BY <2>1, ChatAndReceiptAreNotNone DEF Chat
  <2>3. \A m \in MessageIds, u \in Users : Addressed(u, m)' <=> Addressed(u, m)
    BY <2>1, <2>2 DEF Addressed
  <2>4. QED
    BY <2>1, <2>3, RestIsRegroup DEF store
<1>3. CASE UNCHANGED vars
  <2>1. UNCHANGED <<issued, registered, rcpt, packet, told>>
    BY <1>3 DEF vars, store, sockets, tasks
  <2>2. Delivery!Regroup
    BY <2>1, RestIsRegroup DEF Addressed
  <2>3. QED
    BY <2>2 DEF Delivery!Next
<1>4. QED
  BY <1>1, <1>2, <1>3, RequestIsFannedOut, SendIsFannedOut, HelloIsFannedOut,
     DropIsFannedOut, FannedOutRestart
     DEF Next, AnswerRequester, Delivery!Next

----------------------------------------------------------------------------
\* The theorems

\* The inductive invariant of delivery and receipts.
THEOREM DeliveryCorrect == Spec => []DeliveryInv
<1>1. QED
  BY TypeCorrect, RegistryCorrect, DeliveryInit, DeliveryStep, PTL DEF Spec

\* No message is queued twice on a connection of a recipient
\* (route_direct_message, route_group_message, send_to_users).
THEOREM DeliveredAtMostOnceHolds == Spec => []DeliveredAtMostOnce
<1>1. DeliveryInv => DeliveredAtMostOnce
  BY DEF DeliveryInv
<1>2. QED
  BY DeliveryCorrect, <1>1, PTL

\* A receipt on its way is recorded in the stored message (route_read_receipt).
THEOREM ReceiptsAreRecordedHolds == Spec => []ReceiptsAreRecorded
<1>1. DeliveryInv => ReceiptsAreRecorded
  BY DEF DeliveryInv
<1>2. QED
  BY DeliveryCorrect, <1>1, PTL

\* The inductive invariant of the conversations.
THEOREM MessagesCorrect == Spec => []MessageInv
<1>1. QED
  BY TypeCorrect, RegistryCorrect, DeliveryCorrect, MessageInit, MessageStep, PTL
     DEF Spec

\* No interleaving of hello, group changes and fan-outs makes a routed
\* participant miss the last message of a conversation.
THEOREM NoMissedMessageHolds == Spec => []NoMissedMessage
<1>1. MessageInv => NoMissedMessage
  BY DEF MessageInv
<1>2. QED
  BY MessagesCorrect, <1>1, PTL
\* The server implements MessageFanout: whom a message is for is settled when it
\* is committed, and each of them is served once, through a queue of its own
\* (route_direct_message, route_group_message, send_to_users,
\* send_to_user_locked).
THEOREM FannedOut == Spec => MessagesAreFannedOut
<1>1. TypeInv /\ TypeInv' /\ RegistryInv /\ DeliveryInv /\ [Next]_vars => Delivery!Next
  BY FannedOutStep
<1>2. Spec => []TypeInv /\ []RegistryInv /\ []DeliveryInv
  BY TypeCorrect, RegistryCorrect, DeliveryCorrect
<1>3. QED
  BY FannedOutInit, <1>1, <1>2, PTL DEF Spec, MessagesAreFannedOut, Delivery!Spec

\* So the invariant of MessageFanout holds of the server: what is on a queue
\* was committed, and is not about to be queued for its reader again.
THEOREM HeldMessagesWereServed == Spec => []Delivery!HeldIsServed
<1>1. ASSUME TypeInv, DeliveryInv
      PROVE  Delivery!HeldIsServed
  <2> SUFFICES ASSUME NEW d \in Conns, NEW m \in told[d].chats
               PROVE  m \in issued /\ m \in MessageIds /\ ~Addressed(registered[d], m)
    BY DEF Delivery!HeldIsServed
  <2>1. told[d] \in View
    BY <1>1 DEF TypeInv, TypeOK
  <2>2. m \in MessageIds
    BY <2>1 DEF View
  <2>3. QED
    BY <1>1, <2>2 DEF DeliveryInv, MessageIdsAreIssued, DeliveredAtMostOnce, Addressed
<1>2. QED
  BY TypeCorrect, DeliveryCorrect, <1>1, PTL

=============================================================================
