--------------------------- MODULE ChatServiceProofs ---------------------------
(***************************************************************************)
(* Proofs about ChatService: its types, retention, the conversation of      *)
(* every stored message, and the senders of direct messages.                *)
(***************************************************************************)
EXTENDS ChatService, FiniteSetTheorems, TLAPS

----------------------------------------------------------------------------
\* Sequences and continuations

Elems(q) == {q[i] : i \in DOMAIN q}

LEMMA AppendElems ==
  ASSUME NEW T, NEW q \in Seq(T), NEW k \in T
  PROVE  Append(q, k) \in Seq(T) /\ Elems(Append(q, k)) = Elems(q) \cup {k}
<1>1. /\ Append(q, k) \in Seq(T) /\ Len(Append(q, k)) = Len(q) + 1 /\ Len(q) \in Nat
      /\ \A i \in 1 .. Len(q) : Append(q, k)[i] = q[i]
      /\ Append(q, k)[Len(q) + 1] = k
  OBVIOUS
<1>2. DOMAIN Append(q, k) = 1 .. Len(q) + 1 /\ DOMAIN q = 1 .. Len(q)
  OBVIOUS
<1>3. ASSUME NEW i \in 1 .. Len(q) + 1 PROVE i \in 1 .. Len(q) \/ i = Len(q) + 1
  BY <1>1
<1>4. Elems(Append(q, k)) \subseteq Elems(q) \cup {k}
  BY <1>1, <1>2, <1>3 DEF Elems
<1>5. Elems(q) \cup {k} \subseteq Elems(Append(q, k))
  BY <1>1, <1>2 DEF Elems
<1> QED BY <1>1, <1>4, <1>5

LEMMA TailElems ==
  ASSUME NEW T, NEW q \in Seq(T), q # <<>>
  PROVE  /\ Tail(q) \in Seq(T) /\ Head(q) \in T
         /\ Elems(q) = Elems(Tail(q)) \cup {Head(q)}
<1>1. /\ Tail(q) \in Seq(T) /\ Head(q) \in T /\ Len(q) \in Nat /\ Len(q) >= 1
      /\ Len(Tail(q)) = Len(q) - 1 /\ Head(q) = q[1]
      /\ \A i \in 1 .. Len(q) - 1 : Tail(q)[i] = q[i + 1]
  OBVIOUS
<1>2. DOMAIN Tail(q) = 1 .. Len(q) - 1 /\ DOMAIN q = 1 .. Len(q)
  BY <1>1
<1>3. \A i \in 1 .. Len(q) - 1 : i + 1 \in 1 .. Len(q)
  BY <1>1
<1>4. \A i \in 1 .. Len(q) : i = 1 \/ (i - 1 \in 1 .. Len(q) - 1 /\ (i - 1) + 1 = i)
  BY <1>1
<1>5. 1 \in 1 .. Len(q)
  BY <1>1
<1> DEFINE t == Tail(q)
<1>6. /\ Elems(t) \subseteq Elems(q) /\ Head(q) \in Elems(q)
  BY <1>1, <1>2, <1>3, <1>5 DEF Elems
<1>7. ASSUME NEW i \in 1 .. Len(q) PROVE q[i] \in Elems(t) \cup {Head(q)}
  <2>1. CASE i = 1
    BY <2>1, <1>1
  <2>2. CASE i - 1 \in 1 .. Len(q) - 1 /\ (i - 1) + 1 = i
    <3>1. q[i] = t[i - 1]
      BY <2>2, <1>1
    <3> QED BY <3>1, <2>2, <1>2 DEF Elems
  <2> QED BY <2>1, <2>2, <1>4
<1> QED BY <1>1, <1>2, <1>6, <1>7 DEF Elems

LEMMA StoresAre ==
  /\ Stores = {"users", "groups", "history"}
  /\ Continuation["users"] = [do : {"replaceGroups"}, groups : GroupCache, directs : SUBSET Users]
                             \cup [do : {"storeDirect"}, id : MessageIds, conv : Users]
  /\ Continuation["groups"] = GroupLoop
  /\ Continuation["history"] = GroupLoop
               \cup [do : {"storeGroup", "receipt"}, id : MessageIds, item : Message]
               \cup [do : {"receipts"}, ids : SUBSET MessageIds]
               \cup [do : {"open"}, conv : Convs]
               \cup [do : {"deselect", "configure"}]
BY DEF Stores, Continuation

\* The fields of a continuation, by what it does.
LEMMA ContinuationFields ==
  ASSUME NEW s \in Stores, NEW k \in Continuation[s]
  PROVE  /\ k.do = "replaceGroups" =>
              s = "users" /\ k.groups \in GroupCache /\ k.directs \in SUBSET Users
         /\ k.do = "storeDirect" => s = "users" /\ k.id \in MessageIds /\ k.conv \in Users
         /\ k.do = "upsertGroups" =>
              k \in GroupLoop /\ k.left \in SUBSET Groups /\ k.convs \in SUBSET Convs
         /\ k.do \in {"storeGroup", "receipt"} =>
              s = "history" /\ k.id \in MessageIds /\ k.item \in Message
         /\ k.do = "receipts" => s = "history" /\ k.ids \in SUBSET MessageIds
         /\ k.do = "open" => s = "history" /\ k.conv \in Convs
<1>1. CASE s = "users"
  BY <1>1, StoresAre
<1>2. CASE s = "groups"
  BY <1>2, StoresAre DEF GroupLoop
<1>3. CASE s = "history"
  BY <1>3, StoresAre DEF GroupLoop
<1> QED BY <1>1, <1>2, <1>3, StoresAre

----------------------------------------------------------------------------
\* The queue

QueueType(q) == DOMAIN q = Stores /\ \A s \in Stores : q[s] \in Seq(Continuation[s])

\* A handler waits: its continuation joins those of q.
LEMMA WaitJoins ==
  ASSUME NEW q, QueueType(q), NEW s \in Stores, NEW k \in Continuation[s], Wait(q, s, k)
  PROVE  /\ QueueType(queue') /\ Waiting(s)' = Elems(q[s]) \cup {k}
         /\ \A t \in Stores : t # s => Waiting(t)' = Elems(q[t])
<1>1. queue' = [q EXCEPT ![s] = Append(q[s], k)]
  BY DEF Wait
<1>2. Append(q[s], k) \in Seq(Continuation[s]) /\ Elems(Append(q[s], k)) = Elems(q[s]) \cup {k}
  BY AppendElems DEF QueueType
<1>3. /\ DOMAIN queue' = Stores /\ queue'[s] = Append(q[s], k)
      /\ \A t \in Stores : t # s => queue'[t] = q[t]
  BY <1>1 DEF QueueType
<1> QED BY <1>2, <1>3 DEF QueueType, Waiting, Elems

LEMMA FinishLeaves ==
  ASSUME NEW q, QueueType(q), Finish(q)
  PROVE  QueueType(queue') /\ \A t \in Stores : Waiting(t)' = Elems(q[t])
BY DEF Finish, Waiting, Elems

\* The queue without the first handler of s.
LEMMA HeadLeaves ==
  ASSUME QueueType(queue), NEW s \in Stores, queue[s] # <<>>,
         NEW q, q = [queue EXCEPT ![s] = Tail(@)]
  PROVE  /\ QueueType(q) /\ Head(queue[s]) \in Continuation[s]
         /\ Waiting(s) = Elems(q[s]) \cup {Head(queue[s])}
         /\ \A t \in Stores : t # s => Waiting(t) = Elems(q[t])
<1>1. /\ DOMAIN q = Stores /\ q[s] = Tail(queue[s])
      /\ \A t \in Stores : t # s => q[t] = queue[t]
  BY DEF QueueType
<1>2. /\ Tail(queue[s]) \in Seq(Continuation[s]) /\ Head(queue[s]) \in Continuation[s]
      /\ Elems(queue[s]) = Elems(Tail(queue[s])) \cup {Head(queue[s])}
  BY TailElems DEF QueueType
<1> QED BY <1>1, <1>2 DEF QueueType, Waiting, Elems

----------------------------------------------------------------------------
\* Types of the history

LEMMA SeenIsTyped ==
  ASSUME NEW h \in Seen
  PROVE  /\ h.told \in GroupCache /\ h.used \in SUBSET MessageIds
         /\ h.received \in SUBSET MessageIds /\ h.echoes \in SUBSET (MessageIds \X Groups)
         /\ h.receipts \in SUBSET MessageIds /\ h.excused \in SUBSET MessageIds
         /\ h.trimmed \in SUBSET MessageIds /\ h.gone \in SUBSET MessageIds
         /\ h.stale \in BOOLEAN
BY DEF Seen

LEMMA SeenChanges ==
  ASSUME NEW h \in Seen, NEW ids \in SUBSET MessageIds
  PROVE  /\ [h EXCEPT !.trimmed = @ \cup ids] \in Seen
         /\ [h EXCEPT !.gone = @ \cup ids] \in Seen
         /\ [h EXCEPT !.excused = @ \cup ids] \in Seen
         /\ [h EXCEPT !.receipts = @ \cup ids] \in Seen
         /\ [h EXCEPT !.used = @ \cup ids, !.received = @ \cup ids] \in Seen
BY DEF Seen

----------------------------------------------------------------------------
\* Changes of the message array

\* What a step does to the messages other than new.
Changes(new) ==
  /\ Stored' \subseteq Stored \cup new
  /\ \A n \in Stored' \ new : /\ messages'[n].conv = messages[n].conv
                               /\ messages'[n].incoming = messages[n].incoming

MessagesType(f) == f \in [MessageIds -> Message \cup {None}]
ConversationsType(f) == f \in [Convs -> Nat \cup {None}]

LEMMA MessageIsTyped ==
  ASSUME NEW x \in Message
  PROVE  /\ x # None /\ x.conv \in Convs /\ x.incoming \in BOOLEAN
         /\ x.status \in {"sent", "failed", "delivered", "read"}
         /\ [x EXCEPT !.status = "read"] \in Message
         /\ [x EXCEPT !.status = "read"].conv = x.conv
         /\ [x EXCEPT !.status = "read"].incoming = x.incoming
         /\ [x EXCEPT !.status = "read"].status = "read"
BY NoneIsNoMessage DEF Message

LEMMA StoredIsMessage ==
  ASSUME MessagesType(messages)
  PROVE  /\ Stored \in SUBSET MessageIds
         /\ \A n \in Stored : messages[n] \in Message
         /\ \A n \in MessageIds : n \notin Stored => messages[n] = None
BY DEF Stored, MessagesType

\* The size of a finite set of messages is a number.
LEMMA Sizes ==
  ASSUME NEW A \in SUBSET MessageIds
  PROVE  /\ IsFiniteSet(A) /\ Cardinality(A) \in Nat
         /\ \A B \in SUBSET A : Cardinality(B) \in Nat /\ Cardinality(B) <= Cardinality(A)
<1>1. IsFiniteSet(A)
  BY ServiceConstants, FS_Subset
<1>2. ASSUME NEW B \in SUBSET A PROVE Cardinality(B) \in Nat /\ Cardinality(B) <= Cardinality(A)
  BY <1>1, FS_Subset, FS_CardinalityType
<1> QED BY <1>1, <1>2, FS_CardinalityType

LEMMA TrimEffect ==
  ASSUME NEW all, MessagesType(all), NEW newest \in SUBSET MessageIds, NEW limit \in Nat,
         NEW h \in Seen, \A n \in newest : all[n] # None, Trim(all, newest, limit, h)
  PROVE  /\ MessagesType(messages)' /\ seen' \in Seen
         /\ seen' = [h EXCEPT !.trimmed = seen'.trimmed]
         /\ h.trimmed \subseteq seen'.trimmed
         /\ \A n \in seen'.trimmed : n \in h.trimmed \/ all[n] # None
         /\ Cardinality(Stored)' <= limit
         /\ newest \subseteq Stored'
         /\ \A n \in MessageIds : all[n] # None => n \in Stored' \cup seen'.trimmed
         /\ \A n \in Stored' : messages'[n] = all[n] /\ all[n] # None
<1> DEFINE ids == {m \in MessageIds : all[m] # None}
<1>1. PICK kept \in SUBSET ids :
        /\ newest \subseteq kept
        /\ IF Cardinality(ids) <= limit THEN kept = ids ELSE Cardinality(kept) = limit
        /\ messages' = [m \in MessageIds |-> IF m \in kept THEN all[m] ELSE None]
        /\ seen' = [h EXCEPT !.trimmed = @ \cup (ids \ kept)]
  BY DEF Trim
<1>2. MessagesType(messages)'
  BY <1>1 DEF MessagesType
<1>3. Stored' = kept
  BY <1>1 DEF Stored
<1>4. Cardinality(kept) <= limit
  BY <1>1, Sizes
<1>5. seen' \in Seen /\ seen'.trimmed = h.trimmed \cup (ids \ kept)
  BY <1>1, SeenChanges, SeenIsTyped DEF Seen
<1>6. seen' = [h EXCEPT !.trimmed = seen'.trimmed]
  BY <1>1, <1>5
<1>7. \A n \in MessageIds : all[n] # None => n \in kept \cup seen'.trimmed
  BY <1>5
<1>8. \A n \in kept : messages'[n] = all[n] /\ all[n] # None
  BY <1>1
<1>9. /\ h.trimmed \subseteq seen'.trimmed /\ newest \subseteq kept
      /\ \A n \in seen'.trimmed : n \in h.trimmed \/ all[n] # None
  BY <1>1, <1>5
<1> QED BY <1>2, <1>3, <1>4, <1>5, <1>6, <1>7, <1>8, <1>9

Memory == /\ MessagesType(messages) /\ ConversationsType(conversations)
          /\ settings \in Settings

LEMMA UpsertMessageEffect ==
  ASSUME Memory, NEW m \in MessageIds, NEW item \in Message, NEW h \in Seen,
         UpsertMessage(m, item, h)
  PROVE  /\ MessagesType(messages)' /\ ConversationsType(conversations)' /\ seen' \in Seen
         /\ seen' = [h EXCEPT !.trimmed = seen'.trimmed]
         /\ h.trimmed \subseteq seen'.trimmed
         /\ RetentionHolds => Cardinality(Stored)' <= settings.maxMessages
         /\ m \in Stored' /\ messages'[m] = item
         /\ Stored' \subseteq Stored \cup {m}
         /\ Stored \subseteq Stored' \cup seen'.trimmed
         /\ seen'.trimmed \subseteq h.trimmed \cup Stored \cup {m}
         /\ \A n \in Stored' : n # m => messages'[n] = messages[n]
         /\ conversations'[item.conv] \in Nat
         /\ conversations'[item.conv] =
              (IF conversations[item.conv] = None THEN 0 ELSE conversations[item.conv])
                + (IF item.incoming /\ item.status # "read" THEN 1 ELSE 0)
         /\ \A c \in Convs : c # item.conv => conversations'[c] = conversations[c]
<1> DEFINE all == [messages EXCEPT ![m] = item]
<1>1. /\ MessagesType(all) /\ all[m] = item /\ item # None /\ item.conv \in Convs
      /\ \A n \in MessageIds : n # m => all[n] = messages[n]
  BY MessageIsTyped DEF Memory, MessagesType
<1>2. settings.maxMessages \in Nat
  BY ServiceConstants DEF Memory, Settings
<1> DEFINE count == IF conversations[item.conv] = None THEN 0 ELSE conversations[item.conv]
           new == IF item.incoming /\ item.status # "read" THEN count + 1 ELSE count
<1>3. conversations' = [conversations EXCEPT ![item.conv] = new]
  BY DEF UpsertMessage
<1>4. /\ count \in Nat /\ new \in Nat
      /\ new = count + (IF item.incoming /\ item.status # "read" THEN 1 ELSE 0)
  BY <1>1 DEF Memory, ConversationsType
<1>8. conversations'[item.conv] =
        (IF conversations[item.conv] = None THEN 0 ELSE conversations[item.conv])
          + (IF item.incoming /\ item.status # "read" THEN 1 ELSE 0)
  BY <1>1, <1>3, <1>4 DEF Memory, ConversationsType
<1> HIDE DEF new, count
<1>5. /\ ConversationsType(conversations)' /\ conversations'[item.conv] \in Nat
      /\ \A c \in Convs : c # item.conv => conversations'[c] = conversations[c]
  BY <1>1, <1>3, <1>4 DEF Memory, ConversationsType
<1> HIDE DEF all
<1>6. CASE m \in Stored
  <2>1. messages' = all /\ seen' = h
    BY <1>6 DEF UpsertMessage, all
  <2>2. Stored' = Stored
    BY <2>1, <1>1, <1>6 DEF Stored
  <2>3. MessagesType(messages)'
    BY <2>1, <1>1 DEF MessagesType
  <2>4. seen' = [h EXCEPT !.trimmed = seen'.trimmed]
    BY <2>1 DEF Seen
  <2>5. \A n \in Stored' : n # m => messages'[n] = messages[n]
    BY <2>1, <1>1 DEF Stored
  <2>6. RetentionHolds => Cardinality(Stored)' <= settings.maxMessages
    BY <2>2 DEF RetentionHolds
  <2> QED BY <2>1, <2>2, <2>3, <2>4, <2>5, <2>6, <1>1, <1>5, <1>6, <1>8
<1>7. CASE m \notin Stored
  <2>1. Trim(all, {m}, settings.maxMessages, h)
    BY <1>7 DEF UpsertMessage, all
  <2>2. /\ MessagesType(messages)' /\ seen' \in Seen
        /\ seen' = [h EXCEPT !.trimmed = seen'.trimmed]
        /\ h.trimmed \subseteq seen'.trimmed
        /\ \A n \in seen'.trimmed : n \in h.trimmed \/ all[n] # None
        /\ Cardinality(Stored)' <= settings.maxMessages
        /\ {m} \subseteq Stored'
        /\ \A n \in MessageIds : all[n] # None => n \in Stored' \cup seen'.trimmed
        /\ \A n \in Stored' : messages'[n] = all[n] /\ all[n] # None
    <3>1. {m} \in SUBSET MessageIds /\ \A n \in {m} : all[n] # None
      BY <1>1
    <3>2. PICK f : f = all
      OBVIOUS
    <3>3. PICK limit \in Nat : limit = settings.maxMessages
      BY <1>2
    <3>4. Trim(f, {m}, limit, h) /\ MessagesType(f) /\ \A n \in {m} : f[n] # None
      BY <2>1, <1>1, <3>1, <3>2, <3>3
    <3> QED BY <3>1, <3>2, <3>3, <3>4, TrimEffect
  <2>3. Stored' \subseteq Stored \cup {m}
    BY <2>2, <1>1 DEF Stored
  <2>4. Stored \subseteq Stored' \cup seen'.trimmed
    BY <2>2, <1>1, <1>7 DEF Stored
  <2>5. \A n \in Stored' : n # m => messages'[n] = messages[n]
    BY <2>2, <1>1 DEF Stored
  <2>6. seen'.trimmed \subseteq h.trimmed \cup Stored \cup {m}
    <3>1. seen'.trimmed \subseteq MessageIds
      BY <2>2, SeenIsTyped
    <3> QED BY <3>1, <2>2, <1>1 DEF Stored
  <2> QED BY <2>2, <2>3, <2>4, <2>5, <2>6, <1>1, <1>5, <1>8
<1> QED BY <1>6, <1>7

LEMMA MarkReadEffect ==
  ASSUME Memory, NEW c \in Convs, MarkConversationRead(c)
  PROVE  /\ MessagesType(messages)' /\ ConversationsType(conversations)'
         /\ Stored' = Stored
         /\ \A n \in Stored : /\ messages'[n].conv = messages[n].conv
                              /\ messages'[n].incoming = messages[n].incoming
                              /\ n \notin Unread(c) => messages'[n] = messages[n]
                              /\ n \in Unread(c) => messages'[n].status = "read"
         /\ \A d \in Convs : conversations[d] # None <=> conversations'[d] # None
         /\ conversations'[c] \in {0, None}
         /\ \A d \in Convs : d # c => conversations'[d] = conversations[d]
<1>1. messages' = [m \in MessageIds |->
        IF m \in Unread(c) THEN [messages[m] EXCEPT !.status = "read"] ELSE messages[m]]
  BY DEF MarkConversationRead
<1>2. Unread(c) \subseteq Stored
  BY DEF Unread
<1>3. ASSUME NEW n \in MessageIds
      PROVE  /\ messages'[n] \in Message \cup {None} /\ (messages'[n] # None <=> n \in Stored)
             /\ n \in Stored => /\ messages'[n].conv = messages[n].conv
                                /\ messages'[n].incoming = messages[n].incoming
                                /\ n \notin Unread(c) => messages'[n] = messages[n]
                                /\ n \in Unread(c) => messages'[n].status = "read"
  <2>1. CASE n \in Unread(c)
    <3>1. messages[n] \in Message /\ messages'[n] = [messages[n] EXCEPT !.status = "read"]
      BY <2>1, <1>1, <1>2, StoredIsMessage DEF Memory
    <3>2. messages'[n] \in Message /\ messages'[n] # None
      BY <3>1, MessageIsTyped
    <3>3. /\ messages'[n].conv = messages[n].conv
          /\ messages'[n].incoming = messages[n].incoming
          /\ messages'[n].status = "read"
      BY <3>1, MessageIsTyped
    <3> QED BY <3>2, <3>3, <2>1, <1>2
  <2>2. CASE n \notin Unread(c)
    <3>1. messages'[n] = messages[n]
      BY <2>2, <1>1
    <3> QED BY <3>1, <2>2 DEF Stored, Memory, MessagesType
  <2> QED BY <2>1, <2>2
<1>4. Stored' = Stored
  BY <1>3 DEF Stored
<1>5. MessagesType(messages)'
  BY <1>1, <1>3 DEF MessagesType
<1>6. conversations' = [conversations EXCEPT ![c] = IF @ = None THEN None ELSE 0]
  BY DEF MarkConversationRead
<1>7. /\ ConversationsType(conversations)'
      /\ \A d \in Convs : conversations[d] # None <=> conversations'[d] # None
      /\ conversations'[c] \in {0, None}
      /\ \A d \in Convs : d # c => conversations'[d] = conversations[d]
  BY <1>6, ServiceConstants DEF Memory, ConversationsType
<1> QED BY <1>3, <1>4, <1>5, <1>7 DEF Stored

LEMMA UpsertConversationEffect ==
  ASSUME Memory, NEW c \in Convs, UpsertConversation(c)
  PROVE  /\ ConversationsType(conversations)' /\ conversations'[c] # None
         /\ \A d \in Convs : conversations[d] # None => conversations'[d] # None
BY ServiceConstants DEF Memory, ConversationsType, UpsertConversation

----------------------------------------------------------------------------
\* The invariant

\* The handlers that wait in q: the sender of a direct message on its way is
\* known, and a group message on its way is one of a group.
WaitOf(q) ==
  /\ \A k \in Elems(q["users"]) : k.do = "storeDirect" => users[k.conv] # "unknown"
  /\ \A k \in Elems(q["history"]) : k.do = "storeGroup" => k.item.conv \in Groups

ServiceInv ==
  /\ TypeOK /\ WaitOf(queue)
  /\ RetentionHolds /\ MessagesHaveConversation /\ SendersAreKnown

UsersStayKnown == \A u \in Users : users[u] # "unknown" => users'[u] # "unknown"

LEMMA TypesAre ==
  TypeOK <=> /\ Memory /\ groups \in GroupCache
             /\ users \in [Users -> {"unknown", "offline", "online"}]
             /\ active \in Convs \cup {None} /\ QueueType(queue) /\ seen \in Seen
BY DEF TypeOK, Memory, MessagesType, ConversationsType, QueueType

\* A handler that waits from now on.
LEMMA WaitGoesOn ==
  ASSUME NEW q, QueueType(q), WaitOf(q), UsersStayKnown,
         NEW s \in Stores, NEW k \in Continuation[s], Wait(q, s, k),
         k.do = "storeDirect" => users'[k.conv] # "unknown",
         k.do = "storeGroup" => k.item.conv \in Groups
  PROVE  QueueType(queue)' /\ WaitOf(queue)'
<1>1. /\ QueueType(queue') /\ Waiting(s)' = Elems(q[s]) \cup {k}
      /\ \A t \in Stores : t # s => Waiting(t)' = Elems(q[t])
  BY WaitJoins
<1>2. \A t \in Stores : Waiting(t)' \subseteq Elems(q[t]) \cup {k}
  BY <1>1
<1>3. "users" \in Stores /\ "history" \in Stores
  BY StoresAre
<1>4. ASSUME NEW x \in Waiting("users")', x.do = "storeDirect" PROVE users'[x.conv] # "unknown"
  <2>1. CASE x = k
    BY <2>1, <1>4
  <2>2. CASE x # k
    <3>1. x \in Elems(q["users"]) /\ users[x.conv] # "unknown"
      BY <2>2, <1>2, <1>3, <1>4 DEF WaitOf
    <3>2. PICK i \in DOMAIN q["users"] : x = q["users"][i]
      BY <3>1 DEF Elems
    <3>3. x \in Continuation["users"]
      BY <3>2, <1>3 DEF QueueType
    <3>4. x.conv \in Users
      BY <3>3, <1>3, <1>4, ContinuationFields
    <3> QED BY <3>1, <3>4 DEF UsersStayKnown
  <2> QED BY <2>1, <2>2
<1>5. ASSUME NEW x \in Waiting("history")', x.do = "storeGroup" PROVE x.item.conv \in Groups
  <2>1. x \in Elems(q["history"]) \/ x = k
    BY <1>2, <1>3
  <2> QED BY <2>1, <1>5 DEF WaitOf
<1> QED BY <1>1, <1>4, <1>5 DEF WaitOf, Waiting, Elems

\* A handler that waits for nothing more.
LEMMA HandlerEnds ==
  ASSUME NEW q, QueueType(q), WaitOf(q), UsersStayKnown, queue' = q
  PROVE  QueueType(queue)' /\ WaitOf(queue)'
<1>1. "users" \in Stores /\ "history" \in Stores
  BY StoresAre
<1>2. ASSUME NEW x \in Elems(q["users"]), x.do = "storeDirect" PROVE users'[x.conv] # "unknown"
  <2>1. PICK i \in DOMAIN q["users"] : x = q["users"][i]
    BY <1>2 DEF Elems
  <2>2. x \in Continuation["users"]
    BY <2>1, <1>1 DEF QueueType
  <2>3. x.conv \in Users
    BY <2>2, <1>1, <1>2, ContinuationFields
  <2> QED BY <2>3, <1>2 DEF WaitOf, UsersStayKnown
<1>3. QueueType(queue)'
  BY DEF QueueType
<1> QED BY <1>2, <1>3 DEF WaitOf

\* What a step does to the cache: new are the messages it adds.
Effect(new) ==
  /\ Changes(new)
  /\ RetentionHolds => RetentionHolds'
  /\ Stored' = {} \/ \A c \in Convs : conversations[c] # None => conversations'[c] # None
  /\ UsersStayKnown
  /\ \A n \in new \cap Stored' :
       /\ conversations'[messages'[n].conv] # None
       /\ messages'[n].incoming /\ messages'[n].conv \in Users
            => users'[messages'[n].conv] # "unknown"

LEMMA EffectKeeps ==
  ASSUME ServiceInv, NEW new, Effect(new)
  PROVE  (RetentionHolds /\ MessagesHaveConversation /\ SendersAreKnown)'
<1>1. \A n \in Stored : messages[n].conv \in Convs
  BY StoredIsMessage, MessageIsTyped, TypesAre DEF ServiceInv, Memory
<1>2. ASSUME NEW n \in Stored' PROVE conversations'[messages'[n].conv] # None
  BY <1>1 DEF Effect, Changes, ServiceInv, MessagesHaveConversation
<1>3. ASSUME NEW n \in Stored', messages'[n].incoming, messages'[n].conv \in Users
      PROVE  users'[messages'[n].conv] # "unknown"
  <2>1. CASE n \in new
    BY <2>1, <1>3 DEF Effect
  <2>2. CASE n \notin new
    <3>1. n \in Stored /\ messages'[n].conv = messages[n].conv
          /\ messages'[n].incoming = messages[n].incoming
      BY <2>2 DEF Effect, Changes
    <3>2. users[messages[n].conv] # "unknown"
      BY <3>1, <1>3 DEF ServiceInv, SendersAreKnown
    <3> QED BY <3>1, <3>2, <1>3 DEF Effect, UsersStayKnown
  <2> QED BY <2>1, <2>2
<1> QED BY <1>2, <1>3 DEF Effect, ServiceInv, MessagesHaveConversation, SendersAreKnown

\* The messages stay as they are.
LEMMA MessagesStay ==
  ASSUME messages' = messages, settings'.maxMessages = settings.maxMessages, UsersStayKnown,
         \A c \in Convs : conversations[c] # None => conversations'[c] # None
  PROVE  Effect({})
<1>1. Stored' = Stored
  BY DEF Stored
<1> QED BY <1>1 DEF Effect, Changes, RetentionHolds

----------------------------------------------------------------------------
\* The steps, one by one

LEMMA TypesNext ==
  ASSUME MessagesType(messages)', ConversationsType(conversations)', (settings \in Settings)',
         (groups \in GroupCache)', (users \in [Users -> {"unknown", "offline", "online"}])',
         (active \in Convs \cup {None})', QueueType(queue)', (seen \in Seen)'
  PROVE  TypeOK'
BY DEF TypeOK, MessagesType, ConversationsType, QueueType

\* What is shown of every step.
Step == TypeOK' /\ WaitOf(queue)' /\ \E new : Effect(new)

LEMMA HelloAckStep ==
  ASSUME ServiceInv, NEW online \in SUBSET Users, NEW directs \in SUBSET Users,
         NEW gs \in GroupCache, HelloAck(online, gs, directs)
  PROVE  Step
<1>1. /\ users' = [u \in Users |-> IF u \in online THEN "online"
                               ELSE IF users[u] = "unknown" THEN "unknown" ELSE "offline"]
      /\ seen' = [seen EXCEPT !.told = gs, !.stale = FALSE]
      /\ Wait(queue, "users", [do |-> "replaceGroups", groups |-> gs, directs |-> directs])
      /\ UNCHANGED <<messages, conversations, groups, active, settings>>
  BY DEF HelloAck
<1>2. TypeOK /\ WaitOf(queue) /\ QueueType(queue) /\ seen \in Seen
  BY TypesAre DEF ServiceInv
<1>3. users' \in [Users -> {"unknown", "offline", "online"}] /\ UsersStayKnown
  BY <1>1 DEF UsersStayKnown
<1>4. seen' \in Seen
  BY <1>1, <1>2 DEF Seen
<1>5. [do |-> "replaceGroups", groups |-> gs, directs |-> directs] \in Continuation["users"]
  BY StoresAre
<1>6. PICK k \in Continuation["users"] :
        k = [do |-> "replaceGroups", groups |-> gs, directs |-> directs]
  BY <1>5
<1>7. "users" \in Stores /\ Wait(queue, "users", k) /\ k.do = "replaceGroups"
  BY <1>1, <1>6, StoresAre
<1>8. PICK q : q = queue
  OBVIOUS
<1>9. QueueType(queue)' /\ WaitOf(queue)'
  BY <1>2, <1>3, <1>7, <1>8, WaitGoesOn
<1>10. Effect({})
  BY <1>1, <1>3, MessagesStay
<1>11. TypeOK'
  BY <1>1, <1>2, <1>3, <1>4, <1>9, TypesNext DEF TypeOK, MessagesType, ConversationsType
<1> QED BY <1>9, <1>10, <1>11 DEF Step

LEMMA DirectMessageStep ==
  ASSUME ServiceInv, NEW m \in MessageIds, NEW u \in Users, DirectMessage(m, u)
  PROVE  Step
<1>1. /\ users' = [users EXCEPT ![u] = "online"]
      /\ seen' = [seen EXCEPT !.used = @ \cup {m}, !.received = @ \cup {m}]
      /\ Wait(queue, "users", [do |-> "storeDirect", id |-> m, conv |-> u])
      /\ UNCHANGED <<messages, conversations, groups, active, settings>>
  BY DEF DirectMessage
<1>2. TypeOK /\ WaitOf(queue) /\ QueueType(queue) /\ seen \in Seen
  BY TypesAre DEF ServiceInv
<1>3. /\ users' \in [Users -> {"unknown", "offline", "online"}] /\ UsersStayKnown
      /\ users'[u] # "unknown"
  BY <1>1, <1>2 DEF UsersStayKnown, TypeOK
<1>4. seen' \in Seen
  BY <1>1, <1>2, SeenChanges
<1>5. [do |-> "storeDirect", id |-> m, conv |-> u] \in Continuation["users"]
  BY StoresAre
<1>6. PICK k \in Continuation["users"] : k = [do |-> "storeDirect", id |-> m, conv |-> u]
  BY <1>5
<1>7. /\ "users" \in Stores /\ Wait(queue, "users", k)
      /\ k.do = "storeDirect" /\ users'[k.conv] # "unknown"
  BY <1>1, <1>3, <1>6, StoresAre
<1>8. PICK q : q = queue
  OBVIOUS
<1>9. QueueType(queue)' /\ WaitOf(queue)'
  BY <1>2, <1>3, <1>7, <1>8, WaitGoesOn
<1>10. Effect({})
  BY <1>1, <1>3, MessagesStay
<1>11. TypeOK'
  BY <1>1, <1>2, <1>3, <1>4, <1>9, TypesNext DEF TypeOK, MessagesType, ConversationsType
<1> QED BY <1>9, <1>10, <1>11 DEF Step

LEMMA GroupMessageStep ==
  ASSUME ServiceInv, NEW m \in MessageIds, NEW g \in Groups, GroupMessage(m, g)
  PROVE  Step
<1>0. PICK item : item = [conv |-> g, incoming |-> m \notin seen.used,
                          status |-> IF active = g THEN "read" ELSE "delivered"]
  OBVIOUS
<1>1. /\ UpsertConversation(g)
      /\ seen' = [seen EXCEPT !.used = @ \cup {m}, !.echoes = @ \ {<<m, g>>},
                              !.received = IF m \notin seen.used THEN @ \cup {m} ELSE @]
      /\ Wait(queue, "history", [do |-> "storeGroup", id |-> m, item |-> item])
      /\ UNCHANGED <<messages, groups, users, active, settings>>
  BY <1>0 DEF GroupMessage
<1>2. TypeOK /\ WaitOf(queue) /\ QueueType(queue) /\ seen \in Seen /\ Memory /\ g \in Convs
  BY TypesAre DEF ServiceInv, Convs
<1>3. /\ ConversationsType(conversations)' /\ UsersStayKnown
      /\ \A d \in Convs : conversations[d] # None => conversations'[d] # None
  BY <1>1, <1>2, UpsertConversationEffect DEF UsersStayKnown
<1>4. seen' \in Seen
  BY <1>1, <1>2 DEF Seen
<1>5. item \in Message /\ item.conv = g
  BY <1>0, <1>2 DEF Message
<1>6. [do |-> "storeGroup", id |-> m, item |-> item] \in Continuation["history"]
  BY <1>5, StoresAre
<1>7. PICK k \in Continuation["history"] : k = [do |-> "storeGroup", id |-> m, item |-> item]
  BY <1>6
<1>8. /\ "history" \in Stores /\ Wait(queue, "history", k)
      /\ k.do = "storeGroup" /\ k.item.conv \in Groups
  BY <1>1, <1>5, <1>7, StoresAre
<1>9. PICK q : q = queue
  OBVIOUS
<1>10. QueueType(queue)' /\ WaitOf(queue)'
  BY <1>2, <1>3, <1>8, <1>9, WaitGoesOn
<1>11. Effect({})
  BY <1>1, <1>3, MessagesStay
<1>12. TypeOK'
  BY <1>1, <1>2, <1>3, <1>4, <1>10, TypesNext DEF TypeOK, MessagesType
<1> QED BY <1>10, <1>11, <1>12 DEF Step

LEMMA GroupIsStep ==
  ASSUME ServiceInv, NEW g \in Groups, NEW x \in Versions \cup {None}, GroupIs(g, x)
  PROVE  Step
<1>1. /\ groups' = [groups EXCEPT ![g] = x]
      /\ seen' = [seen EXCEPT !.told[g] = x,
                !.stale = @ \/ \E k \in Waiting("users") : k.do = "replaceGroups"]
      /\ UNCHANGED <<messages, conversations, users, active, settings>>
  BY DEF GroupIs
<1>2. /\ TypeOK /\ WaitOf(queue) /\ QueueType(queue) /\ seen \in Seen
      /\ seen.told \in GroupCache /\ seen.stale \in BOOLEAN
  BY TypesAre, SeenIsTyped DEF ServiceInv
<1>3. UsersStayKnown
  BY <1>1 DEF UsersStayKnown
<1>4. groups' \in GroupCache
  BY <1>1, <1>2 DEF TypeOK, GroupCache
<1>5. [seen.told EXCEPT ![g] = x] \in GroupCache
  BY <1>2 DEF GroupCache
<1>6. PICK late \in BOOLEAN :
        late = (seen.stale \/ \E k \in Waiting("users") : k.do = "replaceGroups")
  OBVIOUS
<1>7. seen' = [seen EXCEPT !.told = [seen.told EXCEPT ![g] = x], !.stale = late]
  BY <1>1, <1>2, <1>6 DEF Seen
<1>8. seen' \in Seen
  BY <1>2, <1>5, <1>7 DEF Seen
<1>9. PICK q : q = queue
  OBVIOUS
<1>10. CASE x = None
  <2>1. queue' = q
    BY <1>9, <1>10 DEF GroupIs, Finish
  <2> QED
    <3>1. QueueType(queue)' /\ WaitOf(queue)'
      BY <2>1, <1>2, <1>3, <1>9, HandlerEnds
    <3>2. Effect({})
      BY <1>1, <1>3, MessagesStay
    <3>3. TypeOK'
      BY <1>1, <1>2, <1>4, <1>8, <3>1, TypesNext DEF TypeOK, MessagesType, ConversationsType
    <3> QED BY <3>1, <3>2, <3>3 DEF Step
<1>11. CASE x # None
  <2>1. Wait(queue, "groups", [do |-> "upsertGroups", left |-> {g}, convs |-> {}])
    BY <1>11 DEF GroupIs
  <2>2. [do |-> "upsertGroups", left |-> {g}, convs |-> {}] \in Continuation["groups"]
    BY StoresAre DEF GroupLoop
  <2>3. PICK k \in Continuation["groups"] :
          k = [do |-> "upsertGroups", left |-> {g}, convs |-> {}]
    BY <2>2
  <2>4. "groups" \in Stores /\ Wait(queue, "groups", k) /\ k.do = "upsertGroups"
    BY <2>1, <2>3, StoresAre
  <2>5. QueueType(queue)' /\ WaitOf(queue)'
    BY <2>4, <1>2, <1>3, <1>9, WaitGoesOn
  <2>6. Effect({})
    BY <1>1, <1>3, MessagesStay
  <2>7. TypeOK'
    BY <1>1, <1>2, <1>4, <1>8, <2>5, TypesNext DEF TypeOK, MessagesType, ConversationsType
  <2> QED BY <2>5, <2>6, <2>7 DEF Step
<1> QED BY <1>10, <1>11

LEMMA PresenceStep ==
  ASSUME ServiceInv, NEW u \in Users, UserOnline(u) \/ UserOffline(u)
  PROVE  Step
<1>1. /\ users' \in [Users -> {"unknown", "offline", "online"}] /\ UsersStayKnown
      /\ UNCHANGED <<messages, conversations, groups, active, settings, queue, seen>>
  BY DEF ServiceInv, TypeOK, UserOnline, UserOffline, UsersStayKnown
<1>2. PICK q : q = queue
  OBVIOUS
<1>3. TypeOK /\ WaitOf(q) /\ QueueType(q) /\ queue' = q
  BY <1>1, <1>2, TypesAre DEF ServiceInv
<1>4. QueueType(queue)' /\ WaitOf(queue)'
  BY <1>1, <1>3, HandlerEnds
<1>5. Effect({})
  BY <1>1, MessagesStay
<1>6. TypeOK'
  BY <1>1, <1>3, <1>4, TypesNext DEF TypeOK, MessagesType, ConversationsType
<1> QED BY <1>4, <1>5, <1>6 DEF Step

LEMMA ReadReceiptStep ==
  ASSUME ServiceInv, NEW m \in MessageIds, ReadReceipt(m)
  PROVE  Step
<1>1. /\ m \in Stored
      /\ messages' = [messages EXCEPT ![m].status =
                    IF messages[m].conv \in Users THEN "read" ELSE @]
      /\ UNCHANGED <<conversations, groups, users, active, settings, queue, seen>>
  BY DEF ReadReceipt
<1>2. /\ TypeOK /\ WaitOf(queue) /\ QueueType(queue) /\ MessagesType(messages)
      /\ messages[m] \in Message
  BY <1>1, TypesAre, StoredIsMessage DEF ServiceInv, Memory
<1>3. /\ messages'[m] \in Message /\ messages'[m].conv = messages[m].conv
      /\ messages'[m].incoming = messages[m].incoming
      /\ \A n \in MessageIds : n # m => messages'[n] = messages[n]
      /\ DOMAIN messages' = MessageIds
  BY <1>1, <1>2 DEF Message, MessagesType
<1>4. MessagesType(messages)'
  BY <1>1, <1>2, <1>3 DEF MessagesType
<1>5. Stored' = Stored
  BY <1>1, <1>3, NoneIsNoMessage DEF Stored
<1>6. Effect({})
  <2>1. Changes({})
    BY <1>3, <1>5 DEF Changes, Stored
  <2>2. RetentionHolds => RetentionHolds'
    BY <1>1, <1>5 DEF RetentionHolds
  <2> QED BY <2>1, <2>2, <1>1 DEF Effect, UsersStayKnown
<1>7. PICK q : q = queue
  OBVIOUS
<1>8. QueueType(queue)' /\ WaitOf(queue)'
  BY <1>1, <1>2, <1>7, HandlerEnds DEF UsersStayKnown
<1>9. TypeOK'
  BY <1>1, <1>2, <1>4, <1>8, TypesNext DEF TypeOK, ConversationsType
<1> QED BY <1>6, <1>8, <1>9 DEF Step

\* A message is added, or takes the place of its earlier form.
LEMMA UpsertStep ==
  ASSUME ServiceInv, NEW m \in MessageIds, NEW item \in Message, NEW h \in Seen,
         UpsertMessage(m, item, h), UNCHANGED <<users, settings>>,
         item.incoming /\ item.conv \in Users => users[item.conv] # "unknown"
  PROVE  /\ MessagesType(messages)' /\ ConversationsType(conversations)' /\ seen' \in Seen
         /\ Effect({m}) /\ UsersStayKnown
<1>1. Memory /\ item.conv \in Convs
  BY TypesAre, MessageIsTyped DEF ServiceInv
<1>2. /\ MessagesType(messages)' /\ ConversationsType(conversations)' /\ seen' \in Seen
      /\ RetentionHolds => Cardinality(Stored)' <= settings.maxMessages
      /\ m \in Stored' /\ messages'[m] = item
      /\ Stored' \subseteq Stored \cup {m}
      /\ \A n \in Stored' : n # m => messages'[n] = messages[n]
      /\ conversations'[item.conv] \in Nat
      /\ \A c \in Convs : c # item.conv => conversations'[c] = conversations[c]
  BY <1>1, UpsertMessageEffect
<1>3. Changes({m})
  BY <1>2 DEF Changes
<1>4. RetentionHolds => RetentionHolds'
  BY <1>2 DEF RetentionHolds
<1>5. conversations'[item.conv] # None
  BY <1>2, ServiceConstants
<1>6. \A c \in Convs : conversations[c] # None => conversations'[c] # None
  BY <1>2, <1>5
<1>7. UsersStayKnown
  BY DEF UsersStayKnown
<1>8. \A n \in {m} \cap Stored' :
       /\ conversations'[messages'[n].conv] # None
       /\ messages'[n].incoming /\ messages'[n].conv \in Users
            => users'[messages'[n].conv] # "unknown"
  BY <1>2, <1>5
<1> QED BY <1>2, <1>3, <1>4, <1>6, <1>7, <1>8 DEF Effect

\* A conversation is marked as read.
LEMMA MarkReadStep ==
  ASSUME ServiceInv, NEW c \in Convs, MarkConversationRead(c), UNCHANGED <<users, settings>>
  PROVE  /\ MessagesType(messages)' /\ ConversationsType(conversations)'
         /\ Effect({}) /\ UsersStayKnown
<1>1. Memory
  BY TypesAre DEF ServiceInv
<1>2. /\ MessagesType(messages)' /\ ConversationsType(conversations)'
      /\ Stored' = Stored
      /\ \A n \in Stored : /\ messages'[n].conv = messages[n].conv
                           /\ messages'[n].incoming = messages[n].incoming
      /\ \A d \in Convs : conversations[d] # None <=> conversations'[d] # None
  BY <1>1, MarkReadEffect
<1>3. Changes({})
  BY <1>2 DEF Changes
<1>4. RetentionHolds => RetentionHolds'
  BY <1>2 DEF RetentionHolds
<1>5. UsersStayKnown
  BY DEF UsersStayKnown
<1> QED BY <1>2, <1>3, <1>4, <1>5 DEF Effect

LEMMA OpenConversationStep ==
  ASSUME ServiceInv, NEW q, QueueType(q), WaitOf(q), NEW c \in Convs, OpenConversation(q, c)
  PROVE  Step
<1>1. PICK ids \in SUBSET MessageIds : ids = Unread(c)
  BY DEF Unread, Stored
<1>2. /\ active' = c /\ MarkConversationRead(c)
      /\ Wait(q, "history", [do |-> "receipts", ids |-> ids])
      /\ UNCHANGED <<groups, users, settings, seen>>
  BY <1>1 DEF OpenConversation
<1>3. /\ MessagesType(messages)' /\ ConversationsType(conversations)'
      /\ Effect({}) /\ UsersStayKnown
  BY <1>2, MarkReadStep
<1>4. [do |-> "receipts", ids |-> ids] \in Continuation["history"]
  BY StoresAre
<1>5. PICK k \in Continuation["history"] : k = [do |-> "receipts", ids |-> ids]
  BY <1>4
<1>6. "history" \in Stores /\ Wait(q, "history", k) /\ k.do = "receipts"
  BY <1>2, <1>5, StoresAre
<1>7. QueueType(queue)' /\ WaitOf(queue)'
  BY <1>3, <1>6, WaitGoesOn
<1>8. TypeOK'
  BY <1>2, <1>3, <1>7, TypesNext DEF ServiceInv, TypeOK
<1> QED BY <1>3, <1>7, <1>8 DEF Step

LEMMA StartConversationStep ==
  ASSUME ServiceInv, NEW c \in Convs, StartConversation(c)
  PROVE  Step
<1>1. /\ UpsertConversation(c)
      /\ Wait(queue, "history", [do |-> "open", conv |-> c])
      /\ UNCHANGED <<messages, groups, users, active, settings, seen>>
  BY DEF StartConversation
<1>2. TypeOK /\ WaitOf(queue) /\ QueueType(queue) /\ Memory
  BY TypesAre DEF ServiceInv
<1>3. /\ ConversationsType(conversations)' /\ UsersStayKnown
      /\ \A d \in Convs : conversations[d] # None => conversations'[d] # None
  BY <1>1, <1>2, UpsertConversationEffect DEF UsersStayKnown
<1>4. [do |-> "open", conv |-> c] \in Continuation["history"]
  BY StoresAre
<1>5. PICK k \in Continuation["history"] : k = [do |-> "open", conv |-> c]
  BY <1>4
<1>6. "history" \in Stores /\ Wait(queue, "history", k) /\ k.do = "open"
  BY <1>1, <1>5, StoresAre
<1>7. PICK q : q = queue
  OBVIOUS
<1>8. QueueType(queue)' /\ WaitOf(queue)'
  BY <1>2, <1>3, <1>6, <1>7, WaitGoesOn
<1>9. Effect({})
  BY <1>1, <1>3, MessagesStay
<1>10. TypeOK'
  BY <1>1, <1>2, <1>3, <1>8, TypesNext DEF TypeOK, MessagesType
<1> QED BY <1>8, <1>9, <1>10 DEF Step

LEMMA SendMessageStep ==
  ASSUME ServiceInv, NEW m \in MessageIds, NEW c \in Convs, NEW ok \in BOOLEAN,
         SendMessage(m, c, ok)
  PROVE  Step
<1>1. PICK item : item = [conv |-> c, incoming |-> FALSE,
                          status |-> IF ok THEN "sent" ELSE "failed"]
  OBVIOUS
<1>2. PICK h : h = [seen EXCEPT !.used = @ \cup {m},
                      !.echoes = IF ok /\ c \in Groups THEN @ \cup {<<m, c>>} ELSE @]
  OBVIOUS
<1>3. UpsertMessage(m, item, h) /\ UNCHANGED <<groups, users, active, settings, queue>>
  BY <1>1, <1>2 DEF SendMessage
<1>4. TypeOK /\ WaitOf(queue) /\ QueueType(queue) /\ seen \in Seen
  BY TypesAre DEF ServiceInv
<1>5. item \in Message /\ ~ item.incoming
  BY <1>1 DEF Message
<1>6. h \in Seen
  <2>1. PICK own \in SUBSET (MessageIds \X Groups) :
          own = IF ok /\ c \in Groups THEN seen.echoes \cup {<<m, c>>} ELSE seen.echoes
    <3>1. PICK old \in SUBSET (MessageIds \X Groups) : old = seen.echoes
      BY <1>4, SeenIsTyped
    <3>2. CASE ok /\ c \in Groups
      <4>1. <<m, c>> \in MessageIds \X Groups
        BY <3>2
      <4>2. old \cup {<<m, c>>} \in SUBSET (MessageIds \X Groups)
        BY <4>1
      <4> QED BY <3>1, <3>2, <4>2
    <3>3. CASE ~ (ok /\ c \in Groups)
      BY <3>1, <3>3
    <3> QED BY <3>2, <3>3
  <2>2. h = [seen EXCEPT !.used = @ \cup {m}, !.echoes = own]
    BY <1>2, <1>4, <2>1 DEF Seen
  <2> QED BY <1>4, <2>2 DEF Seen
<1>7. /\ MessagesType(messages)' /\ ConversationsType(conversations)' /\ seen' \in Seen
      /\ Effect({m}) /\ UsersStayKnown
  BY <1>3, <1>5, <1>6, UpsertStep
<1>8. PICK q : q = queue
  OBVIOUS
<1>9. QueueType(queue)' /\ WaitOf(queue)'
  BY <1>3, <1>4, <1>7, <1>8, HandlerEnds
<1>10. TypeOK'
  BY <1>3, <1>4, <1>7, <1>9, TypesNext DEF TypeOK
<1> QED BY <1>7, <1>9, <1>10 DEF Step

LEMMA ClearStep ==
  ASSUME ServiceInv, ClearLocalHistory
  PROVE  Step
<1>1. /\ messages' = [m \in MessageIds |-> None]
      /\ conversations' = [c \in Convs |-> None]
      /\ seen' = [seen EXCEPT !.gone = @ \cup Stored]
      /\ Wait(queue, "history", [do |-> "deselect"])
      /\ UNCHANGED <<groups, users, active, settings>>
  BY DEF ClearLocalHistory
<1>2. TypeOK /\ WaitOf(queue) /\ QueueType(queue) /\ Memory /\ seen \in Seen
  BY TypesAre DEF ServiceInv
<1>3. MessagesType(messages)' /\ ConversationsType(conversations)' /\ UsersStayKnown
  BY <1>1 DEF MessagesType, ConversationsType, UsersStayKnown
<1>4. seen' \in Seen
  <2>1. PICK ids \in SUBSET MessageIds : ids = Stored
    BY DEF Stored
  <2> QED BY <1>1, <1>2, <2>1, SeenChanges
<1>5. Stored' = {}
  BY <1>1 DEF Stored
<1>6. Effect({})
  <2>1. Changes({})
    BY <1>5 DEF Changes
  <2>2. settings'.maxMessages \in Nat
    BY <1>1, <1>2, ServiceConstants DEF Memory, Settings
  <2>3. RetentionHolds'
    BY <1>5, <2>2, FS_EmptySet DEF RetentionHolds
  <2> QED BY <1>3, <1>5, <2>1, <2>3 DEF Effect
<1>7. [do |-> "deselect"] \in Continuation["history"]
  BY StoresAre
<1>8. PICK k \in Continuation["history"] : k = [do |-> "deselect"]
  BY <1>7
<1>9. "history" \in Stores /\ Wait(queue, "history", k) /\ k.do = "deselect"
  BY <1>1, <1>8, StoresAre
<1>10. PICK q : q = queue
  OBVIOUS
<1>11. QueueType(queue)' /\ WaitOf(queue)'
  BY <1>2, <1>3, <1>9, <1>10, WaitGoesOn
<1>12. TypeOK'
  BY <1>1, <1>2, <1>3, <1>4, <1>11, TypesNext DEF TypeOK
<1> QED BY <1>6, <1>11, <1>12 DEF Step

LEMMA ChangeConfigStep ==
  ASSUME ServiceInv, NEW limit \in Limits, NEW on \in BOOLEAN, ChangeConfig(limit, on)
  PROVE  Step
<1> DEFINE trims == Cardinality(Stored) > limit
<1>2. /\ Trim(messages, {}, limit, seen)
      /\ settings' = [loaded |-> on, maxMessages |-> limit,
                      receipts |-> IF trims THEN settings.receipts ELSE on]
      /\ IF trims THEN Wait(queue, "history", [do |-> "configure"]) ELSE Finish(queue)
      /\ UNCHANGED <<conversations, groups, users, active>>
  BY DEF ChangeConfig
<1> HIDE DEF trims
<1>3. TypeOK /\ WaitOf(queue) /\ QueueType(queue) /\ Memory /\ seen \in Seen /\ limit \in Nat
  BY TypesAre, ServiceConstants DEF ServiceInv
<1>4. PICK f : f = messages
  OBVIOUS
<1>5. PICK h \in Seen : h = seen
  BY <1>3
<1>6. MessagesType(f) /\ Trim(f, {}, limit, h)
  BY <1>2, <1>3, <1>4, <1>5 DEF Memory
<1>7. /\ MessagesType(messages)' /\ seen' \in Seen
      /\ Cardinality(Stored)' <= limit
      /\ \A n \in Stored' : messages'[n] = f[n] /\ f[n] # None
  <2>1. PICK none \in SUBSET MessageIds : none = {}
    OBVIOUS
  <2>2. Trim(f, none, limit, h) /\ \A n \in none : f[n] # None
    BY <1>6, <2>1
  <2> QED BY <1>3, <1>6, <2>2, TrimEffect
<1>8. UsersStayKnown /\ (settings \in Settings)'
  BY <1>2, <1>3 DEF UsersStayKnown, Memory, Settings
<1>9. Effect({})
  <2>1. Changes({})
    BY <1>4, <1>7 DEF Changes, Stored
  <2>2. RetentionHolds'
    BY <1>2, <1>7 DEF RetentionHolds
  <2> QED BY <1>2, <1>8, <2>1, <2>2 DEF Effect
<1>10. PICK q : q = queue
  OBVIOUS
<1>11. QueueType(queue)' /\ WaitOf(queue)'
  <2>1. CASE trims
    <3>1. [do |-> "configure"] \in Continuation["history"]
      BY StoresAre
    <3>2. PICK k \in Continuation["history"] : k = [do |-> "configure"]
      BY <3>1
    <3>3. "history" \in Stores /\ Wait(queue, "history", k) /\ k.do = "configure"
      BY <1>2, <2>1, <3>2, StoresAre
    <3> QED BY <3>3, <1>3, <1>8, <1>10, WaitGoesOn
  <2>2. CASE ~ trims
    BY <2>2, <1>2, <1>3, <1>8, <1>10, HandlerEnds DEF Finish
  <2> QED BY <2>1, <2>2
<1>12. TypeOK'
  BY <1>2, <1>3, <1>7, <1>8, <1>11, TypesNext DEF TypeOK, ConversationsType
<1> QED BY <1>9, <1>11, <1>12 DEF Step

----------------------------------------------------------------------------
\* What handlers do when a write has ended

LEMMA ReplaceGroupsStep ==
  ASSUME ServiceInv, NEW q, QueueType(q), WaitOf(q),
         NEW k \in Continuation["users"], k.do = "replaceGroups", ReplaceGroups(k, q)
  PROVE  Step
<1>1. k.groups \in GroupCache /\ k.directs \in SUBSET Users
  BY StoresAre, ContinuationFields
<1>2. PICK present \in SUBSET Groups : present = {g \in Groups : k.groups[g] # None}
  OBVIOUS
<1>3. /\ groups' = k.groups
      /\ Wait(q, "groups", [do |-> "upsertGroups", left |-> present,
                            convs |-> present \cup k.directs])
      /\ UNCHANGED <<messages, conversations, users, active, settings, seen>>
  BY <1>2 DEF ReplaceGroups
<1>4. [do |-> "upsertGroups", left |-> present, convs |-> present \cup k.directs]
        \in Continuation["groups"]
  BY <1>1, StoresAre DEF GroupLoop, Convs
<1>5. PICK next \in Continuation["groups"] :
        next = [do |-> "upsertGroups", left |-> present, convs |-> present \cup k.directs]
  BY <1>4
<1>6. "groups" \in Stores /\ Wait(q, "groups", next) /\ next.do = "upsertGroups"
  BY <1>3, <1>5, StoresAre
<1>7. UsersStayKnown
  BY <1>3 DEF UsersStayKnown
<1>8. QueueType(queue)' /\ WaitOf(queue)'
  BY <1>6, <1>7, WaitGoesOn
<1>9. Effect({})
  BY <1>3, <1>7, MessagesStay
<1>10. TypeOK'
  BY <1>1, <1>3, <1>8, TypesNext DEF ServiceInv, TypeOK, MessagesType, ConversationsType
<1> QED BY <1>8, <1>9, <1>10 DEF Step

LEMMA UpsertGroupsStep ==
  ASSUME ServiceInv, NEW q, QueueType(q), WaitOf(q), NEW s \in Stores,
         NEW k \in Continuation[s], k.do = "upsertGroups", UpsertGroups(k, q)
  PROVE  Step
<1>1. k \in GroupLoop /\ k.left \in SUBSET Groups /\ k.convs \in SUBSET Convs
  BY ContinuationFields
<1>2. UNCHANGED <<messages, groups, users, active, settings, seen>> /\ UsersStayKnown
  BY DEF UpsertGroups, UsersStayKnown
<1>3. Memory /\ TypeOK
  BY TypesAre DEF ServiceInv
<1>4. ASSUME NEW g \in k.left, UpsertConversation(g),
             Wait(q, "history", [k EXCEPT !.left = @ \ {g}])
      PROVE  Step
  <2>1. g \in Convs
    BY <1>1 DEF Convs
  <2>2. /\ ConversationsType(conversations)'
        /\ \A d \in Convs : conversations[d] # None => conversations'[d] # None
    BY <1>3, <1>4, <2>1, UpsertConversationEffect
  <2>3. [k EXCEPT !.left = @ \ {g}] \in GroupLoop
    BY <1>1 DEF GroupLoop
  <2>4. PICK next \in GroupLoop : next = [k EXCEPT !.left = @ \ {g}]
    BY <2>3
  <2>5. /\ "history" \in Stores /\ next \in Continuation["history"] /\ Wait(q, "history", next)
        /\ next.do = "upsertGroups"
    BY <1>4, <2>4, StoresAre DEF GroupLoop
  <2>6. QueueType(queue)' /\ WaitOf(queue)'
    BY <1>2, <2>5, WaitGoesOn
  <2>7. Effect({})
    BY <1>2, <2>2, MessagesStay
  <2>8. TypeOK'
    BY <1>2, <1>3, <2>2, <2>6, TypesNext DEF TypeOK, MessagesType
  <2> QED BY <2>6, <2>7, <2>8 DEF Step
<1>5. ASSUME ReplaceConversations(k.convs), Finish(q)
      PROVE  Step
  <2>1. conversations' = [c \in Convs |-> IF c \in k.convs THEN 0 ELSE conversations[c]]
    BY <1>5 DEF ReplaceConversations
  <2>2. /\ ConversationsType(conversations)'
        /\ \A d \in Convs : conversations[d] # None => conversations'[d] # None
    BY <1>3, <2>1, ServiceConstants DEF Memory, ConversationsType
  <2>3. QueueType(queue)' /\ WaitOf(queue)'
    BY <1>2, <1>5, HandlerEnds DEF Finish
  <2>4. Effect({})
    BY <1>2, <2>2, MessagesStay
  <2>5. TypeOK'
    BY <1>2, <1>3, <2>2, <2>3, TypesNext DEF TypeOK, MessagesType
  <2> QED BY <2>3, <2>4, <2>5 DEF Step
<1> QED BY <1>4, <1>5 DEF UpsertGroups

LEMMA StoreMessageStep ==
  ASSUME ServiceInv, NEW q, QueueType(q), WaitOf(q),
         NEW m \in MessageIds, NEW item \in Message, StoreMessage(m, item, q),
         item.incoming /\ item.conv \in Users => users[item.conv] # "unknown"
  PROVE  Step
<1>1. PICK h \in Seen : h = seen
  BY TypesAre DEF ServiceInv
<1>2. /\ UpsertMessage(m, item, h)
      /\ Wait(q, "history", [do |-> "receipt", id |-> m, item |-> item])
      /\ UNCHANGED <<groups, users, active, settings>>
  BY <1>1 DEF StoreMessage
<1>3. /\ MessagesType(messages)' /\ ConversationsType(conversations)' /\ seen' \in Seen
      /\ Effect({m}) /\ UsersStayKnown
  BY <1>2, UpsertStep
<1>4. [do |-> "receipt", id |-> m, item |-> item] \in Continuation["history"]
  BY StoresAre
<1>5. PICK k \in Continuation["history"] : k = [do |-> "receipt", id |-> m, item |-> item]
  BY <1>4
<1>6. "history" \in Stores /\ Wait(q, "history", k) /\ k.do = "receipt"
  BY <1>2, <1>5, StoresAre
<1>7. QueueType(queue)' /\ WaitOf(queue)'
  BY <1>3, <1>6, WaitGoesOn
<1>8. TypeOK'
  BY <1>2, <1>3, <1>7, TypesNext DEF ServiceInv, TypeOK
<1> QED BY <1>3, <1>7, <1>8 DEF Step

\* The message of a StoreDirect and of a handler that stores a group message.
LEMMA StoreDirectStep ==
  ASSUME ServiceInv, NEW q, QueueType(q), WaitOf(q), NEW k \in Continuation["users"],
         k.do = "storeDirect", k \in Waiting("users"), StoreDirect(k, q)
  PROVE  Step
<1>1. k.id \in MessageIds /\ k.conv \in Users
  BY StoresAre, ContinuationFields
<1>2. PICK item : item = [conv |-> k.conv, incoming |-> TRUE,
                          status |-> IF active = k.conv THEN "read" ELSE "delivered"]
  OBVIOUS
<1>3. item \in Message /\ item.conv = k.conv
  BY <1>1, <1>2 DEF Message, Convs
<1>4. users[k.conv] # "unknown"
  BY DEF ServiceInv, WaitOf, Waiting, Elems
<1>5. StoreMessage(k.id, item, q)
  BY <1>2 DEF StoreDirect
<1> QED BY <1>1, <1>3, <1>4, <1>5, StoreMessageStep

LEMMA StoreGroupStep ==
  ASSUME ServiceInv, NEW q, QueueType(q), WaitOf(q), NEW k \in Continuation["history"],
         k.do = "storeGroup", k \in Waiting("history"), StoreMessage(k.id, k.item, q)
  PROVE  Step
<1>1. k.id \in MessageIds /\ k.item \in Message
  BY StoresAre, ContinuationFields
<1>2. k.item.conv \in Groups
  BY DEF ServiceInv, WaitOf, Waiting, Elems
<1>3. k.item.conv \notin Users
  BY <1>2, ServiceConstants
<1> QED BY <1>1, <1>3, StoreMessageStep

LEMMA ReceiptsAreSeen ==
  ASSUME seen \in Seen, NEW ids \in SUBSET MessageIds, SendReadReceipts(ids)
  PROVE  seen' \in Seen
BY SeenChanges DEF SendReadReceipts

LEMMA ReceiptStep ==
  ASSUME ServiceInv, NEW q, QueueType(q), WaitOf(q), NEW k \in Continuation["history"],
         k.do = "receipt", SendImmediateReceipt(k, q)
  PROVE  Step
<1>1. k.id \in MessageIds /\ k.item \in Message /\ k.item.conv \in Convs
  BY StoresAre, ContinuationFields, MessageIsTyped
<1>2. UNCHANGED <<groups, users, active, settings>> /\ UsersStayKnown /\ queue' = q
  BY DEF SendImmediateReceipt, UsersStayKnown, stores, Finish
<1>3. QueueType(queue)' /\ WaitOf(queue)'
  BY <1>2, HandlerEnds
<1>4. seen \in Seen /\ {k.id} \in SUBSET MessageIds
  BY <1>1, TypesAre DEF ServiceInv
<1>5. CASE k.item.incoming /\ active = k.item.conv /\ settings.receipts
  <2>1. SendReadReceipts({k.id}) /\ MarkConversationRead(k.item.conv)
    BY <1>5 DEF SendImmediateReceipt
  <2>2. seen' \in Seen
    BY <2>1, <1>4, ReceiptsAreSeen
  <2>3. /\ MessagesType(messages)' /\ ConversationsType(conversations)'
        /\ Effect({})
    BY <1>1, <1>2, <2>1, MarkReadStep
  <2>4. TypeOK'
    BY <1>2, <1>3, <2>2, <2>3, TypesNext DEF ServiceInv, TypeOK
  <2> QED BY <1>3, <2>3, <2>4 DEF Step
<1>6. CASE ~ (k.item.incoming /\ active = k.item.conv /\ settings.receipts)
  <2>1. PICK ids \in SUBSET MessageIds :
          ids = IF k.id \in Unread(k.item.conv) /\ active # k.item.conv THEN {} ELSE {k.id}
    BY <1>1
  <2>2. /\ seen' = [seen EXCEPT !.excused =
                     IF k.id \in Unread(k.item.conv) /\ active # k.item.conv
                     THEN @ ELSE @ \cup {k.id}]
        /\ UNCHANGED <<stores, active, settings>>
    BY <1>6 DEF SendImmediateReceipt
  <2>3. seen' = [seen EXCEPT !.excused = @ \cup ids]
    BY <2>1, <2>2
  <2>4. seen' \in Seen
    BY <1>4, <2>3, SeenChanges
  <2>5. Effect({})
    BY <1>2, <2>2, MessagesStay DEF stores
  <2>6. TypeOK'
    BY <1>2, <1>3, <2>2, <2>4, TypesNext
       DEF ServiceInv, TypeOK, stores, MessagesType, ConversationsType
  <2> QED BY <1>3, <2>5, <2>6 DEF Step
<1> QED BY <1>5, <1>6

LEMMA ReceiptsStep ==
  ASSUME ServiceInv, NEW q, QueueType(q), WaitOf(q), NEW k \in Continuation["history"],
         k.do = "receipts", SendReceipts(k, q)
  PROVE  Step
<1>1. k.ids \in SUBSET MessageIds
  BY StoresAre, ContinuationFields
<1>2. UNCHANGED <<stores, active, settings>> /\ UsersStayKnown /\ queue' = q
  BY DEF SendReceipts, UsersStayKnown, stores, Finish
<1>3. QueueType(queue)' /\ WaitOf(queue)'
  BY <1>2, HandlerEnds
<1>4. seen \in Seen
  BY TypesAre DEF ServiceInv
<1>5. seen' \in Seen
  <2>1. CASE settings.receipts
    BY <2>1, <1>1, <1>4, ReceiptsAreSeen DEF SendReceipts
  <2>2. CASE ~ settings.receipts
    BY <2>2, <1>1, <1>4, SeenChanges DEF SendReceipts
  <2> QED BY <2>1, <2>2
<1>6. Effect({})
  BY <1>2, MessagesStay DEF stores
<1>7. TypeOK'
  BY <1>2, <1>3, <1>5, TypesNext
     DEF ServiceInv, TypeOK, stores, MessagesType, ConversationsType
<1> QED BY <1>3, <1>6, <1>7 DEF Step

\* Deselect, configure, and the end of a handler whose write failed.
LEMMA MemoryStays ==
  ASSUME ServiceInv, NEW q, QueueType(q), WaitOf(q), queue' = q, UNCHANGED stores,
         settings'.maxMessages = settings.maxMessages, (settings \in Settings)',
         (active \in Convs \cup {None})', (seen \in Seen)'
  PROVE  Step
<1>1. UNCHANGED <<messages, conversations, groups, users>> /\ UsersStayKnown
  BY DEF stores, UsersStayKnown
<1>2. QueueType(queue)' /\ WaitOf(queue)'
  BY <1>1, HandlerEnds
<1>3. Effect({})
  BY <1>1, MessagesStay
<1>4. TypeOK'
  BY <1>1, <1>2, TypesNext DEF ServiceInv, TypeOK, MessagesType, ConversationsType
<1> QED BY <1>2, <1>3, <1>4 DEF Step

LEMMA DeselectStep ==
  ASSUME ServiceInv, NEW q, QueueType(q), WaitOf(q), Deselect(q) \/ Configure(q)
  PROVE  Step
<1>1. settings \in Settings /\ seen \in Seen /\ active \in Convs \cup {None}
  BY TypesAre DEF ServiceInv, Memory
<1>2. CASE Deselect(q)
  BY <1>1, <1>2, MemoryStays DEF Deselect, Finish
<1>3. CASE Configure(q)
  <2>1. settings' = [settings EXCEPT !.receipts = settings.loaded]
    BY <1>3 DEF Configure
  <2>2. settings' \in Settings /\ settings'.maxMessages = settings.maxMessages
    BY <2>1, <1>1 DEF Settings
  <2> QED BY <1>1, <1>3, <2>2, MemoryStays DEF Configure, Finish
<1> QED BY <1>2, <1>3

LEMMA CarriedIds ==
  ASSUME NEW s \in Stores, NEW k \in Continuation[s]
  PROVE  Carried(k) \in SUBSET MessageIds
BY ContinuationFields DEF Carried

LEMMA WriteFailsStep ==
  ASSUME ServiceInv, NEW s \in Stores, NEW q, QueueType(q), WaitOf(q),
         q = [queue EXCEPT ![s] = Tail(@)], Head(queue[s]) \in Continuation[s], WriteFails(s)
  PROVE  Step
<1>1. PICK k \in Continuation[s] : k = Head(queue[s])
  OBVIOUS
<1>2. /\ seen' = [seen EXCEPT !.excused = @ \cup Carried(k),
                              !.gone = @ \cup (Carried(k) \ Stored),
                              !.stale = @ \/ k.do = "replaceGroups"]
      /\ queue' = q /\ UNCHANGED <<stores, active, settings>>
  BY <1>1 DEF WriteFails
<1>3. seen \in Seen /\ settings \in Settings /\ active \in Convs \cup {None}
  BY TypesAre DEF ServiceInv, Memory
<1>4. PICK ids \in SUBSET MessageIds : ids = Carried(k)
  BY CarriedIds
<1>5. PICK lost \in SUBSET MessageIds : lost = Carried(k) \ Stored
  BY CarriedIds
<1>6. PICK late \in BOOLEAN : late = (seen.stale \/ k.do = "replaceGroups")
  OBVIOUS
<1>7. seen' = [seen EXCEPT !.excused = @ \cup ids, !.gone = @ \cup lost, !.stale = late]
  BY <1>2, <1>3, <1>4, <1>5, <1>6 DEF Seen
<1>8. seen' \in Seen
  BY <1>3, <1>7 DEF Seen
<1> QED BY <1>2, <1>3, <1>8, MemoryStays

----------------------------------------------------------------------------
\* The theorems

\* A part of the handlers that wait.
LEMMA FewerWait ==
  ASSUME WaitOf(queue), NEW q, \A t \in Stores : Elems(q[t]) \subseteq Waiting(t)
  PROVE  WaitOf(q)
<1>1. "users" \in Stores /\ "history" \in Stores
  BY StoresAre
<1> QED BY <1>1 DEF WaitOf, Waiting, Elems

LEMMA WriteStep ==
  ASSUME ServiceInv, NEW s \in Stores, WriteEnds(s) \/ WriteFails(s)
  PROVE  Step
<1>1. queue[s] # <<>> /\ QueueType(queue) /\ WaitOf(queue)
  BY TypesAre DEF ServiceInv, WriteEnds, WriteFails
<1>2. PICK q : q = [queue EXCEPT ![s] = Tail(@)]
  OBVIOUS
<1>3. /\ QueueType(q) /\ Head(queue[s]) \in Continuation[s]
      /\ Waiting(s) = Elems(q[s]) \cup {Head(queue[s])}
      /\ \A t \in Stores : t # s => Waiting(t) = Elems(q[t])
  BY <1>1, <1>2, HeadLeaves
<1>4. WaitOf(q)
  BY <1>1, <1>3, FewerWait
<1>5. PICK k \in Continuation[s] : k = Head(queue[s])
  BY <1>3
<1>6. k \in Waiting(s)
  BY <1>3, <1>5
<1>7. CASE WriteFails(s)
  BY <1>2, <1>3, <1>4, <1>7, WriteFailsStep
<1>8. CASE WriteEnds(s)
  <2>1. CASE k.do = "replaceGroups" /\ ReplaceGroups(k, q)
    BY <2>1, <1>4, <1>3, ContinuationFields, ReplaceGroupsStep
  <2>2. CASE k.do = "upsertGroups" /\ UpsertGroups(k, q)
    BY <2>2, <1>4, <1>3, UpsertGroupsStep
  <2>3. CASE k.do = "storeDirect" /\ StoreDirect(k, q)
    BY <2>3, <1>4, <1>3, <1>6, ContinuationFields, StoreDirectStep
  <2>4. CASE k.do = "storeGroup" /\ StoreMessage(k.id, k.item, q)
    BY <2>4, <1>4, <1>3, <1>6, ContinuationFields, StoreGroupStep
  <2>5. CASE k.do = "receipt" /\ SendImmediateReceipt(k, q)
    BY <2>5, <1>4, <1>3, ContinuationFields, ReceiptStep
  <2>6. CASE k.do = "receipts" /\ SendReceipts(k, q)
    BY <2>6, <1>4, <1>3, ContinuationFields, ReceiptsStep
  <2>7. CASE k.do = "open" /\ OpenConversation(q, k.conv)
    BY <2>7, <1>4, <1>3, ContinuationFields, OpenConversationStep
  <2>8. CASE k.do = "deselect" /\ Deselect(q)
    BY <2>8, <1>4, <1>3, DeselectStep
  <2>9. CASE k.do = "configure" /\ Configure(q)
    BY <2>9, <1>4, <1>3, DeselectStep
  <2> QED BY <1>2, <1>5, <1>8, <2>1, <2>2, <2>3, <2>4, <2>5, <2>6, <2>7, <2>8, <2>9 DEF WriteEnds
<1> QED BY <1>7, <1>8

LEMMA EveryStep ==
  ASSUME ServiceInv, Next
  PROVE  Step
<1>1. CASE Packet
  BY <1>1, HelloAckStep, PresenceStep, DirectMessageStep, GroupIsStep, GroupMessageStep,
     ReadReceiptStep DEF Packet
<1>2. CASE Command
  <2>1. ASSUME NEW c \in Convs, OpenConversation(queue, c) PROVE Step
    <3>1. PICK q : q = queue
      OBVIOUS
    <3>2. QueueType(q) /\ WaitOf(q) /\ OpenConversation(q, c)
      BY <2>1, <3>1, TypesAre DEF ServiceInv
    <3> QED BY <3>2, OpenConversationStep
  <2> QED BY <1>2, <2>1, StartConversationStep, SendMessageStep, ClearStep DEF Command
<1>3. CASE \E limit \in Limits, on \in BOOLEAN : ChangeConfig(limit, on)
  BY <1>3, ChangeConfigStep
<1>4. CASE \E s \in Stores : WriteEnds(s) \/ WriteFails(s)
  BY <1>4, WriteStep
<1> QED BY <1>1, <1>2, <1>3, <1>4 DEF Next

LEMMA InitHolds == Init => ServiceInv
<1> SUFFICES ASSUME Init PROVE ServiceInv
  OBVIOUS
<1>1. QueueType(queue) /\ \A t \in Stores : Elems(queue[t]) = {}
  BY DEF Init, QueueType, Elems
<1>2. WaitOf(queue)
  BY <1>1, StoresAre DEF WaitOf
<1>3. Stored = {}
  BY DEF Init, Stored
<1>4. settings \in Settings /\ settings.maxMessages \in Nat
  BY ServiceConstants DEF Init, Settings
<1>5. Memory
  BY <1>4 DEF Init, Memory, MessagesType, ConversationsType
<1>6. groups \in GroupCache
  BY DEF Init, GroupCache
<1>7. seen \in Seen
  BY <1>6 DEF Init, Seen
<1>8. TypeOK
  BY <1>1, <1>5, <1>6, <1>7, TypesAre DEF Init
<1> QED BY <1>2, <1>3, <1>4, <1>8, FS_EmptySet
        DEF ServiceInv, RetentionHolds, MessagesHaveConversation, SendersAreKnown

LEMMA ServiceInvHolds == Spec => []ServiceInv
<1>1. ServiceInv /\ [Next]_vars => ServiceInv'
  <2> SUFFICES ASSUME ServiceInv, [Next]_vars PROVE ServiceInv'
    OBVIOUS
  <2>1. CASE Next
    BY <2>1, EveryStep, EffectKeeps DEF ServiceInv, Step
  <2>2. CASE UNCHANGED vars
    BY <2>2 DEF vars, stores, ServiceInv, TypeOK, WaitOf, RetentionHolds, Stored,
                MessagesHaveConversation, SendersAreKnown
  <2> QED BY <2>1, <2>2
<1> QED BY <1>1, InitHolds, PTL DEF Spec

\* However handlers interleave and whichever writes fail, the caches keep
\* their types: no packet, command or change of a setting leaves one undefined.
THEOREM ServiceTypes == Spec => []TypeOK
<1>1. ServiceInv => TypeOK
  BY DEF ServiceInv
<1> QED BY <1>1, ServiceInvHolds, PTL

\* For every limit and every order of the handlers, the cache holds no more
\* messages than maxSavedMessages, also just after the limit was lowered.
THEOREM CacheKeepsLimit == Spec => []RetentionHolds
<1>1. ServiceInv => RetentionHolds
  BY DEF ServiceInv
<1> QED BY <1>1, ServiceInvHolds, PTL

\* A message is never held without its conversation: hello-ack's replacement
\* of the conversations keeps those it does not list, and clearing removes
\* both.
THEOREM NoMessageWithoutConversation == Spec => []MessagesHaveConversation
<1>1. ServiceInv => MessagesHaveConversation
  BY DEF ServiceInv
<1> QED BY <1>1, ServiceInvHolds, PTL

\* The sender of every direct message held is in the user cache, although a
\* hello-ack may replace the users between its arrival and its storing.
THEOREM DirectSendersAreKnown == Spec => []SendersAreKnown
<1>1. ServiceInv => SendersAreKnown
  BY DEF ServiceInv
<1> QED BY <1>1, ServiceInvHolds, PTL

=============================================================================
