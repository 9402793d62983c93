----------------------------- MODULE ChatService -----------------------------
(***************************************************************************)
(* The extension's ChatService (chatService.ts) over its in-memory caches   *)
(* HistoryStore, GroupStore and UserStore: what it makes of the server's    *)
(* packets, of the user's commands and of configuration changes.            *)
(*                                                                          *)
(* Nobody awaits these handlers.  Each runs until it awaits the write of a  *)
(* store it changed; a store writes its file through a FIFO queue, and the  *)
(* handler goes on when its own write has ended.  So a handler under way is *)
(* one entry of a queue, its continuation, and an action is what runs       *)
(* between two awaits.  A write that fails rejects the await and ends the   *)
(* handler (handleServerMessage and the view's caller log it).  A wait that *)
(* nothing follows is left out: the handler is over when it begins.         *)
(*                                                                          *)
(* createGroup, renameGroup, inviteUserToGroup, leaveGroup and deleteGroup   *)
(* only ask the server and change nothing here.                             *)
(*                                                                          *)
(* Titles, previews, texts, timestamps and readBy are left out, and so is   *)
(* the order of the message array: which of the older messages a trim       *)
(* drops is left open.                                                      *)
(***************************************************************************)
EXTENDS Naturals, Sequences, FiniteSets

CONSTANTS
  Users,       \* the other users; each stands for its direct conversation too
  Groups,      \* group ids, which are also the ids of their conversations
  Versions,    \* contents of a group
  MessageIds,
  Limits,      \* values of maxSavedMessages
  MaxHandlers, \* bound: handlers that wait
  None

Convs == Users \cup Groups

ASSUME ServiceConstants ==
  /\ Users \cap Groups = {} /\ None \notin Convs \cup Versions \cup Nat
  /\ Limits \subseteq Nat \ {0} /\ MaxHandlers \in Nat
  /\ IsFiniteSet(MessageIds)

VARIABLES
  messages,      \* HistoryStore.messages, by id
  conversations, \* HistoryStore.conversations: the unreadCount, by id
  groups,        \* GroupStore.groups
  users,         \* UserStore.users
  active,        \* activeConversationId
  settings,      \* read receipts as last read and as in use; maxMessages
  queue,         \* the write queues: the handlers that wait in them
  seen           \* history: what was received and sent, and what was given up

stores == <<messages, conversations, groups, users>>
vars   == <<stores, active, settings, queue, seen>>

Message == [conv : Convs, incoming : BOOLEAN,
            status : {"sent", "failed", "delivered", "read"}]
ASSUME NoneIsNoMessage == None \notin Message

GroupCache == [Groups -> Versions \cup {None}]
Settings == [loaded : BOOLEAN, receipts : BOOLEAN, maxMessages : Limits]

\* What a handler does when its write has ended, by the store it waits for.
GroupLoop == [do : {"upsertGroups"}, left : SUBSET Groups, convs : SUBSET Convs]
Continuation ==
  [users   |-> [do : {"replaceGroups"}, groups : GroupCache, directs : SUBSET Users]
               \cup [do : {"storeDirect"}, id : MessageIds, conv : Users],
   groups  |-> GroupLoop,
   history |-> GroupLoop
               \cup [do : {"storeGroup", "receipt"}, id : MessageIds, item : Message]
               \cup [do : {"receipts"}, ids : SUBSET MessageIds]
               \cup [do : {"open"}, conv : Convs]
               \cup [do : {"deselect", "configure"}]]
Stores == DOMAIN Continuation

\* told: the groups as the packets say; stale: a group packet overtook the last
\* hello-ack, or its handler failed.  used, received: the message ids in use, and
\* those of incoming messages.  echoes: own group messages the server will send
\* back.  receipts: sent.  excused: messages whose handler sent none, or left
\* them unread, for a reason.  trimmed: messages the limit dropped.  gone:
\* messages cleared, or never stored as a file could not be written.
Seen == [told : GroupCache, used : SUBSET MessageIds, received : SUBSET MessageIds,
         echoes : SUBSET (MessageIds \X Groups), receipts : SUBSET MessageIds,
         excused : SUBSET MessageIds, trimmed : SUBSET MessageIds,
         gone : SUBSET MessageIds, stale : BOOLEAN]

Stored == {m \in MessageIds : messages[m] # None}
Unread(c) ==
  {m \in Stored : /\ messages[m].conv = c /\ messages[m].incoming
                  /\ messages[m].status # "read"}

TypeOK ==
  /\ messages \in [MessageIds -> Message \cup {None}]
  /\ conversations \in [Convs -> Nat \cup {None}]
  /\ groups \in GroupCache
  /\ users \in [Users -> {"unknown", "offline", "online"}]
  /\ active \in Convs \cup {None}
  /\ settings \in Settings
  /\ DOMAIN queue = Stores /\ \A s \in Stores : queue[s] \in Seq(Continuation[s])
  /\ seen \in Seen

----------------------------------------------------------------------------
\* Waiting.  q is the queue as the running handler finds it.

Wait(q, s, k) == queue' = [q EXCEPT ![s] = Append(@, k)]
Finish(q) == queue' = q
Room == Len(queue.users) + Len(queue.groups) + Len(queue.history) < MaxHandlers

Waiting(s) == {queue[s][i] : i \in DOMAIN queue[s]}

\* The messages a handler carries along.
Carried(k) ==
  CASE k.do \in {"storeDirect", "storeGroup", "receipt"} -> {k.id}
    [] k.do = "receipts" -> k.ids
    [] OTHER -> {}

----------------------------------------------------------------------------
\* Methods of HistoryStore, up to persist

UpsertConversation(c) == conversations' = [conversations EXCEPT ![c] = 0]

\* Mutant: the conversations the server does not list are dropped.
ReplaceConversationsOnlyListed(cs) ==
  conversations' = [c \in Convs |-> IF c \in cs THEN 0 ELSE None]

ReplaceConversations(cs) ==
  conversations' = [c \in Convs |-> IF c \in cs THEN 0 ELSE conversations[c]]

\* The array all once trimMessages has cut it to the limit; h is the history.
Trim(all, newest, limit, h) ==
  LET ids == {m \in MessageIds : all[m] # None}
  IN  \E kept \in SUBSET ids :
        /\ newest \subseteq kept
        /\ IF Cardinality(ids) <= limit THEN kept = ids ELSE Cardinality(kept) = limit
        /\ messages' = [m \in MessageIds |-> IF m \in kept THEN all[m] ELSE None]
        /\ seen' = [h EXCEPT !.trimmed = @ \cup (ids \ kept)]

\* Mutant: an added message does not trim the array.
UpsertMessageUntrimmed(m, item, h) ==
  LET count == IF conversations[item.conv] = None THEN 0 ELSE conversations[item.conv]
  IN  /\ messages' = [messages EXCEPT ![m] = item] /\ seen' = h
      /\ conversations' = [conversations EXCEPT ![item.conv] =
           IF item.incoming /\ item.status # "read" THEN count + 1 ELSE count]

\* upsertMessage and upsertConversationFromMessage.
UpsertMessage(m, item, h) ==
  LET count == IF conversations[item.conv] = None THEN 0 ELSE conversations[item.conv]
  IN  /\ IF m \in Stored THEN messages' = [messages EXCEPT ![m] = item] /\ seen' = h
         ELSE Trim([messages EXCEPT ![m] = item], {m}, settings.maxMessages, h)
      /\ conversations' = [conversations EXCEPT ![item.conv] =
           IF item.incoming /\ item.status # "read" THEN count + 1 ELSE count]

\* Mutant: the messages are marked but the count stays.
MarkMessagesRead(c) ==
  /\ UNCHANGED conversations
  /\ messages' = [m \in MessageIds |->
       IF m \in Unread(c) THEN [messages[m] EXCEPT !.status = "read"] ELSE messages[m]]

MarkConversationRead(c) ==
  /\ conversations' = [conversations EXCEPT ![c] = IF @ = None THEN None ELSE 0]
  /\ messages' = [m \in MessageIds |->
       IF m \in Unread(c) THEN [messages[m] EXCEPT !.status = "read"] ELSE messages[m]]

----------------------------------------------------------------------------
\* Packets of the server

\* Mutant: the users who are not online are forgotten.
HelloAckForgetsOffline(online, gs, directs) ==
  /\ Room
  /\ users' = [u \in Users |-> IF u \in online THEN "online" ELSE "unknown"]
  /\ seen' = [seen EXCEPT !.told = gs, !.stale = FALSE]
  /\ Wait(queue, "users", [do |-> "replaceGroups", groups |-> gs, directs |-> directs])
  /\ UNCHANGED <<messages, conversations, groups, active, settings>>

\* hello-ack: users, then (after the await) groups and conversations.
HelloAck(online, gs, directs) ==
  /\ Room
  /\ users' = [u \in Users |-> IF u \in online THEN "online"
                               ELSE IF users[u] = "unknown" THEN "unknown" ELSE "offline"]
  /\ seen' = [seen EXCEPT !.told = gs, !.stale = FALSE]
  /\ Wait(queue, "users", [do |-> "replaceGroups", groups |-> gs, directs |-> directs])
  /\ UNCHANGED <<messages, conversations, groups, active, settings>>

\* A direct message's sender is online; the message is built after the await.
DirectMessage(m, u) ==
  /\ Room /\ m \notin seen.used
  /\ users' = [users EXCEPT ![u] = "online"]
  /\ seen' = [seen EXCEPT !.used = @ \cup {m}, !.received = @ \cup {m}]
  /\ Wait(queue, "users", [do |-> "storeDirect", id |-> m, conv |-> u])
  /\ UNCHANGED <<messages, conversations, groups, active, settings>>

\* A group message, also the echo of an own one, is built before the await.
\* The server always gives the groupName.
GroupMessage(m, g) ==
  LET incoming == m \notin seen.used
      item == [conv |-> g, incoming |-> incoming,
               status |-> IF active = g THEN "read" ELSE "delivered"]
  IN  /\ Room /\ (incoming \/ <<m, g>> \in seen.echoes)
      /\ UpsertConversation(g)
      /\ seen' = [seen EXCEPT !.used = @ \cup {m}, !.echoes = @ \ {<<m, g>>},
                              !.received = IF incoming THEN @ \cup {m} ELSE @]
      /\ Wait(queue, "history", [do |-> "storeGroup", id |-> m, item |-> item])
      /\ UNCHANGED <<messages, groups, users, active, settings>>

\* Mutant: a deleted group stays in the cache.
GroupIsKept(g, x) ==
  /\ Room
  /\ groups' = [groups EXCEPT ![g] = IF x = None THEN @ ELSE x]
  /\ seen' = [seen EXCEPT !.told[g] = x,
                !.stale = @ \/ \E k \in Waiting("users") : k.do = "replaceGroups"]
  /\ IF x = None THEN Finish(queue)
     ELSE Wait(queue, "groups", [do |-> "upsertGroups", left |-> {g}, convs |-> {}])
  /\ UNCHANGED <<messages, conversations, users, active, settings>>

\* group-created and group-updated (the group), group-deleted (None).
GroupIs(g, x) ==
  /\ Room
  /\ groups' = [groups EXCEPT ![g] = x]
  /\ seen' = [seen EXCEPT !.told[g] = x,
                !.stale = @ \/ \E k \in Waiting("users") : k.do = "replaceGroups"]
  /\ IF x = None THEN Finish(queue)
     ELSE Wait(queue, "groups", [do |-> "upsertGroups", left |-> {g}, convs |-> {}])
  /\ UNCHANGED <<messages, conversations, users, active, settings>>

\* After the await, user-online gives the conversation its title.
UserOnline(u) ==
  /\ users' = [users EXCEPT ![u] = "online"]
  /\ UNCHANGED <<messages, conversations, groups, active, settings, queue, seen>>

UserOffline(u) ==
  /\ users[u] # "unknown"
  /\ users' = [users EXCEPT ![u] = "offline"]
  /\ UNCHANGED <<messages, conversations, groups, active, settings, queue, seen>>

\* read-receipt of a stored message: from a reader of an own or of a group's
\* message, or the own receipt of a direct message, which the server returns.
ReadReceipt(m) ==
  /\ m \in Stored
  /\ messages[m].incoming => messages[m].conv \in Groups \/ m \in seen.receipts
  /\ messages' = [messages EXCEPT ![m].status =
                    IF messages[m].conv \in Users THEN "read" ELSE @]
  /\ UNCHANGED <<conversations, groups, users, active, settings, queue, seen>>

----------------------------------------------------------------------------
\* Commands of the user and settings

\* Mutant: the receipts are sent for what is unread after the await: nothing.
OpenWithoutReceipts(q, c) ==
  /\ active' = c
  /\ MarkConversationRead(c)
  /\ Finish(q)
  /\ UNCHANGED <<groups, users, settings, seen>>

\* Mutant: only the count of the opened conversation is reset.
OpenResetsCount(q, c) ==
  /\ active' = c
  /\ conversations' = [conversations EXCEPT ![c] = IF @ = None THEN None ELSE 0]
  /\ Finish(q)
  /\ UNCHANGED <<messages, groups, users, settings, seen>>

OpenConversation(q, c) ==
  /\ active' = c
  /\ MarkConversationRead(c)
  /\ Wait(q, "history", [do |-> "receipts", ids |-> Unread(c)])
  /\ UNCHANGED <<groups, users, settings, seen>>

\* startDirectConversation and openGroup: the conversation is opened after an
\* await.
StartConversation(c) ==
  /\ Room /\ (c \in Groups => groups[c] # None)
  /\ UpsertConversation(c)
  /\ Wait(queue, "history", [do |-> "open", conv |-> c])
  /\ UNCHANGED <<messages, groups, users, active, settings, seen>>

\* Mutant: the status is not set from the result of the send.
SendMessageStaysPending(m, c, ok) ==
  /\ m \notin seen.used
  /\ c \in Users \/ (c = active /\ conversations[c] # None)
  /\ UpsertMessage(m, [conv |-> c, incoming |-> FALSE, status |-> "pending"],
       [seen EXCEPT !.used = @ \cup {m}])
  /\ UNCHANGED <<groups, users, active, settings, queue>>

\* sendDirectMessage and sendGroupMessage: to the conversation that is open, or
\* by the command that asks for a user.  ok is what client.send returns.
SendMessage(m, c, ok) ==
  LET item == [conv |-> c, incoming |-> FALSE, status |-> IF ok THEN "sent" ELSE "failed"]
  IN  /\ m \notin seen.used
      /\ c \in Users \/ (c = active /\ conversations[c] # None)
      /\ UpsertMessage(m, item,
           [seen EXCEPT !.used = @ \cup {m},
                        !.echoes = IF ok /\ c \in Groups THEN @ \cup {<<m, c>>} ELSE @])
      /\ UNCHANGED <<groups, users, active, settings, queue>>

ClearLocalHistory ==
  /\ Room
  /\ messages' = [m \in MessageIds |-> None]
  /\ conversations' = [c \in Convs |-> None]
  /\ seen' = [seen EXCEPT !.gone = @ \cup Stored]
  /\ Wait(queue, "history", [do |-> "deselect"])
  /\ UNCHANGED <<groups, users, active, settings>>

\* The configuration event: setMaxMessages, which writes if it trims, and then
\* updateConfig.
ChangeConfig(limit, on) ==
  LET trims == Cardinality(Stored) > limit
  IN  /\ Room
      /\ Trim(messages, {}, limit, seen)
      /\ settings' = [loaded |-> on, maxMessages |-> limit,
                      receipts |-> IF trims THEN settings.receipts ELSE on]
      /\ IF trims THEN Wait(queue, "history", [do |-> "configure"])
         ELSE Finish(queue)
      /\ UNCHANGED <<conversations, groups, users, active>>

----------------------------------------------------------------------------
\* What a handler does when its write has ended.  k is its continuation and q
\* the queue without it.

ReplaceGroups(k, q) ==
  LET present == {g \in Groups : k.groups[g] # None}
  IN  /\ groups' = k.groups
      /\ Wait(q, "groups", [do |-> "upsertGroups", left |-> present,
                            convs |-> present \cup k.directs])
      /\ UNCHANGED <<messages, conversations, users, active, settings, seen>>

\* upsertGroupConversations, and what hello-ack does after it (convs is empty in
\* the handler of a group packet).
UpsertGroups(k, q) ==
  /\ \/ \E g \in k.left : /\ UpsertConversation(g)
                          /\ Wait(q, "history", [k EXCEPT !.left = @ \ {g}])
     \/ k.left = {} /\ ReplaceConversations(k.convs) /\ Finish(q)
  /\ UNCHANGED <<messages, groups, users, active, settings, seen>>

StoreMessage(m, item, q) ==
  /\ UpsertMessage(m, item, seen)
  /\ Wait(q, "history", [do |-> "receipt", id |-> m, item |-> item])
  /\ UNCHANGED <<groups, users, active, settings>>

\* Mutant: the message is stored only if its sender is still online.
StoreDirectIfOnline(k, q) ==
  IF users[k.conv] = "online"
  THEN StoreMessage(k.id, [conv |-> k.conv, incoming |-> TRUE,
                           status |-> IF active = k.conv THEN "read" ELSE "delivered"], q)
  ELSE Finish(q) /\ UNCHANGED <<stores, active, settings, seen>>

\* Mutant: the message waits again until its conversation is in the cache.
StoreDirectWhenListed(k, q) ==
  IF conversations[k.conv] # None
  THEN StoreMessage(k.id, [conv |-> k.conv, incoming |-> TRUE,
                           status |-> IF active = k.conv THEN "read" ELSE "delivered"], q)
  ELSE Wait(q, "users", k) /\ UNCHANGED <<stores, active, settings, seen>>

StoreDirect(k, q) ==
  StoreMessage(k.id, [conv |-> k.conv, incoming |-> TRUE,
                      status |-> IF active = k.conv THEN "read" ELSE "delivered"], q)

\* sendReadReceipt for each of ids; the client may refuse to send.
SendReadReceipts(ids) ==
  \/ seen' = [seen EXCEPT !.receipts = @ \cup ids]
  \/ seen' = [seen EXCEPT !.excused = @ \cup ids]

\* Mutant: the receipt is sent but the message stays unread.
SendReceiptOnly(k, q) ==
  IF k.item.incoming /\ active = k.item.conv /\ settings.receipts
  THEN SendReadReceipts({k.id}) /\ Finish(q) /\ UNCHANGED <<stores, active, settings>>
  ELSE /\ seen' = [seen EXCEPT !.excused =
                     IF k.id \in Unread(k.item.conv) /\ active # k.item.conv
                     THEN @ ELSE @ \cup {k.id}]
       /\ Finish(q)
       /\ UNCHANGED <<stores, active, settings>>

\* Mutant: without a receipt the message is written again as it was before the
\* await.
WriteBack(k, q) ==
  /\ messages' = IF k.id \in Stored THEN [messages EXCEPT ![k.id] = k.item] ELSE messages
  /\ seen' = [seen EXCEPT !.excused = @ \cup {k.id}]
  /\ Finish(q)
  /\ UNCHANGED <<conversations, groups, users, active, settings>>

\* maybeSendImmediateReceipt.  Without a receipt, a message is excused that is
\* read, its conversation having been left since, or that stays unread in the
\* open conversation, receipts being off.
SendImmediateReceipt(k, q) ==
  IF k.item.incoming /\ active = k.item.conv /\ settings.receipts
  THEN /\ SendReadReceipts({k.id})
       /\ MarkConversationRead(k.item.conv)
       /\ Finish(q)
       /\ UNCHANGED <<groups, users, active, settings>>
  ELSE /\ seen' = [seen EXCEPT !.excused =
                     IF k.id \in Unread(k.item.conv) /\ active # k.item.conv
                     THEN @ ELSE @ \cup {k.id}]
       /\ Finish(q)
       /\ UNCHANGED <<stores, active, settings>>

SendReceipts(k, q) ==
  /\ IF settings.receipts THEN SendReadReceipts(k.ids)
     ELSE seen' = [seen EXCEPT !.excused = @ \cup k.ids]
  /\ Finish(q)
  /\ UNCHANGED <<stores, active, settings>>

Deselect(q) ==
  /\ active' = None /\ Finish(q)
  /\ UNCHANGED <<stores, settings, seen>>

Configure(q) ==
  /\ settings' = [settings EXCEPT !.receipts = settings.loaded]
  /\ Finish(q)
  /\ UNCHANGED <<stores, active, seen>>

WriteEnds(s) ==
  /\ queue[s] # <<>>
  /\ LET k == Head(queue[s])
         q == [queue EXCEPT ![s] = Tail(@)]
     IN  \/ k.do = "replaceGroups" /\ ReplaceGroups(k, q)
         \/ k.do = "upsertGroups"  /\ UpsertGroups(k, q)
         \/ k.do = "storeDirect"   /\ StoreDirect(k, q)
         \/ k.do = "storeGroup"    /\ StoreMessage(k.id, k.item, q)
         \/ k.do = "receipt"       /\ SendImmediateReceipt(k, q)
         \/ k.do = "receipts"      /\ SendReceipts(k, q)
         \/ k.do = "open"          /\ OpenConversation(q, k.conv)
         \/ k.do = "deselect"      /\ Deselect(q)
         \/ k.do = "configure"     /\ Configure(q)

\* The write fails: memory keeps the change, the handler ends.
WriteFails(s) ==
  /\ queue[s] # <<>>
  /\ LET k == Head(queue[s])
     IN  seen' = [seen EXCEPT !.excused = @ \cup Carried(k),
                              !.gone = @ \cup (Carried(k) \ Stored),
                              !.stale = @ \/ k.do = "replaceGroups"]
  /\ queue' = [queue EXCEPT ![s] = Tail(@)]
  /\ UNCHANGED <<stores, active, settings>>

----------------------------------------------------------------------------
Init ==
  /\ messages = [m \in MessageIds |-> None]
  /\ conversations = [c \in Convs |-> None]
  /\ groups = [g \in Groups |-> None]
  /\ users = [u \in Users |-> "unknown"]
  /\ active = None
  /\ settings \in {x \in Settings : x.loaded = x.receipts}
  /\ queue = [s \in Stores |-> <<>>]
  /\ seen = [told |-> groups, used |-> {}, received |-> {}, echoes |-> {}, receipts |-> {},
             excused |-> {}, trimmed |-> {}, gone |-> {}, stale |-> FALSE]

Packet ==
  \/ \E online, directs \in SUBSET Users, gs \in GroupCache : HelloAck(online, gs, directs)
  \/ \E u \in Users : \/ UserOnline(u) \/ UserOffline(u)
                      \/ \E m \in MessageIds : DirectMessage(m, u)
  \/ \E g \in Groups : \/ \E x \in Versions \cup {None} : GroupIs(g, x)
                       \/ \E m \in MessageIds : GroupMessage(m, g)
  \/ \E m \in MessageIds : ReadReceipt(m)

\* The view's messages and the commands, which nobody awaits either.
Command ==
  \/ \E c \in Convs :
       \/ Room /\ OpenConversation(queue, c)
       \/ StartConversation(c)
       \/ \E m \in MessageIds, ok \in BOOLEAN : SendMessage(m, c, ok)
  \/ ClearLocalHistory

Next ==
  \/ Packet
  \/ Command
  \/ \E limit \in Limits, on \in BOOLEAN : ChangeConfig(limit, on)
  \/ \E s \in Stores : WriteEnds(s) \/ WriteFails(s)

Spec == Init /\ [][Next]_vars

\* A write of a file ends, well or not, and its handler is resumed.
Fairness == \A s \in Stores : WF_vars(WriteEnds(s) \/ WriteFails(s))

FairSpec == Spec /\ Fairness

----------------------------------------------------------------------------
\* Properties

\* However handlers interleave, the cache never holds more messages than the
\* limit (README: maximum number of locally saved messages across all
\* conversations).
RetentionHolds == Cardinality(Stored) <= settings.maxMessages

\* Every message the cache holds belongs to a conversation it holds, so the
\* view can show it, although hello-ack replaces the conversations and
\* clearing removes them while messages are on their way.
MessagesHaveConversation == \A m \in Stored : conversations[messages[m].conv] # None

\* The sender of a direct message is known to the user cache, although
\* hello-ack replaces the users and a message is stored later than its sender.
SendersAreKnown ==
  \A m \in Stored : (messages[m].incoming /\ messages[m].conv \in Users)
                     => users[messages[m].conv] # "unknown"

\* The unread count never exceeds the unread messages there are, or were until
\* the limit dropped them: reading by any path resets it with the messages.
UnreadIsJustified ==
  \A c \in Convs : conversations[c] # None =>
    conversations[c] <= Cardinality(Unread(c)) + Cardinality(seen.trimmed)

\* A receipt is sent only for a message the cache shows as read; and a message
\* is read without one only while its handler is still to send it, or for a
\* reason: receipts are off, the client or a file refused, or the conversation
\* was left before the handler asked (README: opening a conversation sends
\* receipts for unread incoming messages).
ReceiptsMatchReads ==
  \A m \in Stored : messages[m].incoming =>
    /\ m \in seen.receipts => messages[m].status = "read"
    /\ messages[m].status = "read" =>
         \/ m \in seen.receipts \cup seen.excused
         \/ \E k \in Waiting("history") :
              k.do \in {"receipt", "receipts"} /\ m \in Carried(k)

\* No message of the open conversation is left unread: its handler is still to
\* look, or receipts were off or a file refused.
ActiveIsRead ==
  active # None => \A m \in Unread(active) :
    \/ m \in seen.excused
    \/ \E k \in Waiting("history") : k.do = "receipt" /\ k.id = m

\* The group cache is what the packets say, unless a hello-ack is still to
\* replace it, or its older groups came after a newer packet's (README: the
\* server is the source of truth for group membership).
GroupsFollowServer ==
  \/ groups = seen.told \/ seen.stale
  \/ \E k \in Waiting("users") : k.do = "replaceGroups"

\* A received message is stored or on its way, until it is cleared, dropped by
\* the limit, or a file could not be written.
NothingIsLost ==
  \A m \in seen.received :
    \/ m \in Stored \cup seen.gone \cup seen.trimmed
    \/ \E s \in Stores : \E k \in Waiting(s) : k.do \in {"storeDirect", "storeGroup"} /\ k.id = m

\* How far a received message is.
Phase(m) ==
  IF m \notin seen.received THEN "unknown"
  ELSE IF m \in Stored THEN messages[m].status
  ELSE IF m \in seen.gone \cup seen.trimmed THEN "gone" ELSE "waiting"

\* Of received messages the service keeps the promise of MessageLife: however
\* handlers, commands and failures interleave, none that was read becomes
\* unread, none that was cleared or dropped returns, and no receipt is sent
\* for one that is not read.
Life == INSTANCE MessageLife WITH
  Messages <- MessageIds, phase <- [m \in MessageIds |-> Phase(m)], receipts <- seen.receipts

ReceivedGoForward == Life!Spec

\* And it does not stay on its way, whatever else is going on.
ReceivedIsStored ==
  \A m \in MessageIds :
    m \in seen.received ~>
      m \in Stored \cup seen.gone \cup seen.trimmed

\* A message that is unread in the open conversation does not stay so.
OpenIsRead ==
  \A m \in MessageIds, c \in Convs :
    (active = c /\ m \in Unread(c)) ~> active # c \/ m \notin Unread(c) \/ m \in seen.excused

=============================================================================
