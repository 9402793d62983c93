------------------------ MODULE ChatServiceMessageProofs ------------------------
(***************************************************************************)
(* Proofs about ChatService: no received message is lost, messages of the   *)
(* open conversation are read, receipts match reads, unread counts are      *)
(* justified, received messages only go forward (ChatService implements     *)
(* MessageLife), and the group cache follows the server.                    *)
(***************************************************************************)
EXTENDS ChatServiceProofs

----------------------------------------------------------------------------
\* Handlers that wait in a queue

Handlers(q) == UNION {Elems(q[s]) : s \in Stores}

Storing(k)    == k.do \in {"storeDirect", "storeGroup"}
Receipting(k) == k.do \in {"receipt", "receipts"}

\* Handlers that will store an incoming message.
Incoming(k) == k.do = "storeDirect" \/ (k.do = "storeGroup" /\ k.item.incoming)

\* No other handler carries the incoming message a handler is to store.
Apart(q) ==
  \A s, t \in Stores : \A i \in DOMAIN q[s], j \in DOMAIN q[t] :
    Incoming(q[s][i]) /\ q[s][i].id \in Carried(q[t][j]) => s = t /\ i = j

\* The handlers of rest and k carry no incoming message of each other.
ApartFrom(rest, k) ==
  \A l \in rest : /\ Incoming(k) => k.id \notin Carried(l)
                  /\ Incoming(l) => l.id \notin Carried(k)

LEMMA HandlersAre ==
  ASSUME NEW q, QueueType(q)
  PROVE  \A k \in Handlers(q) : \E s \in Stores : k \in Continuation[s] /\ k \in Elems(q[s])
BY DEF Handlers, Elems, QueueType

\* The handler k joins those of q.
LEMMA HandlerJoins ==
  ASSUME NEW q, QueueType(q), NEW s \in Stores, NEW k \in Continuation[s], Wait(q, s, k)
  PROVE  /\ Handlers(queue)' = Handlers(q) \cup {k}
         /\ Apart(q) /\ ApartFrom(Handlers(q), k) => Apart(queue)'
<1>1. PICK p : p = queue'
  OBVIOUS
<1>2. p = [q EXCEPT ![s] = Append(q[s], k)]
  BY <1>1 DEF Wait
<1>3. q[s] \in Seq(Continuation[s]) /\ Elems(Append(q[s], k)) = Elems(q[s]) \cup {k}
  BY AppendElems DEF QueueType
<1>4. /\ p[s] = Append(q[s], k)
      /\ \A t \in Stores : t # s => p[t] = q[t]
  BY <1>2 DEF QueueType
<1>5. Handlers(p) = Handlers(q) \cup {k}
  BY <1>3, <1>4 DEF Handlers
<1>6. PICK n \in Nat : n = Len(q[s])
  BY <1>3
<1>7. /\ DOMAIN p[s] = 1 .. n + 1 /\ DOMAIN q[s] = 1 .. n /\ p[s][n + 1] = k
      /\ \A i \in 1 .. n : p[s][i] = q[s][i]
  BY <1>3, <1>4, <1>6
<1>8. ASSUME NEW t \in Stores, NEW i \in DOMAIN p[t]
      PROVE  \/ t = s /\ i = n + 1 /\ p[t][i] = k
             \/ i \in DOMAIN q[t] /\ p[t][i] = q[t][i] /\ q[t][i] \in Handlers(q)
  <2>1. CASE t = s /\ i = n + 1
    BY <2>1, <1>7
  <2>2. CASE t = s /\ i # n + 1
    <3>1. i \in 1 .. n
      BY <2>2, <1>7
    <3> QED BY <3>1, <2>2, <1>7 DEF Handlers, Elems
  <2>3. CASE t # s
    BY <2>3, <1>4 DEF Handlers, Elems
  <2> QED BY <2>1, <2>2, <2>3
<1>9. ASSUME Apart(q), ApartFrom(Handlers(q), k) PROVE Apart(p)
  <2> SUFFICES ASSUME NEW t \in Stores, NEW u \in Stores,
                      NEW i \in DOMAIN p[t], NEW j \in DOMAIN p[u],
                      Incoming(p[t][i]), p[t][i].id \in Carried(p[u][j])
               PROVE  t = u /\ i = j
    BY DEF Apart
  <2>1. CASE i \in DOMAIN q[t] /\ p[t][i] = q[t][i] /\ q[t][i] \in Handlers(q)
             /\ j \in DOMAIN q[u] /\ p[u][j] = q[u][j] /\ q[u][j] \in Handlers(q)
    BY <2>1, <1>9 DEF Apart
  <2>2. CASE t = s /\ i = n + 1 /\ p[t][i] = k /\ p[u][j] \in Handlers(q)
    BY <2>2, <1>9 DEF ApartFrom
  <2>3. CASE u = s /\ j = n + 1 /\ p[u][j] = k /\ p[t][i] \in Handlers(q)
    BY <2>3, <1>9 DEF ApartFrom
  <2>4. CASE t = s /\ i = n + 1 /\ u = s /\ j = n + 1
    BY <2>4
  <2> QED BY <2>1, <2>2, <2>3, <2>4, <1>8
<1>10. Handlers(queue)' = Handlers(queue') /\ (Apart(queue)' <=> Apart(queue'))
  BY DEF Handlers, Apart
<1> QED BY <1>1, <1>5, <1>9, <1>10

\* The first handler k of s leaves, and q is what remains.
LEMMA HandlerIsNext ==
  ASSUME QueueType(queue), NEW s \in Stores, queue[s] # <<>>,
         NEW q, q = [queue EXCEPT ![s] = Tail(@)], NEW k, k = Head(queue[s])
  PROVE  /\ QueueType(q) /\ k \in Continuation[s]
         /\ Handlers(queue) = Handlers(q) \cup {k}
         /\ Apart(queue) => Apart(q) /\ ApartFrom(Handlers(q), k)
<1>1. PICK p : p = queue
  OBVIOUS
<1>2. /\ QueueType(q) /\ k \in Continuation[s]
      /\ Elems(p[s]) = Elems(q[s]) \cup {k}
      /\ \A t \in Stores : t # s => Elems(p[t]) = Elems(q[t])
  <2>1. /\ QueueType(q) /\ Head(queue[s]) \in Continuation[s]
        /\ Waiting(s) = Elems(q[s]) \cup {Head(queue[s])}
        /\ \A t \in Stores : t # s => Waiting(t) = Elems(q[t])
    BY HeadLeaves
  <2>2. \A t \in Stores : Waiting(t) = Elems(p[t])
    BY <1>1 DEF Waiting, Elems
  <2> QED BY <2>1, <2>2
<1>3. Handlers(p) = Handlers(q) \cup {k}
  BY <1>2 DEF Handlers
<1>4. /\ q[s] = Tail(p[s]) /\ p[s] \in Seq(Continuation[s]) /\ p[s] # <<>>
      /\ \A t \in Stores : t # s => q[t] = p[t]
  BY <1>1 DEF QueueType
<1>5. PICK n \in Nat : n = Len(p[s]) /\ n >= 1
  BY <1>4
<1>6. /\ DOMAIN p[s] = 1 .. n /\ DOMAIN q[s] = 1 .. n - 1 /\ p[s][1] = k
      /\ \A i \in 1 .. n - 1 : q[s][i] = p[s][i + 1]
  <2>1. PICK x \in Seq(Continuation[s]) : x = p[s] /\ x # <<>> /\ n = Len(x)
    BY <1>4, <1>5
  <2>2. /\ Len(Tail(x)) = n - 1 /\ Head(x) = x[1] /\ DOMAIN x = 1 .. n
        /\ \A i \in 1 .. n - 1 : Tail(x)[i] = x[i + 1]
    BY <2>1
  <2>3. DOMAIN Tail(x) = 1 .. n - 1
    BY <2>1, <2>2
  <2>4. q[s] = Tail(x) /\ k = Head(x)
    BY <1>1, <1>4, <2>1
  <2> QED BY <2>1, <2>2, <2>3, <2>4
<1>7. ASSUME Apart(p) PROVE Apart(q) /\ ApartFrom(Handlers(q), k)
  <2> DEFINE At(t, i) == IF t = s THEN i + 1 ELSE i
  <2>1. ASSUME NEW t \in Stores, NEW i \in DOMAIN q[t]
        PROVE  At(t, i) \in DOMAIN p[t] /\ p[t][At(t, i)] = q[t][i] /\ ~ (t = s /\ At(t, i) = 1)
    <3>1. CASE t = s
      <4>1. i \in 1 .. n - 1 /\ i + 1 \in 1 .. n /\ i + 1 # 1
        BY <3>1, <1>6
      <4> QED BY <3>1, <4>1, <1>6
    <3>2. CASE t # s
      BY <3>2, <1>4
    <3> QED BY <3>1, <3>2
  <2>2. ASSUME NEW t \in Stores, NEW i \in DOMAIN q[t], NEW j \in DOMAIN q[t],
               At(t, i) = At(t, j)
        PROVE  i = j
    <3>1. CASE t = s
      <4>1. i \in 1 .. n - 1 /\ j \in 1 .. n - 1 /\ i + 1 = j + 1
        BY <3>1, <2>2, <1>6
      <4> QED BY <4>1
    <3>2. CASE t # s
      BY <3>2, <2>2
    <3> QED BY <3>1, <3>2
  <2> HIDE DEF At
  <2>3. Apart(q)
    <3> SUFFICES ASSUME NEW t \in Stores, NEW u \in Stores,
                        NEW i \in DOMAIN q[t], NEW j \in DOMAIN q[u],
                        Incoming(q[t][i]), q[t][i].id \in Carried(q[u][j])
                 PROVE  t = u /\ i = j
      BY DEF Apart
    <3>1. t = u /\ At(t, i) = At(u, j)
      BY <2>1, <1>7 DEF Apart
    <3> QED BY <3>1, <2>2
  <2>4. 1 \in DOMAIN p[s]
    BY <1>5, <1>6
  <2>5. ApartFrom(Handlers(q), k)
    <3> SUFFICES ASSUME NEW l \in Handlers(q)
                 PROVE  /\ Incoming(k) => k.id \notin Carried(l)
                        /\ Incoming(l) => l.id \notin Carried(k)
      BY DEF ApartFrom
    <3>0. PICK t \in Stores : l \in Elems(q[t])
      BY DEF Handlers
    <3>1. PICK i \in DOMAIN q[t] : l = q[t][i]
      BY <3>0 DEF Elems
    <3>2. At(t, i) \in DOMAIN p[t] /\ p[t][At(t, i)] = l /\ ~ (t = s /\ At(t, i) = 1)
      BY <3>1, <2>1
    <3>3. /\ Incoming(p[s][1]) /\ p[s][1].id \in Carried(p[t][At(t, i)]) => s = t /\ 1 = At(t, i)
          /\ Incoming(p[t][At(t, i)]) /\ p[t][At(t, i)].id \in Carried(p[s][1])
               => t = s /\ At(t, i) = 1
      BY <3>2, <2>4, <1>7 DEF Apart
    <3> QED BY <3>2, <3>3, <1>6
  <2> QED BY <2>3, <2>5
<1> QED BY <1>1, <1>2, <1>3, <1>7

----------------------------------------------------------------------------
\* The invariant, for handlers Q that wait

\* A message received and not given up is held, or a handler will store it.
LostInv(Q) ==
  \A m \in seen.received :
    m \in Stored \cup seen.gone \cup seen.trimmed \/ \E k \in Q : Storing(k) /\ k.id = m

ActiveInv(Q) ==
  active # None => \A m \in Unread(active) :
    m \in seen.excused \/ \E k \in Q : k.do = "receipt" /\ k.id = m

ReadInv(Q) ==
  \A m \in Stored : messages[m].incoming /\ messages[m].status = "read" =>
    \/ m \in seen.receipts \cup seen.excused
    \/ \E k \in Q : Receipting(k) /\ m \in Carried(k)

\* The statuses of incoming messages.
Arrived == {"delivered", "read"}

\* A handler fits what has happened: the message it is to store is new, the
\* messages it sends receipts for are not.
Fits(k) ==
  /\ Carried(k) \subseteq seen.used
  /\ Incoming(k) =>
       k.id \in seen.received \ (Stored \cup seen.receipts \cup seen.trimmed \cup seen.gone)
  /\ k.do = "storeGroup" /\ k.item.incoming => k.item.status \in Arrived
  /\ k.do = "storeGroup" /\ ~ k.item.incoming => k.id \notin seen.received
  /\ k.do = "receipt" /\ k.item.incoming =>
       k.id \in seen.received /\ (k.id \in Stored => messages[k.id].conv = k.item.conv)
  /\ k.do = "receipts" =>
       k.ids \subseteq seen.received /\ \A m \in k.ids \cap Stored : messages[m].status = "read"

\* The ids in use, and those of incoming messages.
SeenFits ==
  /\ seen.received \subseteq seen.used /\ Stored \subseteq seen.used
  /\ seen.trimmed \subseteq seen.used /\ seen.gone \subseteq seen.used
  /\ seen.receipts \subseteq seen.received
  /\ \A e \in seen.echoes : e[1] \in seen.used \ seen.received
  /\ \A m \in Stored : messages[m].incoming <=> m \in seen.received
  /\ \A m \in seen.received \cap Stored : messages[m].status \in Arrived
  /\ \A m \in seen.receipts \cap Stored : messages[m].status = "read"

CountInv ==
  \A c \in Convs : conversations[c] # None =>
    conversations[c] <= Cardinality(Unread(c) \cup seen.trimmed)

InvOf(Q) ==
  /\ LostInv(Q) /\ ActiveInv(Q) /\ ReadInv(Q) /\ (\A k \in Q : Fits(k))
  /\ SeenFits /\ CountInv

MessagesInv == InvOf(Handlers(queue)) /\ Apart(queue)

----------------------------------------------------------------------------
\* What a step does to the messages: it may write those of A and send receipts
\* for those of B.

Moves(A, B) ==
  /\ seen.used \subseteq seen'.used /\ seen.received \subseteq seen'.received
  /\ seen.excused \subseteq seen'.excused
  /\ seen.gone \subseteq seen'.gone /\ seen.trimmed \subseteq seen'.trimmed
  /\ seen.receipts \subseteq seen'.receipts /\ seen'.receipts \subseteq seen.receipts \cup B
  /\ seen'.received \cap seen.used \subseteq seen.received
  /\ seen'.trimmed \subseteq seen.trimmed \cup Stored \cup A
  /\ Stored \cup seen.gone \cup seen.trimmed \subseteq Stored' \cup seen'.gone \cup seen'.trimmed
  /\ Stored' \subseteq Stored \cup A
  /\ \A n \in Stored' \ A : /\ messages'[n].conv = messages[n].conv
                            /\ messages'[n].incoming = messages[n].incoming
                            /\ messages'[n].status \in {messages[n].status, "read"}

\* The messages of A and B are what the step may write and send receipts for.
NewFits(A, B) ==
  /\ seen'.received \subseteq seen.received \cup seen'.used
  /\ A \subseteq seen'.used /\ A \cap (seen.receipts \cup B) = {}
  /\ \A m \in A \cap Stored' : messages'[m].incoming <=> m \in seen'.received
  /\ B \subseteq seen.received
  /\ \A m \in B \cap Stored' : messages'[m].status = "read"
  /\ \A e \in seen'.echoes : e \in seen.echoes \/ e[1] \in seen'.used \ seen'.received
  /\ seen'.gone \subseteq seen.gone \cup seen'.used
  /\ A \cap seen.received \cap (Stored \cup seen.gone \cup seen.trimmed) = {}
  /\ \A m \in A \cap seen'.received \cap Stored' : messages'[m].status \in Arrived
  /\ \A m \in seen'.received \ seen.received :
       m \notin A \cup Stored' \cup seen'.gone \cup seen'.trimmed

\* What every step does.
Moved == \E A, B : Moves(A, B) /\ NewFits(A, B)

LEMMA LostStays ==
  ASSUME NEW Q, NEW P, NEW A, NEW B, LostInv(Q), Moves(A, B),
         \A k \in Q : Storing(k) => k \in P \/ k.id \in Stored' \cup seen'.gone \cup seen'.trimmed,
         \A m \in seen'.received \ seen.received : \E k \in P : Storing(k) /\ k.id = m
  PROVE  LostInv(P)'
BY DEF LostInv, Moves

LEMMA ActiveStays ==
  ASSUME NEW Q, NEW P, NEW A, NEW B, ActiveInv(Q), Moves(A, B), active' = active,
         \A k \in Q : k.do = "receipt" =>
           k \in P \/ k.id \in seen'.excused \/ k.id \notin Unread(active)',
         \A m \in A \cap Unread(active)' : \E k \in P : k.do = "receipt" /\ k.id = m
  PROVE  ActiveInv(P)'
<1> SUFFICES ASSUME active # None, NEW m \in Unread(active)', m \notin A
             PROVE  m \in seen'.excused \/ \E k \in P : k.do = "receipt" /\ k.id = m
  BY DEF ActiveInv
<1>1. m \in Stored' /\ messages'[m].conv = active /\ messages'[m].incoming
      /\ messages'[m].status # "read"
  BY DEF Unread
<1>2. m \in Unread(active)
  BY <1>1 DEF Moves, Unread
<1>3. CASE m \in seen.excused
  BY <1>3 DEF Moves
<1>4. ASSUME NEW k \in Q, k.do = "receipt", k.id = m
      PROVE  m \in seen'.excused \/ \E l \in P : l.do = "receipt" /\ l.id = m
  BY <1>4
<1> QED BY <1>2, <1>3, <1>4 DEF ActiveInv

LEMMA ReadStays ==
  ASSUME NEW Q, NEW P, NEW A, NEW B, ReadInv(Q), Moves(A, B),
         \A k \in Q : Receipting(k) =>
           \/ k \in P
           \/ \A m \in Carried(k) \cap Stored' : messages'[m].status = "read" =>
                m \in seen'.receipts \cup seen'.excused,
         \A m \in Stored' : /\ messages'[m].incoming /\ messages'[m].status = "read"
                            /\ m \in A \/ messages[m].status # "read"
            => \/ m \in seen'.receipts \cup seen'.excused
               \/ \E k \in P : Receipting(k) /\ m \in Carried(k)
  PROVE  ReadInv(P)'
<1> SUFFICES ASSUME NEW m \in Stored', messages'[m].incoming, messages'[m].status = "read",
                    m \notin A, messages[m].status = "read"
             PROVE  \/ m \in seen'.receipts \cup seen'.excused
                    \/ \E k \in P : Receipting(k) /\ m \in Carried(k)
  BY DEF ReadInv, Receipting, Carried
<1>1. m \in Stored /\ messages[m].incoming
  BY DEF Moves
<1>2. CASE m \in seen.receipts \cup seen.excused
  BY <1>2 DEF Moves
<1>3. ASSUME NEW k \in Q, Receipting(k), m \in Carried(k)
      PROVE  \/ m \in seen'.receipts \cup seen'.excused
             \/ \E l \in P : Receipting(l) /\ m \in Carried(l)
  BY <1>3
<1> QED BY <1>1, <1>2, <1>3 DEF ReadInv

LEMMA FitStays ==
  ASSUME NEW s \in Stores, NEW k \in Continuation[s], NEW A, NEW B,
         Fits(k), Moves(A, B), Incoming(k) => k.id \notin A \cup B,
         Incoming(k) => k.id \notin seen'.gone \ seen.gone,
         Receipting(k) => Carried(k) \cap A \cap seen.received = {}
  PROVE  Fits(k)'
<1>1. Carried(k) \subseteq seen'.used
  BY DEF Fits, Moves
<1>2. ASSUME Incoming(k)
      PROVE  k.id \in seen'.received \ (Stored' \cup seen'.receipts \cup seen'.trimmed
                                          \cup seen'.gone)
  BY <1>2 DEF Fits, Moves
<1>3. ASSUME k.do = "storeGroup", ~ k.item.incoming PROVE k.id \notin seen'.received
  <2>1. k.id \in seen.used /\ k.id \notin seen.received
    BY <1>3 DEF Fits, Carried
  <2> QED BY <2>1 DEF Moves
<1>4. ASSUME k.do = "receipt", k.item.incoming
      PROVE  k.id \in seen'.received /\ (k.id \in Stored' => messages'[k.id].conv = k.item.conv)
  <2>1. Carried(k) = {k.id} /\ k.id \in seen.received /\ k.id \notin A
    BY <1>4 DEF Fits, Carried, Receipting
  <2> QED BY <2>1, <1>4 DEF Fits, Moves
<1>5. ASSUME k.do = "receipts"
      PROVE  k.ids \subseteq seen'.received
             /\ \A m \in k.ids \cap Stored' : messages'[m].status = "read"
  <2>1. Carried(k) = k.ids /\ k.ids \subseteq seen.received /\ k.ids \cap A = {}
    BY <1>5 DEF Fits, Carried, Receipting
  <2> QED BY <2>1, <1>5 DEF Fits, Moves
<1> QED BY <1>1, <1>2, <1>3, <1>4, <1>5 DEF Fits, Carried, Incoming

LEMMA SeenStays ==
  ASSUME NEW A, NEW B, SeenFits, Moves(A, B), NewFits(A, B)
  PROVE  SeenFits'
<1>1. /\ seen'.received \subseteq seen'.used
      /\ Stored' \subseteq seen'.used /\ seen'.trimmed \subseteq seen'.used
      /\ seen'.gone \subseteq seen'.used /\ seen'.receipts \subseteq seen'.received
  <2>1. seen'.received \subseteq seen'.used
    BY DEF SeenFits, Moves, NewFits
  <2>2. Stored' \subseteq seen'.used
    BY DEF SeenFits, Moves, NewFits
  <2>3. seen'.trimmed \subseteq seen'.used
    BY DEF SeenFits, Moves, NewFits
  <2>4. seen'.receipts \subseteq seen'.received
    BY DEF SeenFits, Moves, NewFits
  <2>5. seen'.gone \subseteq seen'.used
    BY DEF SeenFits, Moves, NewFits
  <2> QED BY <2>1, <2>2, <2>3, <2>4, <2>5
<1>2. \A e \in seen'.echoes : e[1] \in seen'.used \ seen'.received
  BY DEF SeenFits, Moves, NewFits
<1>3. \A m \in Stored' : messages'[m].incoming <=> m \in seen'.received
  BY DEF SeenFits, Moves, NewFits
<1>4. \A m \in seen'.receipts \cap Stored' : messages'[m].status = "read"
  BY DEF SeenFits, Moves, NewFits
<1>5. ASSUME NEW m \in seen'.received \cap Stored' PROVE messages'[m].status \in Arrived
  <2>1. CASE m \in A
    BY <2>1 DEF NewFits
  <2>2. CASE m \notin A
    <3>1. m \in seen.received \cap Stored /\ messages'[m].status \in {messages[m].status, "read"}
      BY <2>2 DEF Moves, NewFits
    <3> QED BY <3>1 DEF SeenFits, Arrived
  <2> QED BY <2>1, <2>2
<1> QED BY <1>1, <1>2, <1>3, <1>4, <1>5 DEF SeenFits

LEMMA CountStays ==
  ASSUME CountInv, TypeOK, TypeOK', seen.trimmed \subseteq seen'.trimmed,
         \A c \in Convs : conversations'[c] # None =>
           \/ conversations'[c] = 0
           \/ conversations'[c] = conversations[c] /\ Unread(c) \subseteq Unread(c)' \cup seen'.trimmed
  PROVE  CountInv'
<1> SUFFICES ASSUME NEW c \in Convs, conversations'[c] # None
             PROVE  conversations'[c] <= Cardinality(Unread(c)' \cup seen'.trimmed)
  BY DEF CountInv
<1>1. PICK new \in SUBSET MessageIds : new = Unread(c)' \cup seen'.trimmed
  <2>1. PICK h \in Seen : h = seen'
    BY DEF TypeOK
  <2>2. seen'.trimmed \in SUBSET MessageIds
    BY <2>1, SeenIsTyped
  <2>3. Unread(c)' \subseteq MessageIds
    BY DEF Unread, Stored
  <2> QED BY <2>2, <2>3
<1>2. PICK old : old = Unread(c) \cup seen.trimmed
  OBVIOUS
<1>3. Cardinality(new) \in Nat
  BY Sizes
<1>4. CASE conversations'[c] = 0
  BY <1>1, <1>3, <1>4
<1>5. CASE conversations'[c] = conversations[c] /\ Unread(c) \subseteq Unread(c)' \cup seen'.trimmed
  <2>1. conversations[c] <= Cardinality(old) /\ conversations[c] \in Nat
    BY <1>2, <1>5 DEF CountInv, TypeOK
  <2>2. old \in SUBSET new
    BY <1>1, <1>2, <1>5
  <2>3. Cardinality(old) \in Nat /\ Cardinality(old) <= Cardinality(new)
    BY <2>2, Sizes
  <2> QED BY <2>1, <2>3, <1>1, <1>3, <1>5
<1> QED BY <1>4, <1>5

----------------------------------------------------------------------------
\* Steps that leave the messages alone

SeenSame ==
  /\ seen'.used = seen.used /\ seen'.received = seen.received
  /\ seen'.receipts = seen.receipts /\ seen'.trimmed = seen.trimmed
  /\ seen'.echoes = seen.echoes
  /\ seen.excused \subseteq seen'.excused /\ seen'.gone = seen.gone

LEMMA QuietMoves ==
  ASSUME messages' = messages, SeenSame
  PROVE  Moves({}, {}) /\ NewFits({}, {}) /\ Stored' = Stored
         /\ \A c \in Convs : Unread(c)' = Unread(c)
<1>1. Stored' = Stored /\ \A c \in Convs : Unread(c)' = Unread(c)
  BY DEF Stored, Unread
<1>2. Moves({}, {})
  BY <1>1 DEF SeenSame, Moves
<1>3. NewFits({}, {})
  BY DEF SeenSame, NewFits
<1> QED BY <1>1, <1>2, <1>3

\* A handler that carries nothing fits.
LEMMA EmptyFits ==
  ASSUME NEW k, Carried(k) = {}
  PROVE  Fits(k) /\ Fits(k)' /\ ~ Incoming(k) /\ ~ Storing(k) /\ k.do # "receipt"
<1>1. ~ Incoming(k) /\ ~ Storing(k) /\ k.do # "receipt"
  BY DEF Carried, Incoming, Storing
<1>2. k.do = "receipts" => k.ids = {}
  BY DEF Carried
<1>3. Fits(k)
  BY <1>1, <1>2 DEF Fits, Storing
<1>4. Fits(k)'
  <2>1. Carried(k)' = {} /\ ~ Incoming(k)'
    BY <1>1 DEF Carried, Incoming
  <2> QED BY <2>1, <1>1, <1>2 DEF Fits, Storing
<1> QED BY <1>1, <1>3, <1>4

LEMMA EmptyApart ==
  ASSUME NEW k, Carried(k) = {}, NEW Q
  PROVE  ApartFrom(Q, k)
BY EmptyFits DEF ApartFrom

LEMMA QuietStep ==
  ASSUME TypeOK, TypeOK', NEW q, QueueType(q), InvOf(Handlers(q)), Apart(queue)',
         \A k \in Handlers(q) : k \in Handlers(queue)',
         \A k \in Handlers(queue)' : k \in Handlers(q) \/ Carried(k) = {},
         messages' = messages, active' \in {active, None}, SeenSame,
         \A c \in Convs : conversations'[c] \in {0, None, conversations[c]}
  PROVE  MessagesInv' /\ Moved
<1>1. /\ Moves({}, {}) /\ NewFits({}, {}) /\ Stored' = Stored
      /\ \A c \in Convs : Unread(c)' = Unread(c)
  BY QuietMoves
<1>2. PICK P : P = Handlers(queue)'
  OBVIOUS
<1>3. PICK Q : Q = Handlers(q)
  OBVIOUS
<1>4. /\ LostInv(Q) /\ ActiveInv(Q) /\ ReadInv(Q) /\ (\A k \in Q : Fits(k))
      /\ SeenFits /\ CountInv
      /\ (\A k \in Q : k \in P) /\ \A k \in P : k \in Q \/ Carried(k) = {}
  BY <1>2, <1>3 DEF InvOf
<1>5. LostInv(P)'
  BY <1>1, <1>4, LostStays DEF SeenSame
<1>6. ActiveInv(P)'
  <2>1. CASE active' = active
    BY <2>1, <1>1, <1>4, ActiveStays
  <2>2. CASE active' = None
    BY <2>2 DEF ActiveInv
  <2> QED BY <2>1, <2>2
<1>7. ReadInv(P)'
  BY <1>1, <1>4, ReadStays
<1>8. ASSUME NEW k \in P PROVE Fits(k)'
  <2>1. CASE k \in Q
    <3>1. PICK s \in Stores : k \in Continuation[s]
      BY <2>1, <1>3, HandlersAre
    <3> QED BY <2>1, <3>1, <1>1, <1>4, FitStays DEF SeenSame
  <2>2. CASE Carried(k) = {}
    BY <2>2, EmptyFits
  <2> QED BY <2>1, <2>2, <1>4
<1>9. SeenFits'
  BY <1>1, <1>4, SeenStays
<1>10. CountInv'
  BY <1>1, <1>4, CountStays DEF SeenSame
<1>11. InvOf(P)'
  BY <1>5, <1>6, <1>7, <1>8, <1>9, <1>10 DEF InvOf
<1>12. InvOf(Handlers(queue))'
  BY <1>2, <1>11 DEF InvOf, LostInv, ActiveInv, ReadInv
<1> QED BY <1>1, <1>12 DEF MessagesInv, Moved

\* The same, with a handler k that waits from now on.
LEMMA QuietWait ==
  ASSUME TypeOK, TypeOK', NEW q, QueueType(q), InvOf(Handlers(q)), Apart(q),
         NEW s \in Stores, NEW k \in Continuation[s], Wait(q, s, k), Carried(k) = {},
         messages' = messages, active' \in {active, None}, SeenSame,
         \A c \in Convs : conversations'[c] \in {0, None, conversations[c]}
  PROVE  MessagesInv' /\ Moved
<1>1. ApartFrom(Handlers(q), k)
  BY EmptyApart
<1>2. Handlers(queue)' = Handlers(q) \cup {k} /\ Apart(queue)'
  BY <1>1, HandlerJoins
<1>3. \A l \in Handlers(q) : l \in Handlers(queue)'
  BY <1>2
<1>4. \A l \in Handlers(queue)' : l \in Handlers(q) \/ Carried(l) = {}
  BY <1>2
<1> QED BY <1>2, <1>3, <1>4, QuietStep

LEMMA QuietEnd ==
  ASSUME TypeOK, TypeOK', NEW q, QueueType(q), InvOf(Handlers(q)), Apart(q), queue' = q,
         messages' = messages, active' \in {active, None}, SeenSame,
         \A c \in Convs : conversations'[c] \in {0, None, conversations[c]}
  PROVE  MessagesInv' /\ Moved
<1>1. Handlers(queue)' = Handlers(q)
  BY DEF Handlers
<1>2. Apart(queue)'
  BY DEF Apart
<1>3. \A l \in Handlers(q) : l \in Handlers(queue)'
  BY <1>1
<1>4. \A l \in Handlers(queue)' : l \in Handlers(q) \/ Carried(l) = {}
  BY <1>1
<1> QED BY <1>2, <1>3, <1>4, QuietStep

\* A handler that carries nothing may leave.
LEMMA DropEmpty ==
  ASSUME NEW Q, NEW k, InvOf(Q \cup {k}), Carried(k) = {}
  PROVE  InvOf(Q)
<1>1. ~ Storing(k) /\ k.do # "receipt"
  BY EmptyFits
<1>2. LostInv(Q)
  BY <1>1 DEF InvOf, LostInv
<1>3. ActiveInv(Q)
  BY <1>1 DEF InvOf, ActiveInv
<1>4. ReadInv(Q)
  BY DEF InvOf, ReadInv
<1> QED BY <1>2, <1>3, <1>4 DEF InvOf

----------------------------------------------------------------------------
\* Packets

\* The invariant for the handlers of q, as a step finds them.
Before(q) == TypeOK /\ QueueType(q) /\ InvOf(Handlers(q)) /\ Apart(q)

LEMMA NowBefore ==
  ASSUME ServiceInv, MessagesInv, NEW q, q = queue
  PROVE  Before(q) /\ seen \in Seen
BY TypesAre DEF ServiceInv, MessagesInv, Before

LEMMA UnchangedCounts ==
  ASSUME UNCHANGED conversations
  PROVE  \A c \in Convs : conversations'[c] \in {0, None, conversations[c]}
OBVIOUS

LEMMA UpsertedCounts ==
  ASSUME TypeOK, NEW d \in Convs, UpsertConversation(d)
  PROVE  \A c \in Convs : conversations'[c] \in {0, None, conversations[c]}
BY DEF UpsertConversation, TypeOK

LEMMA HelloAckKeeps ==
  ASSUME ServiceInv, MessagesInv, TypeOK',
         NEW online \in SUBSET Users, NEW directs \in SUBSET Users,
         NEW gs \in GroupCache, HelloAck(online, gs, directs)
  PROVE  MessagesInv' /\ Moved
<1>1. PICK q : q = queue
  OBVIOUS
<1>2. Before(q) /\ seen \in Seen
  BY <1>1, NowBefore
<1>3. /\ seen' = [seen EXCEPT !.told = gs, !.stale = FALSE]
      /\ Wait(q, "users", [do |-> "replaceGroups", groups |-> gs, directs |-> directs])
      /\ UNCHANGED <<messages, conversations, active>>
  BY <1>1 DEF HelloAck
<1>4. [do |-> "replaceGroups", groups |-> gs, directs |-> directs] \in Continuation["users"]
  BY StoresAre
<1>5. PICK k \in Continuation["users"] :
        k = [do |-> "replaceGroups", groups |-> gs, directs |-> directs]
  BY <1>4
<1>6. "users" \in Stores /\ Carried(k) = {} /\ Wait(q, "users", k)
  BY <1>3, <1>5, StoresAre DEF Carried
<1>7. SeenSame
  BY <1>2, <1>3 DEF Seen, SeenSame
<1> QED BY <1>2, <1>3, <1>6, <1>7, QuietWait DEF Before

LEMMA GroupIsKeeps ==
  ASSUME ServiceInv, MessagesInv, TypeOK',
         NEW g \in Groups, NEW x \in Versions \cup {None}, GroupIs(g, x)
  PROVE  MessagesInv' /\ Moved
<1>1. PICK q : q = queue
  OBVIOUS
<1>2. Before(q) /\ seen \in Seen
  BY <1>1, NowBefore
<1>3. /\ seen' = [seen EXCEPT !.told[g] = x,
                !.stale = @ \/ \E k \in Waiting("users") : k.do = "replaceGroups"]
      /\ IF x = None THEN Finish(q)
         ELSE Wait(q, "groups", [do |-> "upsertGroups", left |-> {g}, convs |-> {}])
      /\ UNCHANGED <<messages, conversations, active>>
  BY <1>1 DEF GroupIs
<1>4. SeenSame
  BY <1>2, <1>3 DEF Seen, SeenSame
<1>5. CASE x = None
  BY <1>2, <1>3, <1>4, <1>5, QuietEnd DEF Before, Finish
<1>6. CASE x # None
  <2>1. [do |-> "upsertGroups", left |-> {g}, convs |-> {}] \in Continuation["groups"]
    BY StoresAre DEF GroupLoop
  <2>2. PICK k \in Continuation["groups"] :
          k = [do |-> "upsertGroups", left |-> {g}, convs |-> {}]
    BY <2>1
  <2>3. "groups" \in Stores /\ Carried(k) = {} /\ Wait(q, "groups", k)
    BY <1>3, <1>6, <2>2, StoresAre DEF Carried
  <2> QED BY <1>2, <1>3, <1>4, <2>3, QuietWait DEF Before
<1> QED BY <1>5, <1>6

LEMMA PresenceKeeps ==
  ASSUME ServiceInv, MessagesInv, TypeOK', NEW u \in Users, UserOnline(u) \/ UserOffline(u)
  PROVE  MessagesInv' /\ Moved
<1>1. PICK q : q = queue
  OBVIOUS
<1>2. Before(q)
  BY <1>1, NowBefore
<1>3. UNCHANGED <<messages, conversations, active, queue, seen>>
  BY DEF UserOnline, UserOffline
<1>4. SeenSame
  BY <1>3 DEF SeenSame
<1> QED BY <1>1, <1>2, <1>3, <1>4, QuietEnd DEF Before

\* A message is received: the handler k will store it.
LEMMA ReceivedKeeps ==
  ASSUME TypeOK, TypeOK', NEW q, Before(q), NEW m \in MessageIds, NEW s \in Stores,
         NEW k \in Continuation[s], Wait(q, s, k), Storing(k), k.id = m,
         UNCHANGED <<messages, active>>,
         \A c \in Convs : conversations'[c] \in {0, None, conversations[c]},
         seen'.used = seen.used \cup {m},
         seen'.receipts = seen.receipts, seen'.trimmed = seen.trimmed,
         seen'.excused = seen.excused, seen'.gone = seen.gone,
         seen'.echoes \subseteq seen.echoes,
         \/ /\ m \notin seen.used /\ seen'.received = seen.received \cup {m}
            /\ k.do = "storeGroup" => k.item.incoming /\ k.item.status \in Arrived
         \/ /\ m \in seen.used \ seen.received /\ seen'.received = seen.received
            /\ ~ Incoming(k)
  PROVE  MessagesInv' /\ Moved
<1>1. PICK Q : Q = Handlers(q)
  OBVIOUS
<1>2. /\ LostInv(Q) /\ ActiveInv(Q) /\ ReadInv(Q) /\ (\A l \in Q : Fits(l))
      /\ SeenFits /\ CountInv
  BY <1>1 DEF Before, InvOf
<1>3. Stored' = Stored /\ \A c \in Convs : Unread(c)' = Unread(c)
  BY DEF Stored, Unread
<1>4. Moves({}, {})
  BY <1>2, <1>3 DEF Moves, SeenFits
<1>5. NewFits({}, {})
  BY <1>2, <1>3 DEF NewFits, SeenFits
<1>6. Carried(k) = {m} /\ ~ Receipting(k)
  BY DEF Carried, Storing, Receipting
<1>7. ApartFrom(Q, k)
  <2> SUFFICES ASSUME NEW l \in Q
               PROVE  /\ Incoming(k) => k.id \notin Carried(l)
                      /\ Incoming(l) => l.id \notin Carried(k)
    BY DEF ApartFrom
  <2>1. Incoming(k) => m \notin seen.used
    OBVIOUS
  <2>2. Carried(l) \subseteq seen.used /\ (Incoming(l) => l.id \in seen.received)
    BY <1>2 DEF Fits
  <2>3. m \notin seen.received
    BY <1>2 DEF SeenFits
  <2> QED BY <1>6, <2>1, <2>2, <2>3
<1>8. Handlers(queue)' = Q \cup {k} /\ Apart(queue)'
  BY <1>1, <1>7, HandlerJoins DEF Before
<1>9. PICK P : P = Q \cup {k}
  OBVIOUS
<1>10. LostInv(P)'
  <2>1. \A n \in seen'.received \ seen.received : \E l \in P : Storing(l) /\ l.id = n
    BY <1>9
  <2> QED BY <2>1, <1>2, <1>4, <1>9, LostStays
<1>11. ActiveInv(P)'
  BY <1>2, <1>4, <1>9, ActiveStays
<1>12. ReadInv(P)'
  BY <1>2, <1>4, <1>9, ReadStays
<1>13. Fits(k)'
  <2>1. m \notin Stored' \cup seen'.receipts \cup seen'.trimmed \cup seen'.gone \/ m \in seen.used
    BY <1>2, <1>3 DEF SeenFits
  <2>2. Carried(k) \subseteq seen'.used
    BY <1>6
  <2>3. Incoming(k) => k.id \in seen'.received \ (Stored' \cup seen'.receipts \cup seen'.trimmed
                                                   \cup seen'.gone)
    BY <2>1
  <2>4. k.do = "storeGroup" /\ ~ k.item.incoming => k.id \notin seen'.received
    OBVIOUS
  <2>5. k.do = "storeGroup" /\ k.item.incoming => k.item.status \in Arrived
    BY DEF Incoming
  <2> QED BY <2>2, <2>3, <2>4, <2>5, <1>6 DEF Fits, Carried, Incoming, Receipting
<1>14. ASSUME NEW l \in P PROVE Fits(l)'
  <2>1. CASE l \in Q
    <3>1. PICK t \in Stores : l \in Continuation[t]
      BY <2>1, <1>1, HandlersAre DEF Before
    <3> QED BY <2>1, <3>1, <1>2, <1>4, FitStays
  <2>2. CASE l = k
    BY <2>2, <1>13
  <2> QED BY <2>1, <2>2, <1>9
<1>15. SeenFits'
  BY <1>2, <1>4, <1>5, SeenStays
<1>16. CountInv'
  BY <1>2, <1>3, CountStays
<1>17. InvOf(P)'
  BY <1>10, <1>11, <1>12, <1>14, <1>15, <1>16 DEF InvOf
<1>18. InvOf(Handlers(queue))'
  BY <1>8, <1>9, <1>17 DEF InvOf, LostInv, ActiveInv, ReadInv
<1> QED BY <1>4, <1>5, <1>8, <1>18 DEF MessagesInv, Moved

LEMMA DirectMessageKeeps ==
  ASSUME ServiceInv, MessagesInv, TypeOK',
         NEW m \in MessageIds, NEW u \in Users, DirectMessage(m, u)
  PROVE  MessagesInv' /\ Moved
<1>1. PICK q : q = queue
  OBVIOUS
<1>2. Before(q) /\ seen \in Seen
  BY <1>1, NowBefore
<1>3. /\ seen' = [seen EXCEPT !.used = @ \cup {m}, !.received = @ \cup {m}]
      /\ m \notin seen.used /\ UNCHANGED <<messages, conversations, active>>
      /\ Wait(q, "users", [do |-> "storeDirect", id |-> m, conv |-> u])
  BY <1>1 DEF DirectMessage
<1>4. [do |-> "storeDirect", id |-> m, conv |-> u] \in Continuation["users"]
  BY StoresAre
<1>5. PICK k \in Continuation["users"] : k = [do |-> "storeDirect", id |-> m, conv |-> u]
  BY <1>4
<1>6. /\ "users" \in Stores /\ Wait(q, "users", k) /\ Storing(k) /\ k.id = m
      /\ k.do # "storeGroup"
  BY <1>3, <1>5, StoresAre DEF Storing
<1>7. /\ seen'.used = seen.used \cup {m} /\ seen'.received = seen.received \cup {m}
      /\ seen'.receipts = seen.receipts /\ seen'.trimmed = seen.trimmed
      /\ seen'.excused = seen.excused /\ seen'.gone = seen.gone
      /\ seen'.echoes \subseteq seen.echoes
  BY <1>2, <1>3 DEF Seen
<1>8. TypeOK /\ \A c \in Convs : conversations'[c] \in {0, None, conversations[c]}
  BY <1>2, <1>3, UnchangedCounts DEF Before
<1> QED BY <1>2, <1>3, <1>6, <1>7, <1>8, ReceivedKeeps

LEMMA GroupMessageKeeps ==
  ASSUME ServiceInv, MessagesInv, TypeOK',
         NEW m \in MessageIds, NEW g \in Groups, GroupMessage(m, g)
  PROVE  MessagesInv' /\ Moved
<1>0. PICK item : item = [conv |-> g, incoming |-> m \notin seen.used,
                          status |-> IF active = g THEN "read" ELSE "delivered"]
  OBVIOUS
<1>1. PICK q : q = queue
  OBVIOUS
<1>2. Before(q) /\ seen \in Seen /\ g \in Convs
  BY <1>1, NowBefore DEF Convs
<1>3. /\ seen' = [seen EXCEPT !.used = @ \cup {m}, !.echoes = @ \ {<<m, g>>},
                              !.received = IF m \notin seen.used THEN @ \cup {m} ELSE @]
      /\ m \notin seen.used \/ <<m, g>> \in seen.echoes
      /\ UpsertConversation(g) /\ UNCHANGED <<messages, active>>
      /\ Wait(q, "history", [do |-> "storeGroup", id |-> m, item |-> item])
  BY <1>0, <1>1 DEF GroupMessage
<1>4. item \in Message /\ (item.incoming <=> m \notin seen.used) /\ item.status \in Arrived
  BY <1>0, <1>2 DEF Message, Arrived
<1>5. [do |-> "storeGroup", id |-> m, item |-> item] \in Continuation["history"]
  BY <1>4, StoresAre
<1>6. PICK k \in Continuation["history"] : k = [do |-> "storeGroup", id |-> m, item |-> item]
  BY <1>5
<1>7. /\ "history" \in Stores /\ Wait(q, "history", k) /\ Storing(k) /\ k.id = m
      /\ k.do = "storeGroup" /\ k.item = item /\ (Incoming(k) <=> m \notin seen.used)
  BY <1>3, <1>4, <1>6, StoresAre DEF Storing, Incoming
<1>8. /\ seen'.used = seen.used \cup {m}
      /\ seen'.receipts = seen.receipts /\ seen'.trimmed = seen.trimmed
      /\ seen'.excused = seen.excused /\ seen'.gone = seen.gone
      /\ seen'.echoes \subseteq seen.echoes
      /\ seen'.received = IF m \notin seen.used THEN seen.received \cup {m} ELSE seen.received
  BY <1>2, <1>3 DEF Seen
<1>9. TypeOK /\ \A c \in Convs : conversations'[c] \in {0, None, conversations[c]}
  BY <1>2, <1>3, UpsertedCounts DEF Before
<1>10. m \in seen.used => m \notin seen.received
  BY <1>2, <1>3 DEF Before, InvOf, SeenFits
<1> QED BY <1>2, <1>3, <1>4, <1>7, <1>8, <1>9, <1>10, ReceivedKeeps

LEMMA ReadReceiptKeeps ==
  ASSUME ServiceInv, MessagesInv, TypeOK', NEW m \in MessageIds, ReadReceipt(m)
  PROVE  MessagesInv' /\ Moved
<1>1. PICK Q : Q = Handlers(queue)
  OBVIOUS
<1>2. /\ LostInv(Q) /\ ActiveInv(Q) /\ ReadInv(Q) /\ (\A l \in Q : Fits(l))
      /\ SeenFits /\ CountInv /\ TypeOK /\ QueueType(queue) /\ MessagesType(messages)
  BY <1>1, TypesAre DEF MessagesInv, InvOf, ServiceInv, Memory
<1>3. /\ m \in Stored /\ messages[m] \in Message
      /\ messages[m].incoming => messages[m].conv \in Groups \/ m \in seen.receipts
      /\ messages' = [messages EXCEPT ![m].status =
                    IF messages[m].conv \in Users THEN "read" ELSE @]
      /\ UNCHANGED <<conversations, active, queue, seen>>
  BY <1>2, StoredIsMessage DEF ReadReceipt
<1>4. /\ messages'[m] \in Message
      /\ messages'[m].conv = messages[m].conv
      /\ messages'[m].incoming = messages[m].incoming
      /\ messages'[m].status = IF messages[m].conv \in Users THEN "read" ELSE messages[m].status
      /\ \A n \in MessageIds : n # m => messages'[n] = messages[n]
  BY <1>2, <1>3 DEF Message, MessagesType
<1>5. messages[m].incoming => messages'[m].status = messages[m].status
  <2>1. CASE messages[m].conv \in Groups
    BY <2>1, <1>4, ServiceConstants
  <2>2. CASE m \in seen.receipts
    BY <2>2, <1>2, <1>3, <1>4 DEF SeenFits
  <2> QED BY <2>1, <2>2, <1>3
<1>6. Stored' = Stored
  BY <1>3, <1>4, NoneIsNoMessage DEF Stored
<1>7. ASSUME NEW n \in Stored, messages[n].incoming
      PROVE  messages'[n].status = messages[n].status
  BY <1>4, <1>5, <1>7 DEF Stored
<1>8. \A c \in Convs : Unread(c) \subseteq Unread(c)'
  BY <1>4, <1>6, <1>7 DEF Unread, Stored
<1>9. Moves({}, {}) /\ NewFits({}, {})
  <2>1. \A n \in Stored : /\ messages'[n].conv = messages[n].conv
                          /\ messages'[n].incoming = messages[n].incoming
                          /\ messages'[n].status \in {messages[n].status, "read"}
    BY <1>4 DEF Stored
  <2>2. Moves({}, {})
    BY <2>1, <1>3, <1>6 DEF Moves
  <2> QED BY <2>2, <1>3 DEF NewFits
<1>10. LostInv(Q)'
  BY <1>2, <1>3, <1>9, LostStays
<1>11. ActiveInv(Q)'
  BY <1>2, <1>3, <1>9, ActiveStays
<1>12. ReadInv(Q)'
  <2>1. \A n \in Stored' : ~ (/\ messages'[n].incoming /\ messages'[n].status = "read"
                              /\ messages[n].status # "read")
    BY <1>4, <1>6, <1>7 DEF Stored
  <2> QED BY <2>1, <1>2, <1>9, ReadStays
<1>13. ASSUME NEW l \in Q PROVE Fits(l)'
  <2>1. PICK s \in Stores : l \in Continuation[s]
    BY <1>1, <1>2, HandlersAre
  <2> QED BY <2>1, <1>2, <1>3, <1>9, FitStays
<1>14. SeenFits'
  BY <1>2, <1>9, SeenStays
<1>15. CountInv'
  BY <1>2, <1>3, <1>8, CountStays
<1>16. InvOf(Q)'
  BY <1>10, <1>11, <1>12, <1>13, <1>14, <1>15 DEF InvOf
<1>17. Handlers(queue)' = Q /\ Apart(queue)'
  BY <1>1, <1>3 DEF MessagesInv, Handlers, Apart
<1>18. InvOf(Handlers(queue))'
  BY <1>16, <1>17 DEF InvOf, LostInv, ActiveInv, ReadInv
<1> QED BY <1>9, <1>17, <1>18 DEF MessagesInv, Moved

----------------------------------------------------------------------------
\* Commands and settings

\* What a step shows of the invariant once its queue is known.
LEMMA Assembled ==
  ASSUME NEW A, NEW B, Moves(A, B), NewFits(A, B), NEW P, P = Handlers(queue)', Apart(queue)', LostInv(P)', ActiveInv(P)', ReadInv(P)',
         \A k \in P : Fits(k)', SeenFits', CountInv'
  PROVE  MessagesInv' /\ Moved
<1>1. InvOf(P)'
  BY DEF InvOf
<1>2. InvOf(Handlers(queue))'
  BY <1>1 DEF InvOf, LostInv, ActiveInv, ReadInv
<1> QED BY <1>2 DEF MessagesInv, Moved

LEMMA OpenConversationKeeps ==
  ASSUME ServiceInv, TypeOK', NEW q, Before(q), NEW c \in Convs, OpenConversation(q, c)
  PROVE  MessagesInv' /\ Moved
<1>1. PICK Q : Q = Handlers(q)
  OBVIOUS
<1>2. /\ LostInv(Q) /\ ActiveInv(Q) /\ ReadInv(Q) /\ (\A l \in Q : Fits(l))
      /\ SeenFits /\ CountInv /\ TypeOK /\ Memory /\ QueueType(q)
  BY <1>1, TypesAre DEF Before, InvOf, ServiceInv
<1>3. PICK ids \in SUBSET MessageIds : ids = Unread(c)
  BY DEF Unread, Stored
<1>4. /\ active' = c /\ MarkConversationRead(c) /\ UNCHANGED seen
      /\ Wait(q, "history", [do |-> "receipts", ids |-> ids])
  BY <1>3 DEF OpenConversation
<1>5. [do |-> "receipts", ids |-> ids] \in Continuation["history"]
  BY StoresAre
<1>6. PICK k \in Continuation["history"] : k = [do |-> "receipts", ids |-> ids]
  BY <1>5
<1>7. /\ "history" \in Stores /\ Wait(q, "history", k) /\ k.do = "receipts" /\ k.ids = ids
      /\ Carried(k) = ids /\ Receipting(k) /\ ~ Incoming(k)
  BY <1>4, <1>6, StoresAre DEF Carried, Receipting, Incoming
<1>8. /\ Stored' = Stored
      /\ \A n \in Stored : /\ messages'[n].conv = messages[n].conv
                           /\ messages'[n].incoming = messages[n].incoming
                           /\ n \notin Unread(c) => messages'[n] = messages[n]
                           /\ n \in Unread(c) => messages'[n].status = "read"
      /\ conversations'[c] \in {0, None}
      /\ \A d \in Convs : d # c => conversations'[d] = conversations[d]
  BY <1>2, <1>4, MarkReadEffect
<1>9. Moves({}, {}) /\ NewFits({}, {})
  <2>1. Moves({}, {})
    BY <1>4, <1>8 DEF Moves
  <2> QED BY <2>1, <1>4 DEF NewFits
<1>10. ids \subseteq Stored /\ \A n \in ids : messages[n].incoming
  BY <1>3 DEF Unread
<1>11. ApartFrom(Q, k)
  <2>1. ASSUME NEW l \in Q, Incoming(l) PROVE l.id \notin Carried(k)
    BY <2>1, <1>2, <1>7, <1>10 DEF Fits
  <2> QED BY <2>1, <1>7 DEF ApartFrom
<1>12. Handlers(queue)' = Q \cup {k} /\ Apart(queue)'
  BY <1>1, <1>2, <1>7, <1>11, HandlerJoins DEF Before
<1>13. PICK P : P = Q \cup {k}
  OBVIOUS
<1>14. LostInv(P)'
  BY <1>2, <1>4, <1>9, <1>13, LostStays
<1>15. ActiveInv(P)'
  <2>1. Unread(c)' = {}
    BY <1>8 DEF Unread
  <2> QED BY <2>1, <1>4 DEF ActiveInv
<1>16. ReadInv(P)'
  <2>1. \A n \in Stored' : messages'[n].status = "read" /\ messages[n].status # "read"
          => n \in Carried(k)
    BY <1>3, <1>7, <1>8
  <2> QED BY <2>1, <1>2, <1>7, <1>9, <1>13, ReadStays
<1>17. Fits(k)'
  <2>1. ids \subseteq seen.received /\ ids \subseteq seen.used
    BY <1>2, <1>10 DEF SeenFits
  <2>2. \A n \in ids \cap Stored' : messages'[n].status = "read"
    BY <1>3, <1>8
  <2> QED BY <2>1, <2>2, <1>4, <1>7 DEF Fits, Carried, Incoming
<1>18. ASSUME NEW l \in P PROVE Fits(l)'
  <2>1. CASE l \in Q
    <3>1. PICK s \in Stores : l \in Continuation[s]
      BY <2>1, <1>1, <1>2, HandlersAre
    <3> QED BY <2>1, <3>1, <1>2, <1>4, <1>9, FitStays
  <2> QED BY <2>1, <1>13, <1>17
<1>19. SeenFits'
  BY <1>2, <1>9, SeenStays
<1>20. CountInv'
  <2>1. \A d \in Convs : d # c => Unread(d) \subseteq Unread(d)'
    BY <1>8 DEF Unread
  <2>2. \A d \in Convs : conversations'[d] # None =>
          \/ conversations'[d] = 0
          \/ conversations'[d] = conversations[d] /\ Unread(d) \subseteq Unread(d)' \cup seen'.trimmed
    BY <2>1, <1>8
  <2> QED BY <2>2, <1>2, <1>4, CountStays
<1> QED BY <1>9, <1>12, <1>13, <1>14, <1>15, <1>16, <1>18, <1>19, <1>20, Assembled

LEMMA StartConversationKeeps ==
  ASSUME ServiceInv, MessagesInv, TypeOK', NEW c \in Convs, StartConversation(c)
  PROVE  MessagesInv' /\ Moved
<1>1. PICK q : q = queue
  OBVIOUS
<1>2. Before(q)
  BY <1>1, NowBefore
<1>3. /\ UpsertConversation(c) /\ UNCHANGED <<messages, active, seen>>
      /\ Wait(q, "history", [do |-> "open", conv |-> c])
  BY <1>1 DEF StartConversation
<1>4. [do |-> "open", conv |-> c] \in Continuation["history"]
  BY StoresAre
<1>5. PICK k \in Continuation["history"] : k = [do |-> "open", conv |-> c]
  BY <1>4
<1>6. "history" \in Stores /\ Carried(k) = {} /\ Wait(q, "history", k)
  BY <1>3, <1>5, StoresAre DEF Carried
<1>7. SeenSame /\ \A d \in Convs : conversations'[d] \in {0, None, conversations[d]}
  BY <1>2, <1>3, UpsertedCounts DEF SeenSame, Before
<1> QED BY <1>2, <1>3, <1>6, <1>7, QuietWait DEF Before

\* A message that is new, or takes the place of an own one, may add one to the
\* count of its conversation.
LEMMA UpsertCounts ==
  ASSUME TypeOK, TypeOK', CountInv, NEW m \in MessageIds, NEW item \in Message, NEW h \in Seen,
         h.trimmed = seen.trimmed, UpsertMessage(m, item, h),
         \A c \in Convs : m \notin Unread(c), item.incoming => m \notin seen.trimmed
  PROVE  CountInv'
<1>1. Memory /\ item.conv \in Convs
  BY TypesAre, MessageIsTyped
<1>2. /\ seen.trimmed \subseteq seen'.trimmed
      /\ m \in Stored' /\ messages'[m] = item
      /\ Stored \subseteq Stored' \cup seen'.trimmed
      /\ \A n \in Stored' : n # m => messages'[n] = messages[n]
      /\ conversations'[item.conv] =
           (IF conversations[item.conv] = None THEN 0 ELSE conversations[item.conv])
             + (IF item.incoming /\ item.status # "read" THEN 1 ELSE 0)
      /\ \A c \in Convs : c # item.conv => conversations'[c] = conversations[c]
  BY <1>1, UpsertMessageEffect
<1>3. \A c \in Convs : Unread(c) \subseteq Unread(c)' \cup seen'.trimmed
  BY <1>2 DEF Unread
<1> SUFFICES ASSUME NEW c \in Convs, conversations'[c] # None
             PROVE  conversations'[c] <= Cardinality(Unread(c)' \cup seen'.trimmed)
  BY DEF CountInv
<1>4. PICK new \in SUBSET MessageIds : new = Unread(c)' \cup seen'.trimmed
  <2>1. PICK g \in Seen : g = seen'
    BY DEF TypeOK
  <2>2. seen'.trimmed \in SUBSET MessageIds
    BY <2>1, SeenIsTyped
  <2>3. Unread(c)' \subseteq MessageIds
    BY DEF Unread, Stored
  <2> QED BY <2>2, <2>3
<1>5. PICK old \in SUBSET new : old = Unread(c) \cup seen.trimmed
  BY <1>2, <1>3, <1>4
<1>6. /\ Cardinality(new) \in Nat /\ Cardinality(old) \in Nat
      /\ Cardinality(old) <= Cardinality(new) /\ IsFiniteSet(old)
  <2>1. old \in SUBSET MessageIds
    OBVIOUS
  <2> QED BY <2>1, Sizes
<1>7. PICK count \in Nat : count = IF conversations[c] = None THEN 0 ELSE conversations[c]
  BY DEF TypeOK
<1>8. count <= Cardinality(old)
  BY <1>5, <1>6, <1>7 DEF CountInv
<1>9. CASE c # item.conv \/ ~ (item.incoming /\ item.status # "read")
  <2>1. conversations'[c] = count
    BY <1>2, <1>7, <1>9
  <2> QED BY <2>1, <1>4, <1>6, <1>8
<1>10. CASE c = item.conv /\ item.incoming /\ item.status # "read"
  <2>1. conversations'[c] = count + 1
    BY <1>2, <1>7, <1>10
  <2>2. m \in new /\ m \notin old
    BY <1>2, <1>4, <1>5, <1>10 DEF Unread
  <2>3. PICK more \in SUBSET new : more = old \cup {m}
    BY <2>2
  <2>4. Cardinality(more) = Cardinality(old) + 1
    BY <2>2, <2>3, <1>6, FS_AddElement
  <2>5. Cardinality(more) <= Cardinality(new) /\ Cardinality(more) \in Nat
    BY Sizes
  <2> QED BY <2>1, <2>4, <2>5, <1>4, <1>6, <1>8
<1> QED BY <1>9, <1>10

LEMMA SendMessageKeeps ==
  ASSUME ServiceInv, MessagesInv, TypeOK',
         NEW m \in MessageIds, NEW c \in Convs, NEW ok \in BOOLEAN, SendMessage(m, c, ok)
  PROVE  MessagesInv' /\ Moved
<1>1. PICK Q : Q = Handlers(queue)
  OBVIOUS
<1>2. /\ LostInv(Q) /\ ActiveInv(Q) /\ ReadInv(Q) /\ (\A l \in Q : Fits(l))
      /\ SeenFits /\ CountInv /\ TypeOK /\ QueueType(queue) /\ Memory /\ seen \in Seen
  BY <1>1, TypesAre DEF MessagesInv, InvOf, ServiceInv
<1>3. PICK item \in Message :
        item = [conv |-> c, incoming |-> FALSE, status |-> IF ok THEN "sent" ELSE "failed"]
  BY DEF Message
<1>4. PICK own \in SUBSET (MessageIds \X Groups) :
        own = IF ok /\ c \in Groups THEN seen.echoes \cup {<<m, c>>} ELSE seen.echoes
  <2>1. PICK old \in SUBSET (MessageIds \X Groups) : old = seen.echoes
    BY <1>2, SeenIsTyped
  <2>2. CASE ok /\ c \in Groups
    <3>1. <<m, c>> \in MessageIds \X Groups
      BY <2>2
    <3>2. old \cup {<<m, c>>} \in SUBSET (MessageIds \X Groups)
      BY <3>1
    <3> QED BY <2>1, <2>2, <3>2
  <2>3. CASE ~ (ok /\ c \in Groups)
    BY <2>1, <2>3
  <2> QED BY <2>2, <2>3
<1>5. PICK h : h = [seen EXCEPT !.used = @ \cup {m}, !.echoes = own]
  OBVIOUS
<1>6. /\ h \in Seen /\ h.used = seen.used \cup {m} /\ h.echoes = own
      /\ h.received = seen.received /\ h.receipts = seen.receipts /\ h.excused = seen.excused
      /\ h.trimmed = seen.trimmed /\ h.gone = seen.gone
  BY <1>2, <1>5 DEF Seen
<1>7. UpsertMessage(m, item, h) /\ UNCHANGED <<active, queue>> /\ m \notin seen.used
  <2>1. h = [seen EXCEPT !.used = @ \cup {m},
                         !.echoes = IF ok /\ c \in Groups THEN @ \cup {<<m, c>>} ELSE @]
    BY <1>2, <1>4, <1>5 DEF Seen
  <2> QED BY <2>1, <1>3 DEF SendMessage
<1>8. /\ seen' = [h EXCEPT !.trimmed = seen'.trimmed]
      /\ h.trimmed \subseteq seen'.trimmed
      /\ m \in Stored' /\ messages'[m] = item
      /\ Stored' \subseteq Stored \cup {m}
      /\ Stored \subseteq Stored' \cup seen'.trimmed
      /\ seen'.trimmed \subseteq h.trimmed \cup Stored \cup {m}
      /\ \A n \in Stored' : n # m => messages'[n] = messages[n]
  BY <1>2, <1>6, <1>7, UpsertMessageEffect
<1>9. /\ seen'.used = seen.used \cup {m} /\ seen'.echoes = own
      /\ seen'.received = seen.received /\ seen'.receipts = seen.receipts
      /\ seen'.excused = seen.excused /\ seen'.gone = seen.gone
  BY <1>6, <1>8 DEF Seen
<1>10. m \notin seen.received /\ m \notin seen.receipts /\ m \notin Stored /\ ~ item.incoming
  BY <1>2, <1>3, <1>7 DEF SeenFits
<1>11. Moves({m}, {})
  BY <1>6, <1>8, <1>9, <1>10 DEF Moves
<1>12. NewFits({m}, {})
  <2>1. \A e \in own : e \in seen.echoes \/ e[1] = m
    BY <1>4
  <2> QED BY <2>1, <1>8, <1>9, <1>10 DEF NewFits
<1>13. LostInv(Q)'
  BY <1>2, <1>9, <1>11, LostStays
<1>14. ActiveInv(Q)'
  <2>1. {m} \cap Unread(active)' = {}
    BY <1>8, <1>10 DEF Unread
  <2> QED BY <2>1, <1>2, <1>7, <1>11, ActiveStays
<1>15. ReadInv(Q)'
  <2>1. \A n \in Stored' : ~ (/\ messages'[n].incoming /\ messages'[n].status = "read"
                              /\ n \in {m} \/ messages[n].status # "read")
    BY <1>8, <1>10
  <2> QED BY <2>1, <1>2, <1>11, ReadStays
<1>16. ASSUME NEW l \in Q PROVE Fits(l)'
  <2>1. PICK s \in Stores : l \in Continuation[s]
    BY <1>1, <1>2, HandlersAre
  <2>2. Incoming(l) => l.id \notin {m} \cup {}
    BY <1>2, <1>10 DEF Fits
  <2>3. Carried(l) \cap {m} \cap seen.received = {}
    BY <1>10
  <2> QED BY <2>1, <2>2, <2>3, <1>2, <1>9, <1>11, FitStays
<1>17. SeenFits'
  BY <1>2, <1>11, <1>12, SeenStays
<1>18. CountInv'
  <2>1. \A d \in Convs : m \notin Unread(d)
    BY <1>10 DEF Unread
  <2> QED BY <2>1, <1>2, <1>6, <1>7, <1>10, UpsertCounts
<1>19. Handlers(queue)' = Q /\ Apart(queue)'
  BY <1>1, <1>7 DEF MessagesInv, Handlers, Apart
<1> QED BY <1>11, <1>12, <1>13, <1>14, <1>15, <1>16, <1>17, <1>18, <1>19, Assembled

LEMMA ClearKeeps ==
  ASSUME ServiceInv, MessagesInv, TypeOK', ClearLocalHistory
  PROVE  MessagesInv' /\ Moved
<1>1. PICK q : q = queue
  OBVIOUS
<1>2. Before(q) /\ seen \in Seen
  BY <1>1, NowBefore
<1>3. PICK Q : Q = Handlers(q)
  OBVIOUS
<1>4. /\ LostInv(Q) /\ ActiveInv(Q) /\ ReadInv(Q) /\ (\A l \in Q : Fits(l))
      /\ SeenFits /\ CountInv /\ QueueType(q)
  BY <1>2, <1>3 DEF Before, InvOf
<1>5. /\ messages' = [m \in MessageIds |-> None]
      /\ conversations' = [c \in Convs |-> None]
      /\ seen' = [seen EXCEPT !.gone = @ \cup Stored]
      /\ Wait(q, "history", [do |-> "deselect"]) /\ active' = active
  BY <1>1 DEF ClearLocalHistory
<1>6. Stored' = {}
  BY <1>5 DEF Stored
<1>7. /\ seen'.used = seen.used /\ seen'.echoes = seen.echoes
      /\ seen'.received = seen.received /\ seen'.receipts = seen.receipts
      /\ seen'.excused = seen.excused /\ seen'.trimmed = seen.trimmed
      /\ seen'.gone = seen.gone \cup Stored
  BY <1>2, <1>5 DEF Seen
<1>8. Moves({}, {}) /\ NewFits({}, {})
  <2>1. Moves({}, {})
    BY <1>6, <1>7 DEF Moves
  <2> QED BY <2>1, <1>4, <1>7 DEF NewFits, SeenFits
<1>9. [do |-> "deselect"] \in Continuation["history"]
  BY StoresAre
<1>10. PICK k \in Continuation["history"] : k = [do |-> "deselect"]
  BY <1>9
<1>11. "history" \in Stores /\ Carried(k) = {} /\ Wait(q, "history", k)
  BY <1>5, <1>10, StoresAre DEF Carried
<1>12. Handlers(queue)' = Q \cup {k} /\ Apart(queue)'
  BY <1>2, <1>3, <1>11, EmptyApart, HandlerJoins DEF Before
<1>13. PICK P : P = Q \cup {k}
  OBVIOUS
<1>14. LostInv(P)'
  BY <1>4, <1>7, <1>8, <1>13, LostStays
<1>15. ActiveInv(P)' /\ ReadInv(P)'
  BY <1>6 DEF ActiveInv, ReadInv, Unread
<1>16. ASSUME NEW l \in P PROVE Fits(l)'
  <2>1. CASE l \in Q
    <3>1. PICK s \in Stores : l \in Continuation[s]
      BY <2>1, <1>3, <1>4, HandlersAre
    <3>2. Incoming(l) => l.id \notin seen'.gone \ seen.gone
      BY <2>1, <1>4, <1>7 DEF Fits
    <3> QED BY <2>1, <3>1, <3>2, <1>4, <1>8, FitStays
  <2>2. CASE l = k
    BY <2>2, <1>11, EmptyFits
  <2> QED BY <2>1, <2>2, <1>13
<1>17. SeenFits'
  BY <1>4, <1>8, SeenStays
<1>18. CountInv'
  BY <1>5 DEF CountInv
<1> QED BY <1>8, <1>12, <1>13, <1>14, <1>15, <1>16, <1>17, <1>18, Assembled

LEMMA ChangeConfigKeeps ==
  ASSUME ServiceInv, MessagesInv, TypeOK',
         NEW limit \in Limits, NEW on \in BOOLEAN, ChangeConfig(limit, on)
  PROVE  MessagesInv' /\ Moved
<1>1. PICK q : q = queue
  OBVIOUS
<1>2. Before(q) /\ seen \in Seen
  BY <1>1, NowBefore
<1>3. PICK Q : Q = Handlers(q)
  OBVIOUS
<1>4. /\ LostInv(Q) /\ ActiveInv(Q) /\ ReadInv(Q) /\ (\A l \in Q : Fits(l))
      /\ SeenFits /\ CountInv /\ TypeOK /\ QueueType(q) /\ Apart(q) /\ limit \in Nat
      /\ MessagesType(messages)
  BY <1>2, <1>3, TypesAre, ServiceConstants DEF Before, InvOf, Memory
<1>5. /\ Trim(messages, {}, limit, seen) /\ UNCHANGED <<conversations, active>>
      /\ Wait(q, "history", [do |-> "configure"]) \/ queue' = q
  BY <1>1 DEF ChangeConfig, Finish
<1>6. PICK f : f = messages
  OBVIOUS
<1>7. PICK h \in Seen : h = seen
  BY <1>2
<1>8. /\ seen' = [h EXCEPT !.trimmed = seen'.trimmed]
      /\ h.trimmed \subseteq seen'.trimmed
      /\ \A n \in seen'.trimmed : n \in h.trimmed \/ f[n] # None
      /\ \A n \in MessageIds : f[n] # None => n \in Stored' \cup seen'.trimmed
      /\ \A n \in Stored' : messages'[n] = f[n] /\ f[n] # None
  <2>1. PICK none \in SUBSET MessageIds : none = {}
    OBVIOUS
  <2>2. /\ Trim(f, none, limit, h) /\ (\A n \in none : f[n] # None) /\ MessagesType(f)
    BY <1>4, <1>5, <1>6, <1>7, <2>1
  <2> QED BY <1>4, <2>2, TrimEffect
<1>9. seen'.trimmed \subseteq MessageIds
  <2>1. PICK g \in Seen : g = seen'
    BY DEF TypeOK
  <2> QED BY <2>1, SeenIsTyped
<1>10. /\ seen.trimmed \subseteq seen'.trimmed
       /\ seen'.trimmed \subseteq seen.trimmed \cup Stored
       /\ Stored \subseteq Stored' \cup seen'.trimmed
       /\ Stored' \subseteq Stored /\ \A n \in Stored' : messages'[n] = messages[n]
  BY <1>6, <1>7, <1>8, <1>9 DEF Stored
<1>11. /\ seen'.used = seen.used /\ seen'.echoes = seen.echoes
       /\ seen'.received = seen.received /\ seen'.receipts = seen.receipts
       /\ seen'.excused = seen.excused /\ seen'.gone = seen.gone
  BY <1>7, <1>8 DEF Seen
<1>12. Moves({}, {}) /\ NewFits({}, {})
  <2>1. Moves({}, {})
    BY <1>10, <1>11 DEF Moves
  <2> QED BY <2>1, <1>11 DEF NewFits
<1>13. PICK P : /\ P = Handlers(queue)' /\ Apart(queue)' /\ Q \subseteq P
                /\ \A l \in P : l \in Q \/ Carried(l) = {}
  <2>1. CASE Wait(q, "history", [do |-> "configure"])
    <3>1. [do |-> "configure"] \in Continuation["history"]
      BY StoresAre
    <3>2. PICK k \in Continuation["history"] : k = [do |-> "configure"]
      BY <3>1
    <3>3. "history" \in Stores /\ Carried(k) = {} /\ Wait(q, "history", k)
      BY <2>1, <3>2, StoresAre DEF Carried
    <3>4. Handlers(queue)' = Q \cup {k} /\ Apart(queue)'
      BY <3>3, <1>3, <1>4, EmptyApart, HandlerJoins
    <3> QED BY <3>3, <3>4
  <2>2. CASE queue' = q
    <3>1. Handlers(queue)' = Q /\ Apart(queue)'
      BY <2>2, <1>3, <1>4 DEF Handlers, Apart
    <3> QED BY <3>1
  <2> QED BY <2>1, <2>2, <1>5
<1>14. LostInv(P)'
  BY <1>4, <1>11, <1>12, <1>13, LostStays
<1>15. ActiveInv(P)'
  BY <1>4, <1>5, <1>12, <1>13, ActiveStays
<1>16. ReadInv(P)'
  BY <1>4, <1>10, <1>12, <1>13, ReadStays
<1>17. ASSUME NEW l \in P PROVE Fits(l)'
  <2>1. CASE l \in Q
    <3>1. PICK s \in Stores : l \in Continuation[s]
      BY <2>1, <1>3, <1>4, HandlersAre
    <3> QED BY <2>1, <3>1, <1>4, <1>11, <1>12, FitStays
  <2>2. CASE Carried(l) = {}
    BY <2>2, EmptyFits
  <2> QED BY <2>1, <2>2, <1>13
<1>18. SeenFits'
  BY <1>4, <1>12, SeenStays
<1>19. CountInv'
  <2>1. \A c \in Convs : Unread(c) \subseteq Unread(c)' \cup seen'.trimmed
    BY <1>10 DEF Unread
  <2> QED BY <2>1, <1>4, <1>5, <1>10, CountStays
<1> QED BY <1>12, <1>13, <1>14, <1>15, <1>16, <1>17, <1>18, <1>19, Assembled

----------------------------------------------------------------------------
\* What handlers do when a write has ended.  k is the handler, which has left,
\* and q the queue without it.

Left(q, k) ==
  /\ TypeOK /\ QueueType(q) /\ Apart(q) /\ ApartFrom(Handlers(q), k)
  /\ InvOf(Handlers(q) \cup {k})

LEMMA LeftEmpty ==
  ASSUME NEW q, NEW k, Left(q, k), Carried(k) = {}
  PROVE  Before(q)
BY DropEmpty DEF Left, Before

LEMMA GroupsKeep ==
  ASSUME ServiceInv, TypeOK', NEW q, NEW s \in Stores, NEW k \in Continuation[s], Left(q, k),
         \/ k.do = "replaceGroups" /\ ReplaceGroups(k, q)
         \/ k.do = "upsertGroups" /\ UpsertGroups(k, q)
  PROVE  MessagesInv' /\ Moved
<1>1. Carried(k) = {}
  BY DEF Carried
<1>2. Before(q)
  BY <1>1, LeftEmpty
<1>3. UNCHANGED <<messages, active, seen>> /\ SeenSame
  BY DEF ReplaceGroups, UpsertGroups, SeenSame
<1>4. CASE k.do = "replaceGroups" /\ ReplaceGroups(k, q)
  <2>1. k.groups \in GroupCache /\ k.directs \in SUBSET Users
    BY <1>4, ContinuationFields
  <2>2. PICK present \in SUBSET Groups : present = {g \in Groups : k.groups[g] # None}
    OBVIOUS
  <2>3. /\ Wait(q, "groups", [do |-> "upsertGroups", left |-> present,
                              convs |-> present \cup k.directs])
        /\ UNCHANGED conversations
    BY <1>4, <2>2 DEF ReplaceGroups
  <2>4. [do |-> "upsertGroups", left |-> present, convs |-> present \cup k.directs]
          \in Continuation["groups"]
    BY <2>1, StoresAre DEF GroupLoop, Convs
  <2>5. PICK next \in Continuation["groups"] :
          next = [do |-> "upsertGroups", left |-> present, convs |-> present \cup k.directs]
    BY <2>4
  <2>6. "groups" \in Stores /\ Carried(next) = {} /\ Wait(q, "groups", next)
    BY <2>3, <2>5, StoresAre DEF Carried
  <2> QED BY <1>2, <1>3, <2>3, <2>6, QuietWait DEF Before
<1>5. CASE k.do = "upsertGroups" /\ UpsertGroups(k, q)
  <2>1. k \in GroupLoop /\ k.left \in SUBSET Groups /\ k.convs \in SUBSET Convs
    BY <1>5, ContinuationFields
  <2>2. ASSUME NEW g \in k.left, UpsertConversation(g),
               Wait(q, "history", [k EXCEPT !.left = @ \ {g}])
        PROVE  MessagesInv' /\ Moved
    <3>1. [k EXCEPT !.left = @ \ {g}] \in GroupLoop
      BY <2>1 DEF GroupLoop
    <3>2. PICK next \in GroupLoop : next = [k EXCEPT !.left = @ \ {g}]
      BY <3>1
    <3>3. /\ "history" \in Stores /\ next \in Continuation["history"]
          /\ Wait(q, "history", next) /\ next.do = "upsertGroups"
      BY <2>2, <3>2, StoresAre DEF GroupLoop
    <3>4. Carried(next) = {}
      BY <3>3 DEF Carried
    <3>5. \A c \in Convs : conversations'[c] \in {0, None, conversations[c]}
      BY <1>2, <2>1, <2>2, UpsertedCounts DEF Before, Convs
    <3> QED BY <1>2, <1>3, <3>3, <3>4, <3>5, QuietWait DEF Before
  <2>3. ASSUME ReplaceConversations(k.convs), Finish(q)
        PROVE  MessagesInv' /\ Moved
    <3>1. \A c \in Convs : conversations'[c] \in {0, None, conversations[c]}
      BY <2>3 DEF ReplaceConversations
    <3> QED BY <1>2, <1>3, <2>3, <3>1, QuietEnd DEF Before, Finish
  <2> QED BY <1>5, <2>2, <2>3 DEF UpsertGroups
<1> QED BY <1>4, <1>5

\* Deselect and configure.
LEMMA DeselectKeeps ==
  ASSUME TypeOK', NEW q, NEW k, Left(q, k), k.do \in {"deselect", "configure"},
         Deselect(q) \/ Configure(q)
  PROVE  MessagesInv' /\ Moved
<1>1. Before(q)
  BY LeftEmpty DEF Carried
<1>2. /\ UNCHANGED <<messages, conversations, seen>> /\ queue' = q
      /\ active' \in {active, None}
  BY DEF Deselect, Configure, stores, Finish
<1>3. SeenSame
  BY <1>2 DEF SeenSame
<1> QED BY <1>1, <1>2, <1>3, QuietEnd DEF Before

\* k stores the message it carries and waits to send its receipt.
LEMMA StoreMessageKeeps ==
  ASSUME ServiceInv, TypeOK', NEW q, NEW k, Left(q, k), Storing(k),
         NEW item \in Message, k.id \in MessageIds, StoreMessage(k.id, item, q),
         Incoming(k) <=> item.incoming, item.incoming => item.status \in Arrived
  PROVE  MessagesInv' /\ Moved
<1>1. PICK Q : Q = Handlers(q)
  OBVIOUS
<1>2. PICK m \in MessageIds : m = k.id
  OBVIOUS
<1>3. /\ LostInv(Q \cup {k}) /\ ActiveInv(Q \cup {k}) /\ ReadInv(Q \cup {k})
      /\ (\A l \in Q : Fits(l)) /\ Fits(k) /\ ApartFrom(Q, k) /\ Apart(q)
      /\ SeenFits /\ CountInv /\ TypeOK /\ QueueType(q) /\ Memory /\ seen \in Seen
  BY <1>1, TypesAre DEF Left, InvOf
<1>4. Carried(k) = {m} /\ ~ Receipting(k) /\ k.do # "receipt"
  BY <1>2 DEF Carried, Storing, Receipting
<1>5. PICK h \in Seen : h = seen
  BY <1>3
<1>6. /\ UpsertMessage(m, item, h) /\ active' = active
      /\ Wait(q, "history", [do |-> "receipt", id |-> m, item |-> item])
  BY <1>2, <1>5 DEF StoreMessage
<1>7. /\ seen' = [h EXCEPT !.trimmed = seen'.trimmed]
      /\ h.trimmed \subseteq seen'.trimmed
      /\ m \in Stored' /\ messages'[m] = item
      /\ Stored' \subseteq Stored \cup {m}
      /\ Stored \subseteq Stored' \cup seen'.trimmed
      /\ seen'.trimmed \subseteq h.trimmed \cup Stored \cup {m}
      /\ \A n \in Stored' : n # m => messages'[n] = messages[n]
  BY <1>3, <1>6, UpsertMessageEffect
<1>8. /\ seen'.used = seen.used /\ seen'.echoes = seen.echoes
      /\ seen'.received = seen.received /\ seen'.receipts = seen.receipts
      /\ seen'.excused = seen.excused /\ seen'.gone = seen.gone
  BY <1>5, <1>7 DEF Seen
<1>9. /\ m \in seen.used
      /\ item.incoming => m \in seen.received \ (Stored \cup seen.receipts \cup seen.trimmed \cup seen.gone)
      /\ ~ item.incoming => m \notin seen.received
  BY <1>2, <1>3, <1>4 DEF Fits, Storing, Incoming
<1>10. m \notin seen.receipts
  BY <1>3, <1>9 DEF SeenFits
<1>11. Moves({m}, {})
  BY <1>5, <1>7, <1>8 DEF Moves
<1>12. NewFits({m}, {})
  BY <1>7, <1>8, <1>9, <1>10 DEF NewFits
<1>13. [do |-> "receipt", id |-> m, item |-> item] \in Continuation["history"]
  BY StoresAre
<1>14. PICK next \in Continuation["history"] :
         next = [do |-> "receipt", id |-> m, item |-> item]
  BY <1>13
<1>15. /\ "history" \in Stores /\ Wait(q, "history", next) /\ next.do = "receipt"
       /\ next.id = m /\ next.item = item /\ Carried(next) = {m}
       /\ Receipting(next) /\ ~ Incoming(next)
  BY <1>6, <1>14, StoresAre DEF Carried, Receipting, Incoming
<1>16. \A l \in Q : Incoming(l) => l.id # m
  BY <1>3, <1>4 DEF ApartFrom
<1>17. ApartFrom(Q, next)
  BY <1>15, <1>16 DEF ApartFrom
<1>18. Handlers(queue)' = Q \cup {next} /\ Apart(queue)'
  BY <1>1, <1>3, <1>15, <1>17, HandlerJoins
<1>19. PICK P : P = Q \cup {next}
  OBVIOUS
<1>20. LostInv(P)'
  <2>1. \A l \in Q \cup {k} : Storing(l) =>
          l \in P \/ l.id \in Stored' \cup seen'.gone \cup seen'.trimmed
    BY <1>2, <1>7, <1>19
  <2> QED BY <2>1, <1>3, <1>8, <1>11, LostStays
<1>21. ActiveInv(P)'
  <2>1. \A n \in {m} \cap Unread(active)' : \E l \in P : l.do = "receipt" /\ l.id = n
    BY <1>15, <1>19
  <2>2. \A l \in Q \cup {k} : l.do = "receipt" => l \in P
    BY <1>4, <1>19
  <2> QED BY <2>1, <2>2, <1>3, <1>6, <1>11, ActiveStays
<1>22. ReadInv(P)'
  <2>1. \A n \in Stored' : messages'[n].status = "read" /\ (n \in {m} \/ messages[n].status # "read")
          => n \in Carried(next)
    BY <1>7, <1>15
  <2>2. \A l \in Q \cup {k} : Receipting(l) => l \in P
    BY <1>4, <1>19
  <2>3. next \in P /\ Receipting(next)
    BY <1>15, <1>19
  <2> QED BY <2>1, <2>2, <2>3, <1>3, <1>11, ReadStays
<1>23. Fits(next)'
  <2>1. Carried(next) \subseteq seen'.used
    BY <1>8, <1>9, <1>15
  <2>2. next.item.incoming =>
          next.id \in seen'.received
          /\ (next.id \in Stored' => messages'[next.id].conv = next.item.conv)
    BY <1>7, <1>8, <1>9, <1>15
  <2> QED BY <2>1, <2>2, <1>15 DEF Fits, Carried, Incoming
<1>24. ASSUME NEW l \in P PROVE Fits(l)'
  <2>1. CASE l \in Q
    <3>1. PICK s \in Stores : l \in Continuation[s]
      BY <2>1, <1>1, <1>3, HandlersAre
    <3>2. Incoming(l) => l.id \notin {m} \cup {}
      BY <2>1, <1>16
    <3>3. Carried(l) \cap {m} \cap seen.received = {}
      <4>1. CASE item.incoming
        BY <4>1, <2>1, <1>2, <1>3 DEF ApartFrom
      <4>2. CASE ~ item.incoming
        BY <4>2, <1>9
      <4> QED BY <4>1, <4>2
    <3> QED BY <2>1, <3>1, <3>2, <3>3, <1>3, <1>8, <1>11, FitStays
  <2> QED BY <2>1, <1>19, <1>23
<1>25. SeenFits'
  BY <1>3, <1>11, <1>12, SeenStays
<1>26. CountInv'
  <2>1. \A d \in Convs : m \notin Unread(d)
    BY <1>3, <1>9 DEF Unread, SeenFits
  <2> QED BY <2>1, <1>3, <1>5, <1>6, <1>9, UpsertCounts
<1> QED BY <1>11, <1>12, <1>18, <1>19, <1>20, <1>21, <1>22, <1>24, <1>25, <1>26, Assembled

\* k leaves with its receipts sent, or excused, or with nothing to excuse.
LEMMA ReceiptsLeave ==
  ASSUME TypeOK', NEW q, NEW s \in Stores, NEW k \in Continuation[s], Left(q, k),
         queue' = q, Receipting(k), UNCHANGED <<messages, conversations, active>>,
         NEW B, B \in {{}, Carried(k)}, B # {} => k.do = "receipts",
         seen'.used = seen.used, seen'.received = seen.received,
         seen'.trimmed = seen.trimmed, seen'.echoes = seen.echoes,
         seen'.receipts = seen.receipts \cup B, seen'.gone = seen.gone,
         seen.excused \subseteq seen'.excused,
         \/ Carried(k) \subseteq seen'.excused \cup B
         \/ \A m \in Carried(k) : m \in Stored => messages[m].status # "read",
         k.do = "receipt" /\ k.id \notin seen'.excused => k.id \notin Unread(active)
  PROVE  MessagesInv' /\ Moved
<1>1. PICK Q : Q = Handlers(q)
  OBVIOUS
<1>2. /\ LostInv(Q \cup {k}) /\ ActiveInv(Q \cup {k}) /\ ReadInv(Q \cup {k})
      /\ (\A l \in Q : Fits(l)) /\ Fits(k) /\ ApartFrom(Q, k) /\ Apart(q)
      /\ SeenFits /\ CountInv /\ TypeOK /\ QueueType(q)
  BY <1>1 DEF Left, InvOf
<1>3. Stored' = Stored /\ \A c : Unread(c)' = Unread(c)
  BY DEF Stored, Unread
<1>4. B \subseteq seen.received /\ \A m \in B \cap Stored : messages[m].status = "read"
  <2>1. CASE B = {}
    BY <2>1
  <2>2. CASE B # {}
    BY <2>2, <1>2 DEF Fits, Carried
  <2> QED BY <2>1, <2>2
<1>5. Moves({}, B)
  BY <1>3 DEF Moves
<1>6. NewFits({}, B)
  BY <1>3, <1>4 DEF NewFits
<1>7. LostInv(Q)'
  BY <1>2, <1>5, LostStays DEF Storing, Receipting
<1>8. ActiveInv(Q)'
  <2>1. \A l \in Q \cup {k} : l.do = "receipt" =>
          l \in Q \/ l.id \in seen'.excused \/ l.id \notin Unread(active)'
    BY <1>3
  <2> QED BY <2>1, <1>2, <1>5, ActiveStays
<1>9. ReadInv(Q)'
  <2>1. \A m \in Carried(k) \cap Stored' : messages'[m].status = "read" =>
          m \in seen'.receipts \cup seen'.excused
    BY <1>3
  <2> QED BY <2>1, <1>2, <1>5, ReadStays
<1>10. ASSUME NEW l \in Q PROVE Fits(l)'
  <2>1. PICK t \in Stores : l \in Continuation[t]
    BY <1>1, <1>2, HandlersAre
  <2>2. Incoming(l) => l.id \notin {} \cup B
    BY <1>2 DEF ApartFrom
  <2> QED BY <2>1, <2>2, <1>2, <1>5, FitStays
<1>11. SeenFits'
  BY <1>2, <1>5, <1>6, SeenStays
<1>12. CountInv'
  BY <1>2, <1>3, CountStays
<1>13. Handlers(queue)' = Q /\ Apart(queue)'
  BY <1>1, <1>2 DEF Handlers, Apart
<1> QED BY <1>5, <1>6, <1>7, <1>8, <1>9, <1>10, <1>11, <1>12, <1>13, Assembled

LEMMA ReceiptsKeep ==
  ASSUME ServiceInv, TypeOK', NEW q, NEW k \in Continuation["history"], Left(q, k),
         k.do = "receipts", SendReceipts(k, q)
  PROVE  MessagesInv' /\ Moved
<1>1. Carried(k) = k.ids /\ Receipting(k) /\ "history" \in Stores /\ seen \in Seen
  BY StoresAre, TypesAre DEF Carried, Receipting, ServiceInv
<1>2. queue' = q /\ UNCHANGED <<messages, conversations, active>>
  BY DEF SendReceipts, stores, Finish
<1>3. CASE seen' = [seen EXCEPT !.receipts = @ \cup k.ids]
  <2>1. PICK B : B = Carried(k)
    OBVIOUS
  <2>2. /\ seen'.used = seen.used /\ seen'.received = seen.received
        /\ seen'.trimmed = seen.trimmed /\ seen'.echoes = seen.echoes
        /\ seen'.receipts = seen.receipts \cup B /\ seen'.gone = seen.gone
        /\ seen.excused \subseteq seen'.excused
    BY <1>1, <1>3, <2>1 DEF Seen
  <2> QED BY <1>1, <1>2, <2>1, <2>2, ReceiptsLeave
<1>4. CASE seen' = [seen EXCEPT !.excused = @ \cup k.ids]
  <2>1. PICK B : B = {}
    OBVIOUS
  <2>2. /\ seen'.used = seen.used /\ seen'.received = seen.received
        /\ seen'.trimmed = seen.trimmed /\ seen'.echoes = seen.echoes
        /\ seen'.receipts = seen.receipts \cup B /\ seen'.gone = seen.gone
        /\ seen'.excused = seen.excused \cup Carried(k)
    BY <1>1, <1>4, <2>1 DEF Seen
  <2> QED BY <1>1, <1>2, <2>1, <2>2, ReceiptsLeave
<1> QED BY <1>3, <1>4 DEF SendReceipts, SendReadReceipts

\* The receipt of a message of the open conversation, all of which is read.
LEMMA ReceiptSentKeeps ==
  ASSUME ServiceInv, TypeOK', NEW q, NEW k \in Continuation["history"], Left(q, k),
         k.do = "receipt", SendImmediateReceipt(k, q),
         k.item.incoming, active = k.item.conv, settings.receipts
  PROVE  MessagesInv' /\ Moved
<1>1. PICK Q : Q = Handlers(q)
  OBVIOUS
<1>2. /\ LostInv(Q \cup {k}) /\ ActiveInv(Q \cup {k}) /\ ReadInv(Q \cup {k})
      /\ (\A l \in Q : Fits(l)) /\ Fits(k) /\ ApartFrom(Q, k) /\ Apart(q)
      /\ SeenFits /\ CountInv /\ TypeOK /\ QueueType(q) /\ Memory /\ seen \in Seen
  BY <1>1, TypesAre DEF Left, InvOf
<1>3. PICK c \in Convs : c = k.item.conv
  BY StoresAre, ContinuationFields, MessageIsTyped
<1>4. /\ SendReadReceipts({k.id}) /\ MarkConversationRead(c)
      /\ queue' = q /\ active' = active /\ active = c
  BY <1>3 DEF SendImmediateReceipt, Finish
<1>5. PICK B \in SUBSET {k.id} :
        /\ seen'.used = seen.used /\ seen'.received = seen.received
        /\ seen'.trimmed = seen.trimmed /\ seen'.echoes = seen.echoes
        /\ seen'.receipts = seen.receipts \cup B /\ seen'.gone = seen.gone
        /\ seen.excused \subseteq seen'.excused /\ k.id \in seen'.receipts \cup seen'.excused
  <2>1. CASE seen' = [seen EXCEPT !.receipts = @ \cup {k.id}]
    <3>1. PICK B \in SUBSET {k.id} : B = {k.id}
      OBVIOUS
    <3> QED BY <2>1, <3>1, <1>2 DEF Seen
  <2>2. CASE seen' = [seen EXCEPT !.excused = @ \cup {k.id}]
    <3>1. PICK B \in SUBSET {k.id} : B = {}
      OBVIOUS
    <3> QED BY <2>2, <3>1, <1>2 DEF Seen
  <2> QED BY <2>1, <2>2, <1>4 DEF SendReadReceipts
<1>6. /\ Stored' = Stored
      /\ \A n \in Stored : /\ messages'[n].conv = messages[n].conv
                           /\ messages'[n].incoming = messages[n].incoming
                           /\ n \notin Unread(c) => messages'[n] = messages[n]
                           /\ n \in Unread(c) => messages'[n].status = "read"
      /\ conversations'[c] \in {0, None}
      /\ \A d \in Convs : d # c => conversations'[d] = conversations[d]
  BY <1>2, <1>4, MarkReadEffect
<1>7. /\ Carried(k) = {k.id} /\ ~ Storing(k)
      /\ k.id \in seen.received /\ (k.id \in Stored => messages[k.id].conv = c)
  BY <1>2, <1>3 DEF Carried, Storing, Fits
<1>8. k.id \in Stored => messages'[k.id].status = "read"
  <2>1. ASSUME k.id \in Stored, k.id \notin Unread(c) PROVE messages[k.id].status = "read"
    BY <2>1, <1>2, <1>7 DEF Unread, SeenFits
  <2> QED BY <2>1, <1>6
<1>9. Moves({}, B)
  BY <1>5, <1>6 DEF Moves
<1>10. NewFits({}, B)
  BY <1>5, <1>6, <1>7, <1>8 DEF NewFits
<1>11. LostInv(Q)'
  BY <1>2, <1>5, <1>7, <1>9, LostStays
<1>12. ActiveInv(Q)'
  <2>1. Unread(c)' = {}
    BY <1>6 DEF Unread
  <2> QED BY <2>1, <1>4 DEF ActiveInv
<1>13. ReadInv(Q)'
  <2>1. \A m \in Carried(k) : m \in seen'.receipts \cup seen'.excused
    BY <1>5, <1>7
  <2>2. ASSUME NEW m \in Stored', messages'[m].status = "read", messages[m].status # "read"
        PROVE  \/ m \in seen'.receipts \cup seen'.excused
               \/ \E l \in Q : Receipting(l) /\ m \in Carried(l)
    <3>1. m \in Unread(active) /\ active # None
      BY <2>2, <1>4, <1>6, ServiceConstants
    <3>2. CASE m \in seen.excused
      BY <3>2, <1>5
    <3>3. ASSUME NEW l \in Q \cup {k}, l.do = "receipt", l.id = m
          PROVE  \/ m \in seen'.receipts \cup seen'.excused
                 \/ \E j \in Q : Receipting(j) /\ m \in Carried(j)
      <4>1. Receipting(l) /\ m \in Carried(l)
        BY <3>3 DEF Receipting, Carried
      <4> QED BY <4>1, <3>3, <2>1
    <3> QED BY <3>1, <3>2, <3>3, <1>2 DEF ActiveInv
  <2> QED BY <2>1, <2>2, <1>2, <1>9, ReadStays
<1>14. ASSUME NEW l \in Q PROVE Fits(l)'
  <2>1. PICK t \in Stores : l \in Continuation[t]
    BY <1>1, <1>2, HandlersAre
  <2>2. Incoming(l) => l.id \notin {} \cup B
    BY <1>2, <1>7 DEF ApartFrom
  <2> QED BY <2>1, <2>2, <1>2, <1>5, <1>9, FitStays
<1>15. SeenFits'
  BY <1>2, <1>9, <1>10, SeenStays
<1>16. CountInv'
  <2>1. \A d \in Convs : d # c => Unread(d) \subseteq Unread(d)'
    BY <1>6 DEF Unread
  <2>2. \A d \in Convs : conversations'[d] # None =>
          \/ conversations'[d] = 0
          \/ conversations'[d] = conversations[d] /\ Unread(d) \subseteq Unread(d)' \cup seen'.trimmed
    BY <2>1, <1>6
  <2> QED BY <2>2, <1>2, <1>5, CountStays
<1>17. Handlers(queue)' = Q /\ Apart(queue)'
  BY <1>1, <1>2, <1>4 DEF Handlers, Apart
<1> QED BY <1>9, <1>10, <1>11, <1>12, <1>13, <1>14, <1>15, <1>16, <1>17, Assembled

LEMMA ReceiptKeeps ==
  ASSUME ServiceInv, TypeOK', NEW q, NEW k \in Continuation["history"], Left(q, k),
         k.do = "receipt", SendImmediateReceipt(k, q)
  PROVE  MessagesInv' /\ Moved
<1>1. CASE k.item.incoming /\ active = k.item.conv /\ settings.receipts
  BY <1>1, ReceiptSentKeeps
<1>2. CASE ~ (k.item.incoming /\ active = k.item.conv /\ settings.receipts)
  <2>1. /\ seen' = [seen EXCEPT !.excused =
                     IF k.id \in Unread(k.item.conv) /\ active # k.item.conv
                     THEN @ ELSE @ \cup {k.id}]
        /\ queue' = q /\ UNCHANGED <<messages, conversations, active>>
    BY <1>2 DEF SendImmediateReceipt, stores, Finish
  <2>2. /\ Carried(k) = {k.id} /\ Receipting(k) /\ "history" \in Stores /\ seen \in Seen
        /\ k.do # "receipts"
    BY StoresAre, TypesAre DEF Carried, Receipting, ServiceInv
  <2>3. PICK B : B = {}
    OBVIOUS
  <2>4. /\ seen'.used = seen.used /\ seen'.received = seen.received
        /\ seen'.trimmed = seen.trimmed /\ seen'.echoes = seen.echoes
        /\ seen'.receipts = seen.receipts \cup B /\ seen'.gone = seen.gone
        /\ seen.excused \subseteq seen'.excused
    BY <2>1, <2>2, <2>3 DEF Seen
  <2>5. CASE k.id \in Unread(k.item.conv) /\ active # k.item.conv
    <3>1. \A m \in Carried(k) : m \in Stored => messages[m].status # "read"
      BY <2>2, <2>5 DEF Unread
    <3>2. k.id \notin Unread(active)
      BY <2>5 DEF Unread
    <3> QED BY <2>1, <2>2, <2>3, <2>4, <3>1, <3>2, ReceiptsLeave
  <2>6. CASE ~ (k.id \in Unread(k.item.conv) /\ active # k.item.conv)
    <3>1. seen'.excused = seen.excused \cup {k.id}
      BY <2>1, <2>2, <2>6 DEF Seen
    <3>2. Carried(k) \subseteq seen'.excused \cup B
      BY <2>2, <3>1
    <3>3. k.id \in seen'.excused
      BY <3>1
    <3> QED BY <2>1, <2>2, <2>3, <2>4, <3>2, <3>3, ReceiptsLeave
  <2> QED BY <2>5, <2>6
<1> QED BY <1>1, <1>2

LEMMA WriteFailsKeeps ==
  ASSUME ServiceInv, TypeOK', NEW s \in Stores, NEW q, NEW k \in Continuation[s], Left(q, k),
         k = Head(queue[s]), q = [queue EXCEPT ![s] = Tail(@)], WriteFails(s)
  PROVE  MessagesInv' /\ Moved
<1>1. PICK Q : Q = Handlers(q)
  OBVIOUS
<1>2. /\ LostInv(Q \cup {k}) /\ ActiveInv(Q \cup {k}) /\ ReadInv(Q \cup {k})
      /\ (\A l \in Q : Fits(l)) /\ Fits(k) /\ ApartFrom(Q, k) /\ Apart(q)
      /\ SeenFits /\ CountInv /\ TypeOK /\ QueueType(q) /\ seen \in Seen
  BY <1>1, TypesAre DEF Left, InvOf
<1>3. /\ seen' = [seen EXCEPT !.excused = @ \cup Carried(k),
                              !.gone = @ \cup (Carried(k) \ Stored),
                              !.stale = @ \/ k.do = "replaceGroups"]
      /\ queue' = q /\ UNCHANGED <<messages, conversations, active>>
  BY DEF WriteFails, stores
<1>4. /\ seen'.used = seen.used /\ seen'.received = seen.received
      /\ seen'.trimmed = seen.trimmed /\ seen'.echoes = seen.echoes
      /\ seen'.receipts = seen.receipts /\ seen'.gone = seen.gone \cup (Carried(k) \ Stored)
      /\ seen'.excused = seen.excused \cup Carried(k)
  BY <1>2, <1>3 DEF Seen
<1>5. Stored' = Stored /\ \A c \in Convs : Unread(c)' = Unread(c)
  BY <1>3 DEF Stored, Unread
<1>6. /\ Moves({}, {}) /\ NewFits({}, {})
  <2>1. Moves({}, {})
    BY <1>3, <1>4, <1>5 DEF Moves
  <2>2. Carried(k) \subseteq seen.used
    BY <1>2 DEF Fits
  <2> QED BY <2>1, <2>2, <1>4 DEF NewFits
<1>7. (Storing(k) \/ k.do = "receipt") => Carried(k) = {k.id}
  BY DEF Storing, Carried
<1>8. LostInv(Q)'
  <2>1. Storing(k) => k.id \in Stored' \cup seen'.gone \cup seen'.trimmed
    BY <1>4, <1>5, <1>7
  <2> QED BY <2>1, <1>2, <1>4, <1>6, LostStays
<1>9. ActiveInv(Q)'
  <2>1. k.do = "receipt" => k.id \in seen'.excused
    BY <1>4, <1>7
  <2> QED BY <2>1, <1>2, <1>3, <1>6, ActiveStays
<1>10. ReadInv(Q)'
  BY <1>2, <1>3, <1>4, <1>6, ReadStays
<1>11. ASSUME NEW l \in Q PROVE Fits(l)'
  <2>1. PICK t \in Stores : l \in Continuation[t]
    BY <1>1, <1>2, HandlersAre
  <2>2. Incoming(l) => l.id \notin seen'.gone \ seen.gone
    BY <1>2, <1>4 DEF ApartFrom
  <2> QED BY <2>1, <2>2, <1>2, <1>6, FitStays
<1>12. SeenFits'
  BY <1>2, <1>6, SeenStays
<1>13. CountInv'
  BY <1>2, <1>3, <1>4, <1>5, CountStays
<1>14. Handlers(queue)' = Q /\ Apart(queue)'
  BY <1>1, <1>2, <1>3 DEF Handlers, Apart
<1> QED BY <1>6, <1>8, <1>9, <1>10, <1>11, <1>12, <1>13, <1>14, Assembled

LEMMA WriteKeeps ==
  ASSUME ServiceInv, MessagesInv, TypeOK', NEW s \in Stores, WriteEnds(s) \/ WriteFails(s)
  PROVE  MessagesInv' /\ Moved
<1>1. queue[s] # <<>> /\ QueueType(queue) /\ TypeOK
  BY TypesAre DEF ServiceInv, WriteEnds, WriteFails
<1>2. PICK q : q = [queue EXCEPT ![s] = Tail(@)]
  OBVIOUS
<1>3. PICK k : k = Head(queue[s])
  OBVIOUS
<1>4. /\ QueueType(q) /\ k \in Continuation[s]
      /\ Handlers(queue) = Handlers(q) \cup {k}
      /\ Apart(q) /\ ApartFrom(Handlers(q), k)
  BY <1>1, <1>2, <1>3, HandlerIsNext DEF MessagesInv
<1>5. Left(q, k)
  BY <1>1, <1>4 DEF Left, MessagesInv
<1>6. CASE WriteFails(s)
  BY <1>2, <1>3, <1>4, <1>5, <1>6, WriteFailsKeeps
<1>7. CASE WriteEnds(s)
  <2>1. CASE \/ k.do = "replaceGroups" /\ ReplaceGroups(k, q)
             \/ k.do = "upsertGroups" /\ UpsertGroups(k, q)
    BY <2>1, <1>4, <1>5, GroupsKeep
  <2>2. CASE k.do = "storeDirect" /\ StoreDirect(k, q)
    <3>1. k.id \in MessageIds /\ k.conv \in Users
      BY <2>2, <1>4, ContinuationFields
    <3>2. PICK item :
            item = [conv |-> k.conv, incoming |-> TRUE,
                    status |-> IF active = k.conv THEN "read" ELSE "delivered"]
      OBVIOUS
    <3>3. /\ StoreMessage(k.id, item, q) /\ item.incoming /\ item \in Message
          /\ item.status \in Arrived
      BY <2>2, <3>1, <3>2 DEF StoreDirect, Message, Convs, Arrived
    <3>4. Storing(k) /\ Incoming(k)
      BY <2>2 DEF Storing, Incoming
    <3> QED BY <3>1, <3>3, <3>4, <1>5, StoreMessageKeeps
  <2>3. CASE k.do = "storeGroup" /\ StoreMessage(k.id, k.item, q)
    <3>1. k.id \in MessageIds /\ k.item \in Message
      BY <2>3, <1>4, ContinuationFields
    <3>2. Storing(k) /\ (Incoming(k) <=> k.item.incoming)
      BY <2>3 DEF Storing, Incoming
    <3>3. k.item.incoming => k.item.status \in Arrived
      BY <2>3, <1>5 DEF Left, InvOf, Fits
    <3> QED BY <2>3, <3>1, <3>2, <3>3, <1>5, StoreMessageKeeps
  <2>4. CASE k.do = "receipt" /\ SendImmediateReceipt(k, q)
    BY <2>4, <1>4, <1>5, ContinuationFields, ReceiptKeeps
  <2>5. CASE k.do = "receipts" /\ SendReceipts(k, q)
    BY <2>5, <1>4, <1>5, ContinuationFields, ReceiptsKeep
  <2>6. CASE k.do = "open" /\ OpenConversation(q, k.conv)
    <3>1. k.conv \in Convs
      BY <2>6, <1>4, ContinuationFields
    <3>2. Carried(k) = {}
      BY <2>6 DEF Carried
    <3> QED BY <2>6, <3>1, <3>2, <1>5, LeftEmpty, OpenConversationKeeps
  <2>7. CASE k.do \in {"deselect", "configure"} /\ (Deselect(q) \/ Configure(q))
    BY <2>7, <1>5, DeselectKeeps
  <2> QED BY <1>2, <1>3, <1>7, <2>1, <2>2, <2>3, <2>4, <2>5, <2>6, <2>7 DEF WriteEnds
<1> QED BY <1>6, <1>7

----------------------------------------------------------------------------
\* The theorems

LEMMA EveryStepKeeps ==
  ASSUME ServiceInv, MessagesInv, TypeOK', Next
  PROVE  MessagesInv' /\ Moved
<1>1. CASE Packet
  BY <1>1, HelloAckKeeps, PresenceKeeps, DirectMessageKeeps, GroupIsKeeps, GroupMessageKeeps,
     ReadReceiptKeeps DEF Packet
<1>2. CASE Command
  <2>1. ASSUME NEW c \in Convs, OpenConversation(queue, c) PROVE MessagesInv' /\ Moved
    <3>1. PICK q : q = queue
      OBVIOUS
    <3>2. Before(q) /\ OpenConversation(q, c)
      BY <2>1, <3>1, NowBefore
    <3> QED BY <3>2, OpenConversationKeeps
  <2> QED BY <1>2, <2>1, StartConversationKeeps, SendMessageKeeps, ClearKeeps DEF Command
<1>3. CASE \E limit \in Limits, on \in BOOLEAN : ChangeConfig(limit, on)
  BY <1>3, ChangeConfigKeeps
<1>4. CASE \E s \in Stores : WriteEnds(s) \/ WriteFails(s)
  BY <1>4, WriteKeeps
<1> QED BY <1>1, <1>2, <1>3, <1>4 DEF Next

LEMMA InitKeeps == Init => MessagesInv
<1> SUFFICES ASSUME Init PROVE MessagesInv
  OBVIOUS
<1>1. Handlers(queue) = {} /\ Apart(queue)
  <2>1. \A s \in Stores : queue[s] = <<>>
    BY DEF Init
  <2> QED BY <2>1 DEF Handlers, Elems, Apart
<1>2. Stored = {}
  BY DEF Init, Stored
<1>3. SeenFits /\ LostInv({}) /\ ReadInv({})
  BY <1>2 DEF Init, SeenFits, LostInv, ReadInv
<1>4. ActiveInv({}) /\ CountInv
  BY DEF Init, ActiveInv, CountInv
<1> QED BY <1>1, <1>3, <1>4 DEF MessagesInv, InvOf

LEMMA EveryMove ==
  ASSUME ServiceInv, ServiceInv', MessagesInv, [Next]_vars
  PROVE  MessagesInv' /\ Moved
<1>1. CASE Next
  BY <1>1, EveryStepKeeps DEF ServiceInv
<1>2. CASE UNCHANGED vars
  <2>1. UNCHANGED <<messages, conversations, active, queue, seen>>
    BY <1>2 DEF vars, stores
  <2>2. PICK q : q = queue
    OBVIOUS
  <2>3. Before(q)
    BY <2>2, NowBefore
  <2>4. SeenSame /\ TypeOK'
    BY <2>1 DEF SeenSame, ServiceInv
  <2> QED BY <2>1, <2>2, <2>3, <2>4, QuietEnd DEF Before
<1> QED BY <1>1, <1>2

LEMMA MessagesInvHolds == Spec => [](ServiceInv /\ MessagesInv)
<1>1. ServiceInv /\ ServiceInv' /\ MessagesInv /\ [Next]_vars => MessagesInv'
  BY EveryMove
<1> QED BY <1>1, InitKeeps, ServiceInvHolds, PTL DEF Spec

\* Every handler that waits, with its fields, is one of Handlers(queue).
LEMMA WaitingHandlers ==
  ASSUME QueueType(queue)
  PROVE  /\ \A k \in Handlers(queue) : \E s \in Stores : k \in Waiting(s)
         /\ \A k \in Handlers(queue) : Receipting(k) => k \in Waiting("history")
<1>1. ASSUME NEW k \in Handlers(queue)
      PROVE  \E s \in Stores : k \in Waiting(s) /\ k \in Continuation[s]
  BY <1>1, HandlersAre DEF Waiting, Elems, Handlers
<1> QED BY <1>1, ContinuationFields DEF Receipting

\* Whichever handlers interleave and whichever writes fail, a received message
\* is held or a handler will store it, until it is cleared, dropped by the
\* limit, or given up as a file could not be written.
THEOREM NoMessageIsLost == Spec => []NothingIsLost
<1>1. ServiceInv /\ MessagesInv => NothingIsLost
  BY TypesAre, WaitingHandlers
     DEF ServiceInv, MessagesInv, InvOf, LostInv, NothingIsLost, Storing
<1> QED BY <1>1, MessagesInvHolds, PTL

\* A message of the open conversation is unread only while the handler that
\* stored it is still to look, or for a reason: no path marks a conversation as
\* open and leaves it unread.
THEOREM OpenConversationIsRead == Spec => []ActiveIsRead
<1>1. ServiceInv /\ MessagesInv => ActiveIsRead
  BY TypesAre, WaitingHandlers
     DEF ServiceInv, MessagesInv, InvOf, ActiveInv, ActiveIsRead, Receipting
<1> QED BY <1>1, MessagesInvHolds, PTL

\* A receipt is sent only for what the cache shows as read, and what is read has
\* a receipt, a handler that is to send it, or a reason to have none.
THEOREM ReceiptsMatch == Spec => []ReceiptsMatchReads
<1>1. ServiceInv /\ MessagesInv => ReceiptsMatchReads
  BY TypesAre, WaitingHandlers
     DEF ServiceInv, MessagesInv, InvOf, ReadInv, SeenFits, ReceiptsMatchReads, Receipting
<1> QED BY <1>1, MessagesInvHolds, PTL

\* An unread count never exceeds the unread messages that are held or were
\* dropped by the limit.
THEOREM UnreadCountsAreJustified == Spec => []UnreadIsJustified
<1>1. ServiceInv /\ MessagesInv => UnreadIsJustified
  <2> SUFFICES ASSUME ServiceInv, MessagesInv, NEW c \in Convs, conversations[c] # None
               PROVE  conversations[c] <= Cardinality(Unread(c)) + Cardinality(seen.trimmed)
    BY DEF UnreadIsJustified
  <2>1. PICK h \in Seen : h = seen
    BY TypesAre DEF ServiceInv
  <2>2. PICK dropped \in SUBSET MessageIds : dropped = seen.trimmed
    BY <2>1, SeenIsTyped
  <2>3. PICK unread \in SUBSET MessageIds : unread = Unread(c)
    BY DEF Unread, Stored
  <2>4. conversations[c] <= Cardinality(unread \cup dropped) /\ conversations[c] \in Nat
    BY <2>2, <2>3 DEF MessagesInv, InvOf, CountInv, ServiceInv, TypeOK
  <2>5. /\ IsFiniteSet(unread) /\ Cardinality(unread) \in Nat
        /\ IsFiniteSet(dropped) /\ Cardinality(dropped) \in Nat
        /\ Cardinality(unread \cap dropped) \in Nat
    BY Sizes
  <2>6. Cardinality(unread \cup dropped)
          = Cardinality(unread) + Cardinality(dropped) - Cardinality(unread \cap dropped)
    BY <2>5, FS_Union
  <2> QED BY <2>2, <2>3, <2>4, <2>5, <2>6
<1> QED BY <1>1, MessagesInvHolds, PTL

----------------------------------------------------------------------------
\* Received messages go forward

\* Every phase is one of MessageLife's.
LEMMA PhaseIsKnown ==
  ASSUME MessagesInv, NEW m \in MessageIds
  PROVE  Phase(m) \in DOMAIN Life!After
<1>1. m \in seen.received \cap Stored => messages[m].status \in Arrived
  BY DEF MessagesInv, InvOf, SeenFits
<1> QED BY <1>1 DEF Phase, Arrived, Life!After

LEMMA PhaseGoesForward ==
  ASSUME MessagesInv, Moved, NEW m \in MessageIds
  PROVE  Phase(m)' \in Life!After[Phase(m)]
<1>1. PICK A, B : Moves(A, B) /\ NewFits(A, B)
  BY DEF Moved
<1>2. /\ SeenFits
      /\ m \in seen.received \cap Stored => messages[m].status \in Arrived
  BY DEF MessagesInv, InvOf, SeenFits
<1>3. CASE m \notin seen.received
  <2>1. m \in seen'.received => m \notin Stored' \cup seen'.gone \cup seen'.trimmed
    BY <1>1, <1>3 DEF NewFits
  <2>2. Phase(m) = "unknown" /\ Phase(m)' \in {"unknown", "waiting"}
    BY <1>3, <2>1 DEF Phase
  <2> QED BY <2>2 DEF Life!After
<1>4. CASE m \in seen.received /\ m \in Stored
  <2>1. m \in seen'.received /\ m \notin A
    BY <1>1, <1>4 DEF Moves, NewFits
  <2>2. CASE m \in Stored'
    <3>1. messages'[m].status \in {messages[m].status, "read"}
      BY <1>1, <2>1, <2>2 DEF Moves
    <3>2. Phase(m) = messages[m].status /\ Phase(m)' = messages'[m].status
      BY <1>4, <2>1, <2>2 DEF Phase
    <3> QED BY <1>2, <1>4, <3>1, <3>2 DEF Arrived, Life!After
  <2>3. CASE m \notin Stored'
    <3>1. m \in seen'.gone \cup seen'.trimmed
      BY <1>1, <1>4, <2>3 DEF Moves
    <3>2. Phase(m) = messages[m].status /\ Phase(m)' = "gone"
      BY <1>4, <2>1, <2>3, <3>1 DEF Phase
    <3> QED BY <1>2, <1>4, <3>2 DEF Arrived, Life!After
  <2> QED BY <2>2, <2>3
<1>5. CASE m \in seen.received /\ m \notin Stored /\ m \in seen.gone \cup seen.trimmed
  <2>1. m \in seen'.received /\ m \notin Stored' /\ m \in seen'.gone \cup seen'.trimmed
    BY <1>1, <1>5 DEF Moves, NewFits
  <2>2. Phase(m) = "gone" /\ Phase(m)' = "gone"
    BY <1>5, <2>1 DEF Phase
  <2> QED BY <2>2 DEF Life!After
<1>6. CASE m \in seen.received /\ m \notin Stored /\ m \notin seen.gone \cup seen.trimmed
  <2>1. m \in seen'.received
    BY <1>1, <1>6 DEF Moves
  <2>2. m \in Stored' => messages'[m].status \in Arrived
    BY <1>1, <1>6, <2>1 DEF Moves, NewFits
  <2>3. Phase(m) = "waiting" /\ Phase(m)' \in {"waiting", "delivered", "read", "gone"}
    BY <1>6, <2>1, <2>2 DEF Phase, Arrived
  <2> QED BY <2>3 DEF Life!After
<1> QED BY <1>3, <1>4, <1>5, <1>6

\* A message whose sender was sent a receipt is read, or no longer held.
LEMMA ReceiptIsForRead ==
  ASSUME MessagesInv, NEW m \in seen.receipts
  PROVE  Phase(m) \in {"read", "gone"}
<1>1. PICK Q : Q = Handlers(queue)
  OBVIOUS
<1>2. LostInv(Q) /\ (\A k \in Q : Fits(k)) /\ SeenFits
  BY <1>1 DEF MessagesInv, InvOf
<1>3. m \in seen.received
  BY <1>2 DEF SeenFits
<1>4. CASE m \in Stored
  BY <1>2, <1>3, <1>4 DEF SeenFits, Phase
<1>5. CASE m \notin Stored
  <2>1. ASSUME NEW k \in Q, Storing(k), k.id = m PROVE FALSE
    <3>1. Incoming(k) \/ (k.do = "storeGroup" /\ ~ k.item.incoming)
      BY <2>1 DEF Storing, Incoming
    <3> QED BY <1>2, <1>3, <2>1, <3>1 DEF Fits
  <2>2. m \in seen.gone \cup seen.trimmed
    BY <1>2, <1>3, <1>5, <2>1 DEF LostInv
  <2> QED BY <1>3, <1>5, <2>2 DEF Phase
<1> QED BY <1>4, <1>5

LEMMA LifeStep ==
  ASSUME ServiceInv, ServiceInv', MessagesInv, Life!ReceiptsAreForRead', [Next]_vars
  PROVE  Life!GoForward
<1>1. PICK f : f = [m \in MessageIds |-> Phase(m)]
  OBVIOUS
<1>2. PICK g : g = [m \in MessageIds |-> Phase(m)']
  OBVIOUS
<1>3. Moved
  BY EveryMove
<1>4. \A m \in MessageIds : f[m] \in DOMAIN Life!After /\ g[m] \in Life!After[f[m]]
  BY <1>1, <1>2, <1>3, PhaseIsKnown, PhaseGoesForward
<1>5. \A p \in DOMAIN Life!After : Life!After[p] \subseteq DOMAIN Life!After
  BY DEF Life!After
<1>6. g \in [MessageIds -> DOMAIN Life!After]
  BY <1>2, <1>4, <1>5
<1>7. seen'.receipts \in SUBSET MessageIds /\ seen.receipts \subseteq seen'.receipts
  <2>1. PICK h \in Seen : h = seen'
    BY DEF ServiceInv, TypeOK
  <2>2. seen'.receipts \in SUBSET MessageIds
    BY <2>1, SeenIsTyped
  <2> QED BY <2>2, <1>3 DEF Moved, Moves
<1>8. \A m \in seen'.receipts : g[m] \in {"read", "gone"}
  BY <1>2, <1>7 DEF Life!ReceiptsAreForRead
<1> QED BY <1>1, <1>2, <1>4, <1>6, <1>7, <1>8 DEF Life!GoForward

\* No sender hears of a message that is still to be read, or that waits to be
\* stored.
THEOREM ReceiptsAreForReadMessages == Spec => []Life!ReceiptsAreForRead
<1>1. ASSUME ServiceInv, MessagesInv PROVE Life!ReceiptsAreForRead
  <2>1. PICK h \in Seen : h = seen
    BY <1>1, TypesAre DEF ServiceInv
  <2>2. seen.receipts \subseteq MessageIds
    BY <2>1, SeenIsTyped
  <2> QED BY <1>1, <2>2, ReceiptIsForRead DEF Life!ReceiptsAreForRead
<1> QED BY <1>1, MessagesInvHolds, PTL

\* ChatService implements MessageLife: whichever handlers, commands and failed
\* writes interleave, a received message only goes forward.  None that was read
\* becomes unread, and none that was cleared or dropped comes back.
THEOREM MessagesGoForward == Spec => ReceivedGoForward
<1>1. Init => Life!Init
  <2> SUFFICES ASSUME Init PROVE Life!Init
    OBVIOUS
  <2>1. seen.received = {} /\ seen.receipts = {}
    BY DEF Init
  <2>2. [m \in MessageIds |-> Phase(m)] = [m \in MessageIds |-> "unknown"]
    BY <2>1 DEF Phase
  <2> QED BY <2>1, <2>2 DEF Life!Init
<1>2. ServiceInv /\ ServiceInv' /\ MessagesInv /\ Life!ReceiptsAreForRead' /\ [Next]_vars
        => Life!GoForward
  BY LifeStep
<1> QED BY <1>1, <1>2, MessagesInvHolds, ReceiptsAreForReadMessages, PTL
        DEF Spec, ReceivedGoForward, Life!Spec

----------------------------------------------------------------------------
\* The group cache follows the server: unless a group packet overtook the last
\* hello-ack, the last handler that is to replace the groups has those the
\* packets told, and without one the cache has them.

Replacing(x, i) == x[i].do = "replaceGroups"

NoneReplaces(x) == \A i \in DOMAIN x : ~ Replacing(x, i)

LastReplacesWith(x, gs) ==
  \A i \in DOMAIN x :
    Replacing(x, i) /\ (\A j \in DOMAIN x : j > i => ~ Replacing(x, j)) => x[i].groups = gs

FollowInv(x) ==
  \/ seen.stale
  \/ LastReplacesWith(x, seen.told) /\ (NoneReplaces(x) => groups = seen.told)

LEMMA AppendFollows ==
  ASSUME NEW T, NEW x \in Seq(T), NEW k \in T, NEW gs
  PROVE  /\ k.do # "replaceGroups" =>
              /\ NoneReplaces(Append(x, k)) => NoneReplaces(x)
              /\ LastReplacesWith(x, gs) => LastReplacesWith(Append(x, k), gs)
         /\ k.do = "replaceGroups" /\ k.groups = gs =>
              ~ NoneReplaces(Append(x, k)) /\ LastReplacesWith(Append(x, k), gs)
<1>1. PICK y : y = Append(x, k)
  OBVIOUS
<1>2. PICK n \in Nat : n = Len(x)
  OBVIOUS
<1>3. /\ DOMAIN y = 1 .. n + 1 /\ DOMAIN x = 1 .. n /\ y[n + 1] = k
      /\ \A i \in 1 .. n : y[i] = x[i] /\ i \in 1 .. n + 1 /\ n + 1 > i
      /\ n + 1 \in 1 .. n + 1
      /\ \A i \in 1 .. n + 1 : i \in 1 .. n \/ i = n + 1
  BY <1>1, <1>2
<1>4. ASSUME k.do # "replaceGroups", NoneReplaces(y) PROVE NoneReplaces(x)
  BY <1>3, <1>4 DEF NoneReplaces, Replacing
<1>5. ASSUME k.do # "replaceGroups", LastReplacesWith(x, gs) PROVE LastReplacesWith(y, gs)
  <2> SUFFICES ASSUME NEW i \in DOMAIN y, Replacing(y, i),
                      \A j \in DOMAIN y : j > i => ~ Replacing(y, j)
               PROVE  y[i].groups = gs
    BY DEF LastReplacesWith
  <2>1. i \in 1 .. n
    BY <1>3, <1>5 DEF Replacing
  <2>2. Replacing(x, i) /\ \A j \in DOMAIN x : j > i => ~ Replacing(x, j)
    BY <1>3, <2>1 DEF Replacing
  <2> QED BY <1>3, <1>5, <2>1, <2>2 DEF LastReplacesWith
<1>6. ASSUME k.do = "replaceGroups", k.groups = gs
      PROVE  ~ NoneReplaces(y) /\ LastReplacesWith(y, gs)
  <2>1. Replacing(y, n + 1)
    BY <1>3, <1>6 DEF Replacing
  <2>2. ~ NoneReplaces(y)
    BY <1>3, <2>1 DEF NoneReplaces
  <2>3. LastReplacesWith(y, gs)
    BY <1>3, <1>6, <2>1 DEF LastReplacesWith
  <2> QED BY <2>2, <2>3
<1> QED BY <1>1, <1>4, <1>5, <1>6

LEMMA TailFollows ==
  ASSUME NEW T, NEW x \in Seq(T), x # <<>>, NEW gs
  PROVE  /\ LastReplacesWith(x, gs) => LastReplacesWith(Tail(x), gs)
         /\ Head(x).do # "replaceGroups" => (NoneReplaces(Tail(x)) => NoneReplaces(x))
         /\ Head(x).do = "replaceGroups" /\ LastReplacesWith(x, gs) =>
              (NoneReplaces(Tail(x)) => Head(x).groups = gs)
<1>1. PICK y : y = Tail(x)
  OBVIOUS
<1>2. PICK n \in Nat : n = Len(x) /\ n >= 1
  OBVIOUS
<1>3. /\ Len(y) = n - 1 /\ Head(x) = x[1] /\ DOMAIN x = 1 .. n
      /\ \A i \in 1 .. n - 1 : y[i] = x[i + 1]
  BY <1>1, <1>2
<1>4. DOMAIN y = 1 .. n - 1
  BY <1>1, <1>2, <1>3
<1>5. /\ \A i \in 1 .. n - 1 : i + 1 \in 1 .. n
      /\ \A i \in 1 .. n : i = 1 \/ (i - 1 \in 1 .. n - 1 /\ (i - 1) + 1 = i)
      /\ 1 \in 1 .. n
  BY <1>2
<1>6. \A i \in DOMAIN y : Replacing(y, i) <=> Replacing(x, i + 1)
  BY <1>3, <1>4 DEF Replacing
<1>7. ASSUME LastReplacesWith(x, gs) PROVE LastReplacesWith(y, gs)
  <2> SUFFICES ASSUME NEW i \in DOMAIN y, Replacing(y, i),
                      \A j \in DOMAIN y : j > i => ~ Replacing(y, j)
               PROVE  y[i].groups = gs
    BY DEF LastReplacesWith
  <2>1. Replacing(x, i + 1) /\ i + 1 \in DOMAIN x
    BY <1>3, <1>4, <1>5, <1>6
  <2>2. ASSUME NEW j \in DOMAIN x, j > i + 1 PROVE ~ Replacing(x, j)
    <3>1. j - 1 \in DOMAIN y /\ (j - 1) + 1 = j /\ j - 1 > i
      BY <2>2, <1>3, <1>4, <1>5
    <3> QED BY <3>1, <1>6
  <2>3. x[i + 1].groups = gs
    BY <1>7, <2>1, <2>2 DEF LastReplacesWith
  <2> QED BY <2>3, <1>3, <1>4
<1>8. ASSUME NoneReplaces(y), NEW i \in DOMAIN x, i # 1 PROVE ~ Replacing(x, i)
  <2>1. i - 1 \in DOMAIN y /\ (i - 1) + 1 = i
    BY <1>3, <1>4, <1>5, <1>8
  <2>2. ~ Replacing(y, i - 1)
    BY <1>8, <2>1 DEF NoneReplaces
  <2> QED BY <1>6, <2>1, <2>2
<1>9. ASSUME Head(x).do # "replaceGroups", NoneReplaces(y) PROVE NoneReplaces(x)
  BY <1>9, <1>8, <1>3 DEF NoneReplaces, Replacing
<1>10. ASSUME Head(x).do = "replaceGroups", LastReplacesWith(x, gs), NoneReplaces(y)
       PROVE  Head(x).groups = gs
  <2>1. Replacing(x, 1) /\ 1 \in DOMAIN x
    BY <1>10, <1>3, <1>5 DEF Replacing
  <2>2. ASSUME NEW j \in DOMAIN x, j > 1 PROVE ~ Replacing(x, j)
    <3>1. j # 1
      BY <2>2, <1>3
    <3> QED BY <3>1, <1>8, <1>10
  <2>3. x[1].groups = gs
    BY <1>10, <2>1, <2>2 DEF LastReplacesWith
  <2> QED BY <2>3, <1>3
<1> QED BY <1>1, <1>7, <1>9, <1>10

\* A step that leaves the groups and what was told of them alone.
ToldSame == seen'.told = seen.told /\ seen'.stale = seen.stale /\ groups' = groups

LEMMA OtherStore ==
  ASSUME NEW q, QueueType(q), NEW s \in Stores, s # "users", NEW k, Wait(q, s, k)
  PROVE  queue'["users"] = q["users"]
BY StoresAre DEF Wait, QueueType

LEMMA UpsertTold ==
  ASSUME ServiceInv, NEW m \in MessageIds, NEW item \in Message, NEW h \in Seen,
         UpsertMessage(m, item, h), h.told = seen.told, h.stale = seen.stale
  PROVE  seen'.told = seen.told /\ seen'.stale = seen.stale
<1>1. Memory
  BY TypesAre DEF ServiceInv
<1>2. seen' = [h EXCEPT !.trimmed = seen'.trimmed]
  BY <1>1, UpsertMessageEffect
<1> QED BY <1>2 DEF Seen

\* Steps that append nothing to the user store's queue.
LEMMA ToldStays ==
  ASSUME ServiceInv, QueueType(queue),
         \/ Command
         \/ \E limit \in Limits, on \in BOOLEAN : ChangeConfig(limit, on)
         \/ \E u \in Users : UserOnline(u) \/ UserOffline(u)
         \/ \E m \in MessageIds : ReadReceipt(m)
         \/ \E m \in MessageIds, g \in Groups : GroupMessage(m, g)
  PROVE  ToldSame /\ queue'["users"] = queue["users"]
<1>1. PICK q : q = queue
  OBVIOUS
<1>2. QueueType(q) /\ "history" \in Stores /\ seen \in Seen
  BY <1>1, StoresAre, TypesAre DEF ServiceInv
<1>3. ASSUME NEW c \in Convs, OpenConversation(queue, c) \/ StartConversation(c)
      PROVE  ToldSame /\ queue'["users"] = queue["users"]
  <2>1. UNCHANGED <<seen, groups>> /\ \E k : Wait(q, "history", k)
    BY <1>1, <1>3 DEF OpenConversation, StartConversation
  <2> QED BY <2>1, <1>1, <1>2, OtherStore DEF ToldSame
<1>4. ASSUME NEW m \in MessageIds, NEW c \in Convs, NEW ok \in BOOLEAN, SendMessage(m, c, ok)
      PROVE  ToldSame /\ queue'["users"] = queue["users"]
  <2>1. PICK item \in Message :
          item = [conv |-> c, incoming |-> FALSE, status |-> IF ok THEN "sent" ELSE "failed"]
    BY DEF Message
  <2>2. PICK own \in SUBSET (MessageIds \X Groups) :
          own = IF ok /\ c \in Groups THEN seen.echoes \cup {<<m, c>>} ELSE seen.echoes
    <3>1. PICK old \in SUBSET (MessageIds \X Groups) : old = seen.echoes
      BY <1>2, SeenIsTyped
    <3>2. CASE ok /\ c \in Groups
      <4>1. <<m, c>> \in MessageIds \X Groups
        BY <3>2
      <4>2. old \cup {<<m, c>>} \in SUBSET (MessageIds \X Groups)
        BY <4>1
      <4> QED BY <3>1, <3>2, <4>2
    <3>3. CASE ~ (ok /\ c \in Groups)
      BY <3>1, <3>3
    <3> QED BY <3>2, <3>3
  <2>3. PICK h : h = [seen EXCEPT !.used = @ \cup {m}, !.echoes = own]
    OBVIOUS
  <2>4. h \in Seen /\ h.told = seen.told /\ h.stale = seen.stale
    BY <1>2, <2>3 DEF Seen
  <2>5. h = [seen EXCEPT !.used = @ \cup {m},
                         !.echoes = IF ok /\ c \in Groups THEN @ \cup {<<m, c>>} ELSE @]
    BY <1>2, <2>2, <2>3 DEF Seen
  <2>6. UpsertMessage(m, item, h) /\ UNCHANGED <<groups, queue>>
    BY <1>4, <2>1, <2>5 DEF SendMessage
  <2> QED BY <2>4, <2>6, UpsertTold DEF ToldSame
<1>5. ASSUME ClearLocalHistory PROVE ToldSame /\ queue'["users"] = queue["users"]
  <2>1. /\ seen' = [seen EXCEPT !.gone = @ \cup Stored] /\ groups' = groups
        /\ Wait(q, "history", [do |-> "deselect"])
    BY <1>1, <1>5 DEF ClearLocalHistory
  <2>2. seen'.told = seen.told /\ seen'.stale = seen.stale
    BY <1>2, <2>1 DEF Seen
  <2> QED BY <2>1, <2>2, <1>1, <1>2, OtherStore DEF ToldSame
<1>6. ASSUME NEW limit \in Limits, NEW on \in BOOLEAN, ChangeConfig(limit, on)
      PROVE  ToldSame /\ queue'["users"] = queue["users"]
  <2>1. /\ Trim(messages, {}, limit, seen) /\ groups' = groups
        /\ Wait(q, "history", [do |-> "configure"]) \/ queue' = q
    BY <1>1, <1>6 DEF ChangeConfig, Finish
  <2>2. \E ids : seen' = [seen EXCEPT !.trimmed = @ \cup ids]
    BY <2>1 DEF Trim
  <2>3. seen'.told = seen.told /\ seen'.stale = seen.stale
    BY <1>2, <2>2 DEF Seen
  <2> QED BY <2>1, <2>3, <1>1, <1>2, OtherStore DEF ToldSame
<1>7. ASSUME NEW u \in Users, UserOnline(u) \/ UserOffline(u)
      PROVE  ToldSame /\ queue'["users"] = queue["users"]
  BY <1>7 DEF UserOnline, UserOffline, ToldSame
<1>8. ASSUME NEW m \in MessageIds, ReadReceipt(m)
      PROVE  ToldSame /\ queue'["users"] = queue["users"]
  BY <1>8 DEF ReadReceipt, ToldSame
<1>9. ASSUME NEW m \in MessageIds, NEW g \in Groups, GroupMessage(m, g)
      PROVE  ToldSame /\ queue'["users"] = queue["users"]
  <2>1. /\ seen' = [seen EXCEPT !.used = @ \cup {m}, !.echoes = @ \ {<<m, g>>},
                        !.received = IF m \notin seen.used THEN @ \cup {m} ELSE @]
        /\ groups' = groups /\ \E k : Wait(q, "history", k)
    BY <1>1, <1>9 DEF GroupMessage
  <2>2. seen'.told = seen.told /\ seen'.stale = seen.stale
    BY <1>2, <2>1 DEF Seen
  <2> QED BY <2>1, <2>2, <1>1, <1>2, OtherStore DEF ToldSame
<1> QED BY <1>3, <1>4, <1>5, <1>6, <1>7, <1>8, <1>9 DEF Command

\* What a handler of which the rest of the queue is q does, unless it replaces
\* the groups.
LEMMA HandlerTold ==
  ASSUME ServiceInv, NEW q, QueueType(q), NEW s \in Stores, NEW k \in Continuation[s],
         \/ k.do = "upsertGroups"  /\ UpsertGroups(k, q)
         \/ k.do = "storeDirect"   /\ StoreDirect(k, q)
         \/ k.do = "storeGroup"    /\ StoreMessage(k.id, k.item, q)
         \/ k.do = "receipt"       /\ SendImmediateReceipt(k, q)
         \/ k.do = "receipts"      /\ SendReceipts(k, q)
         \/ k.do = "open"          /\ OpenConversation(q, k.conv)
         \/ k.do = "deselect"      /\ Deselect(q)
         \/ k.do = "configure"     /\ Configure(q)
  PROVE  ToldSame /\ queue'["users"] = q["users"]
<1>1. "history" \in Stores /\ seen \in Seen
  BY StoresAre, TypesAre DEF ServiceInv
<1>2. ASSUME NEW m \in MessageIds, NEW item \in Message, StoreMessage(m, item, q)
      PROVE  ToldSame /\ queue'["users"] = q["users"]
  <2>1. PICK h \in Seen : h = seen
    BY <1>1
  <2>2. /\ UpsertMessage(m, item, h) /\ groups' = groups
        /\ Wait(q, "history", [do |-> "receipt", id |-> m, item |-> item])
    BY <1>2, <2>1 DEF StoreMessage
  <2> QED BY <2>1, <2>2, <1>1, UpsertTold, OtherStore DEF ToldSame
<1>3. CASE k.do = "upsertGroups" /\ UpsertGroups(k, q)
  <2>1. UNCHANGED <<groups, seen>> /\ (Finish(q) \/ \E l : Wait(q, "history", l))
    BY <1>3 DEF UpsertGroups
  <2> QED BY <2>1, <1>1, OtherStore DEF ToldSame, Finish
<1>4. CASE k.do = "storeDirect" /\ StoreDirect(k, q)
  <2>1. k.id \in MessageIds /\ k.conv \in Users
    BY <1>4, ContinuationFields
  <2>2. PICK item :
          item = [conv |-> k.conv, incoming |-> TRUE,
                  status |-> IF active = k.conv THEN "read" ELSE "delivered"]
    OBVIOUS
  <2>3. StoreMessage(k.id, item, q) /\ item \in Message
    BY <1>4, <2>1, <2>2 DEF StoreDirect, Message, Convs
  <2> QED BY <2>1, <2>3, <1>2
<1>5. CASE k.do = "storeGroup" /\ StoreMessage(k.id, k.item, q)
  BY <1>5, <1>2, ContinuationFields
<1>6. CASE k.do = "receipt" /\ SendImmediateReceipt(k, q)
  <2>1. /\ groups' = groups /\ queue' = q
        /\ \E ids : seen' = [seen EXCEPT !.excused = ids] \/ seen' = [seen EXCEPT !.receipts = ids]
    BY <1>6 DEF SendImmediateReceipt, SendReadReceipts, stores, Finish
  <2> QED BY <2>1, <1>1 DEF Seen, ToldSame
<1>7. CASE k.do = "receipts" /\ SendReceipts(k, q)
  <2>1. /\ groups' = groups /\ queue' = q
        /\ \E ids : seen' = [seen EXCEPT !.excused = ids] \/ seen' = [seen EXCEPT !.receipts = ids]
    BY <1>7 DEF SendReceipts, SendReadReceipts, stores, Finish
  <2> QED BY <2>1, <1>1 DEF Seen, ToldSame
<1>8. CASE k.do = "open" /\ OpenConversation(q, k.conv)
  <2>1. UNCHANGED <<groups, seen>> /\ \E l : Wait(q, "history", l)
    BY <1>8 DEF OpenConversation
  <2> QED BY <2>1, <1>1, OtherStore DEF ToldSame
<1>9. CASE Deselect(q) \/ Configure(q)
  BY <1>9 DEF Deselect, Configure, stores, Finish, ToldSame
<1> QED BY <1>3, <1>4, <1>5, <1>6, <1>7, <1>8, <1>9

Follows == FollowInv(queue["users"])

LEMMA SameFollows ==
  ASSUME Follows, ToldSame, queue'["users"] = queue["users"]
  PROVE  Follows'
BY DEF Follows, FollowInv, ToldSame, NoneReplaces, LastReplacesWith, Replacing

LEMMA PacketFollows ==
  ASSUME ServiceInv, Follows, Packet
  PROVE  Follows'
<1>1. PICK q : q = queue
  OBVIOUS
<1>2. /\ QueueType(queue) /\ QueueType(q) /\ seen \in Seen /\ "users" \in Stores
      /\ q["users"] \in Seq(Continuation["users"])
  BY <1>1, StoresAre, TypesAre DEF ServiceInv, QueueType
<1>3. ASSUME NEW online \in SUBSET Users, NEW directs \in SUBSET Users,
             NEW gs \in GroupCache, HelloAck(online, gs, directs)
      PROVE  Follows'
  <2>1. [do |-> "replaceGroups", groups |-> gs, directs |-> directs] \in Continuation["users"]
    BY StoresAre
  <2>2. PICK k \in Continuation["users"] :
          k = [do |-> "replaceGroups", groups |-> gs, directs |-> directs]
    BY <2>1
  <2>3. queue'["users"] = Append(q["users"], k)
    BY <1>1, <1>2, <1>3, <2>2 DEF HelloAck, Wait, QueueType
  <2>4. seen'.told = gs
    BY <1>2, <1>3 DEF HelloAck, Seen
  <2>5. ~ NoneReplaces(queue'["users"]) /\ LastReplacesWith(queue'["users"], gs)
    BY <1>2, <2>2, <2>3, AppendFollows
  <2> QED BY <2>4, <2>5 DEF Follows, FollowInv, NoneReplaces, LastReplacesWith, Replacing
<1>4. ASSUME NEW m \in MessageIds, NEW u \in Users, DirectMessage(m, u)
      PROVE  Follows'
  <2>1. [do |-> "storeDirect", id |-> m, conv |-> u] \in Continuation["users"]
    BY StoresAre
  <2>2. PICK k \in Continuation["users"] : k = [do |-> "storeDirect", id |-> m, conv |-> u]
    BY <2>1
  <2>3. queue'["users"] = Append(q["users"], k) /\ k.do # "replaceGroups"
    BY <1>1, <1>2, <1>4, <2>2 DEF DirectMessage, Wait, QueueType
  <2>4. ToldSame
    BY <1>2, <1>4 DEF DirectMessage, Seen, ToldSame
  <2>5. PICK gs : gs = seen.told
    OBVIOUS
  <2>6. /\ NoneReplaces(queue'["users"]) => NoneReplaces(q["users"])
        /\ LastReplacesWith(q["users"], gs) => LastReplacesWith(queue'["users"], gs)
    BY <1>2, <2>3, AppendFollows
  <2>7. FollowInv(q["users"])
    BY <1>1 DEF Follows
  <2> QED BY <2>4, <2>5, <2>6, <2>7
          DEF Follows, FollowInv, ToldSame, NoneReplaces, LastReplacesWith, Replacing
<1>5. ASSUME NEW g \in Groups, NEW x \in Versions \cup {None}, GroupIs(g, x)
      PROVE  Follows'
  <2>1. queue'["users"] = queue["users"]
    <3>1. "groups" \in Stores /\ (queue' = q \/ \E k : Wait(q, "groups", k))
      BY <1>1, <1>5, StoresAre DEF GroupIs, Finish
    <3> QED BY <3>1, <1>1, <1>2, OtherStore
  <2>2. /\ groups' = [groups EXCEPT ![g] = x]
        /\ seen'.told = [seen.told EXCEPT ![g] = x]
        /\ seen'.stale = (seen.stale \/ \E k \in Waiting("users") : k.do = "replaceGroups")
    BY <1>2, <1>5 DEF GroupIs, Seen
  <2>3. CASE seen.stale \/ \E k \in Waiting("users") : k.do = "replaceGroups"
    <3>1. seen'.stale
      BY <2>2, <2>3
    <3> QED BY <3>1 DEF Follows, FollowInv
  <2>4. CASE ~ seen.stale /\ ~ \E k \in Waiting("users") : k.do = "replaceGroups"
    <3>1. NoneReplaces(queue["users"])
      BY <2>4 DEF NoneReplaces, Replacing, Waiting
    <3>2. groups = seen.told
      BY <2>4, <3>1 DEF Follows, FollowInv
    <3>3. groups' = seen'.told
      BY <2>2, <3>2
    <3> QED BY <2>1, <3>1, <3>3
            DEF Follows, FollowInv, NoneReplaces, LastReplacesWith, Replacing
  <2> QED BY <2>3, <2>4
<1>6. CASE \/ \E u \in Users : UserOnline(u) \/ UserOffline(u)
           \/ \E m \in MessageIds : ReadReceipt(m)
           \/ \E m \in MessageIds, g \in Groups : GroupMessage(m, g)
  BY <1>2, <1>6, ToldStays, SameFollows
<1> QED BY <1>3, <1>4, <1>5, <1>6 DEF Packet

LEMMA WriteFollows ==
  ASSUME ServiceInv, Follows, NEW s \in Stores, WriteEnds(s) \/ WriteFails(s)
  PROVE  Follows'
<1>1. queue[s] # <<>> /\ QueueType(queue) /\ seen \in Seen
  BY TypesAre DEF ServiceInv, WriteEnds, WriteFails
<1>2. PICK q : q = [queue EXCEPT ![s] = Tail(@)]
  OBVIOUS
<1>3. PICK k : k = Head(queue[s])
  OBVIOUS
<1>4. QueueType(q) /\ k \in Continuation[s]
  BY <1>1, <1>2, <1>3, HandlerIsNext
<1>5. PICK gs : gs = seen.told
  OBVIOUS
<1>6. PICK x : x = queue["users"]
  OBVIOUS
<1>7. FollowInv(x)
  BY <1>6 DEF Follows
\* The rest of the users' queue.
<1>8. /\ LastReplacesWith(x, gs) => LastReplacesWith(q["users"], gs)
      /\ k.do # "replaceGroups" => (NoneReplaces(q["users"]) => NoneReplaces(x))
      /\ k.do = "replaceGroups" /\ LastReplacesWith(x, gs) =>
           (NoneReplaces(q["users"]) => k.groups = gs)
  <2>1. CASE s = "users"
    <3>1. x \in Seq(Continuation["users"]) /\ x # <<>> /\ k = Head(x) /\ q["users"] = Tail(x)
      BY <2>1, <1>1, <1>2, <1>3, <1>6 DEF QueueType
    <3> QED BY <3>1, TailFollows
  <2>2. CASE s # "users"
    <3>1. q["users"] = x /\ k.do # "replaceGroups"
      BY <2>2, <1>2, <1>4, <1>6, StoresAre, ContinuationFields DEF QueueType
    <3> QED BY <3>1
  <2> QED BY <2>1, <2>2
<1>9. CASE WriteFails(s)
  <2>1. /\ groups' = groups /\ queue' = q /\ seen'.told = seen.told
        /\ seen'.stale = (seen.stale \/ k.do = "replaceGroups")
    BY <1>1, <1>2, <1>3, <1>9 DEF WriteFails, Seen, stores
  <2>2. CASE seen.stale \/ k.do = "replaceGroups"
    <3>1. seen'.stale
      BY <2>1, <2>2
    <3> QED BY <3>1 DEF Follows, FollowInv
  <2>3. CASE ~ seen.stale /\ k.do # "replaceGroups"
    BY <2>1, <2>3, <1>5, <1>7, <1>8
       DEF Follows, FollowInv, NoneReplaces, LastReplacesWith, Replacing
  <2> QED BY <2>2, <2>3
<1>10. CASE WriteEnds(s)
  <2>1. CASE k.do = "replaceGroups" /\ ReplaceGroups(k, q)
    <3>1. groups' = k.groups /\ seen' = seen /\ \E l : Wait(q, "groups", l)
      BY <2>1 DEF ReplaceGroups
    <3>2. queue'["users"] = q["users"]
      BY <3>1, <1>4, StoresAre, OtherStore
    <3> QED BY <2>1, <3>1, <3>2, <1>5, <1>7, <1>8
            DEF Follows, FollowInv, NoneReplaces, LastReplacesWith, Replacing
  <2>2. CASE k.do # "replaceGroups"
    <3>1. ToldSame /\ queue'["users"] = q["users"]
      BY <2>2, <1>2, <1>3, <1>4, <1>10, HandlerTold DEF WriteEnds
    <3> QED BY <2>2, <3>1, <1>5, <1>7, <1>8
            DEF Follows, FollowInv, ToldSame, NoneReplaces, LastReplacesWith, Replacing
  <2> QED BY <2>1, <2>2, <1>2, <1>3, <1>10 DEF WriteEnds
<1> QED BY <1>9, <1>10

LEMMA FollowsHolds == Spec => [](ServiceInv /\ Follows)
<1>1. Init => Follows
  BY StoresAre DEF Init, Follows, FollowInv, LastReplacesWith
<1>2. ServiceInv /\ Follows /\ [Next]_vars => Follows'
  <2> SUFFICES ASSUME ServiceInv, Follows, [Next]_vars PROVE Follows'
    OBVIOUS
  <2>1. QueueType(queue)
    BY TypesAre DEF ServiceInv
  <2>2. CASE Packet
    BY <2>2, PacketFollows
  <2>3. CASE Command \/ \E limit \in Limits, on \in BOOLEAN : ChangeConfig(limit, on)
    BY <2>1, <2>3, ToldStays, SameFollows
  <2>4. CASE \E s \in Stores : WriteEnds(s) \/ WriteFails(s)
    BY <2>4, WriteFollows
  <2>5. CASE UNCHANGED vars
    BY <2>5, SameFollows DEF vars, stores, ToldSame
  <2> QED BY <2>2, <2>3, <2>4, <2>5 DEF Next
<1> QED BY <1>1, <1>2, ServiceInvHolds, PTL DEF Spec

\* The group cache is what the packets say, unless a hello-ack is still to
\* replace it, or its older groups came after a newer packet's: no other
\* interleaving of hello-acks, group packets and failed writes leaves it
\* different.
THEOREM GroupsAreTheServers == Spec => []GroupsFollowServer
<1>1. ServiceInv /\ Follows => GroupsFollowServer
  BY DEF Follows, FollowInv, NoneReplaces, Replacing, GroupsFollowServer, Waiting
<1> QED BY <1>1, FollowsHolds, PTL

=============================================================================
