-------------------------- MODULE HistoryFilesProofs --------------------------
(***************************************************************************)
(* Proofs about HistoryFiles: its types, the order of the writes, and that  *)
(* each of the two files implements DurableCache.                           *)
(***************************************************************************)
EXTENDS HistoryFiles, FiniteSetTheorems, TLAPS

----------------------------------------------------------------------------
\* Types

SomeArrays == [Files -> Array]

LEMMA EditedType ==
  ASSUME NEW a \in Array, NEW ids \in SUBSET (MessageIds \cup Convs)
  PROVE  /\ Edited(a, ids) \in Array
         /\ Edited(a, ids).ids = ids /\ Edited(a, ids).v = a.v + 1
BY DEF Edited, Array

LEMMA ConvsOfType ==
  ASSUME NEW ms \in SUBSET MessageIds
  PROVE  ConvsOf(ms) \in SUBSET Convs
BY FileConstants DEF ConvsOf

LEMMA TrimmedType ==
  ASSUME NEW ids, NEW max, NEW kept \in Trimmed(ids, max)
  PROVE  kept \in SUBSET ids
BY DEF Trimmed

Msgs(arrays) == arrays["messages"].ids

\* The messages that a change stores.
Stored(new) == Msgs(new) \ Msgs(memory)

\* What Persist does to the queue, entry by entry.
Persisted(new, detached, old, clears) ==
  /\ memory' = new
  /\ queue' \in Seq(Snapshot)
  /\ Len(queue') = Len(queue) + 1
  /\ \A i \in 1 .. Len(queue) :
       /\ queue'[i].asked = queue[i].asked
       /\ queue'[i].clears = queue[i].clears \ Stored(new)
       /\ \A f \in Files : queue'[i].array[f] =
            IF f \in detached /\ queue[i].array[f] = Live THEN old[f]
            ELSE queue[i].array[f]
  /\ queue'[Len(queue')].asked = [f \in Files |-> new[f].v]
  /\ queue'[Len(queue')].clears = clears
  /\ \A f \in Files : queue'[Len(queue')].array[f] = Live

LEMMA PersistQueue ==
  ASSUME NEW new \in SomeArrays, NEW detached, NEW old \in SomeArrays,
         NEW clears \in SUBSET MessageIds,
         queue \in Seq(Snapshot), memory \in SomeArrays,
         Persist(new, detached, old, clears)
  PROVE  Persisted(new, detached, old, clears)
<1> DEFINE freeze(s) == [s EXCEPT !.clears = @ \ Stored(new), !.array = [f \in Files |->
             IF f \in detached /\ s.array[f] = Live THEN old[f] ELSE s.array[f]]]
           front == [i \in DOMAIN queue |-> freeze(queue[i])]
           last == [array |-> [f \in Files |-> Live], asked |-> [f \in Files |-> new[f].v],
                    clears |-> clears]
<1>1. memory' = new /\ queue' = Append(front, last)
  BY DEF Persist, Stored, Msgs
<1>2. ASSUME NEW s \in Snapshot
      PROVE  /\ freeze(s) \in Snapshot
             /\ freeze(s).asked = s.asked /\ freeze(s).clears = s.clears \ Stored(new)
             /\ \A f \in Files : freeze(s).array[f] =
                  IF f \in detached /\ s.array[f] = Live THEN old[f] ELSE s.array[f]
  BY <1>2 DEF Snapshot, SomeArrays
<1>3. last \in Snapshot
  <2>1. \A f \in Files : new[f].v \in Nat
    BY DEF SomeArrays, Array
  <2> QED BY <2>1 DEF Snapshot
<1> HIDE DEF freeze, last
<1>4. front \in Seq(Snapshot) /\ Len(front) = Len(queue)
      /\ \A i \in 1 .. Len(queue) : front[i] = freeze(queue[i])
  BY <1>2
<1>5. /\ queue' \in Seq(Snapshot) /\ Len(queue') = Len(queue) + 1
      /\ queue'[Len(queue')] = last
      /\ \A i \in 1 .. Len(queue) : queue'[i] = freeze(queue[i])
  <2> HIDE DEF front
  <2> QED BY <1>1, <1>3, <1>4
<1>6. \A i \in 1 .. Len(queue) : queue[i] \in Snapshot
  OBVIOUS
<1>7. /\ last.asked = [f \in Files |-> new[f].v] /\ last.clears = clears
      /\ \A f \in Files : last.array[f] = Live
  BY DEF last
<1> QED BY <1>1, <1>2, <1>5, <1>6, <1>7 DEF Persisted

----------------------------------------------------------------------------
\* What an operation does, as far as the invariants are concerned: the states of
\* the arrays move forward; messages that leave are gone, and those that are stored,
\* perhaps again, are no longer cleared; the messages of a new array have their
\* conversations and keep to the limit if those of the old one did.

Changes(new, detached, old, clears) ==
  /\ new \in SomeArrays /\ old \in SomeArrays /\ clears \in SUBSET MessageIds
  /\ Persist(new, detached, old, clears)
  /\ \A f \in Files : memory[f].v <= old[f].v /\ old[f].v <= new[f].v
  /\ Msgs(memory) \subseteq Msgs(old) /\ Msgs(new) \subseteq Msgs(old)
  /\ Msgs(old) \subseteq MessageIds
  /\ Msgs(old) \subseteq Msgs(memory) \cup Msgs(new)
  /\ cleared' = cleared \ Stored(new)
  /\ Msgs(old) \ Msgs(new) \subseteq gone'
  /\ clears \subseteq gone' \ Msgs(new)
  /\ ConvsOf(Msgs(memory)) \subseteq memory["conversations"].ids
       => ConvsOf(Msgs(new)) \subseteq new["conversations"].ids
  /\ \/ Cardinality(Msgs(new)) <= limit'
     \/ Msgs(new) = Msgs(memory) /\ limit' = limit

Effect ==
  /\ mode = "running" /\ limit' \in Limits
  /\ gone \subseteq gone' /\ gone' \subseteq MessageIds
  /\ UNCHANGED <<mode, writing, files, legacy, acked, unsaved, unwritten, lost>>
  /\ \/ /\ UNCHANGED <<memory, queue, gone, cleared>>
        /\ Cardinality(Msgs(memory)) <= limit'
     \/ \E new, detached, old, clears : Changes(new, detached, old, clears)

LEMMA TrimmedWithin ==
  ASSUME NEW ids \in SUBSET MessageIds, NEW max \in Limits, NEW kept \in Trimmed(ids, max)
  PROVE  kept \in SUBSET ids /\ Cardinality(kept) <= max
<1>1. Cardinality(ids) \in Nat /\ max \in Nat
  BY FS_Subset, FS_CardinalityType, FileConstants
<1> QED BY <1>1 DEF Trimmed

LEMMA MemoryTyped ==
  ASSUME TypeOK, Msgs(memory) \subseteq MessageIds
  PROVE  /\ memory \in SomeArrays /\ limit \in Limits
         /\ gone \subseteq MessageIds
         /\ \A f \in Files : memory[f] \in Array /\ memory[f].v \in Nat
         /\ "messages" \in Files /\ "conversations" \in Files
         /\ memory["messages"] \in Array /\ memory["conversations"] \in Array
         /\ memory["messages"].v \in Nat /\ memory["conversations"].v \in Nat
         /\ memory["messages"].ids \in SUBSET MessageIds
         /\ memory["conversations"].ids \in SUBSET (MessageIds \cup Convs)
<1>1. /\ memory \in SomeArrays /\ limit \in Limits /\ gone \subseteq MessageIds
      /\ "messages" \in Files /\ "conversations" \in Files
  BY DEF TypeOK, SomeArrays, Files
<1>2. \A f \in Files : memory[f] \in Array
  BY <1>1 DEF SomeArrays
<1>3. \A a \in Array : a.v \in Nat /\ a.ids \in SUBSET (MessageIds \cup Convs)
  BY DEF Array
<1> QED BY <1>1, <1>2, <1>3 DEF Msgs

LEMMA AddMessageEffect ==
  ASSUME TypeOK, Msgs(memory) \subseteq MessageIds, NEW m \in MessageIds, AddMessage(m)
  PROVE  Effect
<1> DEFINE pushed == [messages |-> Edited(memory["messages"], memory["messages"].ids \cup {m}),
                      conversations |-> Edited(memory["conversations"],
                                               memory["conversations"].ids \cup {ConvOf[m]})]
           cut(kept) == [pushed EXCEPT !["messages"] = Edited(@, kept)]
<1>t. /\ memory \in SomeArrays /\ limit \in Limits /\ gone \subseteq MessageIds
      /\ "messages" \in Files /\ "conversations" \in Files
      /\ memory["messages"] \in Array /\ memory["conversations"] \in Array
      /\ memory["messages"].v \in Nat /\ memory["conversations"].v \in Nat
      /\ memory["messages"].ids \in SUBSET MessageIds
      /\ memory["conversations"].ids \in SUBSET (MessageIds \cup Convs)
  BY MemoryTyped
<1>c. ConvOf[m] \in Convs
  BY FileConstants
<1>1. /\ pushed["messages"] \in Array /\ pushed["conversations"] \in Array
      /\ pushed["messages"].ids = memory["messages"].ids \cup {m}
      /\ pushed["messages"].v = memory["messages"].v + 1
      /\ pushed["conversations"].ids = memory["conversations"].ids \cup {ConvOf[m]}
      /\ pushed["conversations"].v = memory["conversations"].v + 1
  BY <1>t, <1>c, EditedType
<1>2. pushed \in SomeArrays /\ DOMAIN pushed = Files
  BY <1>1 DEF SomeArrays, Files
<1>3. PICK kept \in Trimmed(pushed["messages"].ids, limit) :
           /\ m \in kept
           /\ IF kept = pushed["messages"].ids THEN Persist(pushed, {}, pushed, {})
              ELSE Persist(cut(kept), {"messages"}, pushed, {})
           /\ gone' = gone \cup (pushed["messages"].ids \ kept)
  BY DEF AddMessage
<1>4. kept \in SUBSET pushed["messages"].ids /\ Cardinality(kept) <= limit
      /\ kept \in SUBSET MessageIds
  <2>1. pushed["messages"].ids \in SUBSET MessageIds
    BY <1>1, <1>t
  <2> QED BY <1>3, <1>t, <2>1, TrimmedWithin
<1>5. /\ cut(kept) \in SomeArrays
      /\ cut(kept)["messages"].ids = kept
      /\ cut(kept)["messages"].v = memory["messages"].v + 2
      /\ cut(kept)["conversations"] = pushed["conversations"]
  <2> HIDE DEF pushed
  <2>1. /\ Edited(pushed["messages"], kept) \in Array
        /\ Edited(pushed["messages"], kept).ids = kept
        /\ Edited(pushed["messages"], kept).v = pushed["messages"].v + 1
    BY <1>1, <1>4, EditedType
  <2> QED BY <1>1, <1>2, <1>t, <2>1 DEF SomeArrays, Files
<1>6. /\ mode = "running" /\ m \notin memory["messages"].ids
      /\ cleared' = cleared \ {m}
      /\ UNCHANGED <<mode, limit, writing, files, legacy, acked, unsaved, unwritten, lost>>
  BY DEF AddMessage
<1> HIDE DEF pushed, cut
<1>7. /\ \A f \in Files : memory[f].v <= pushed[f].v
      /\ \A f \in Files : pushed[f].v <= cut(kept)[f].v
      /\ \A f \in Files : pushed[f].v <= pushed[f].v
  BY <1>1, <1>5, <1>t DEF Files
<1>8. ConvsOf(Msgs(memory)) \subseteq memory["conversations"].ids
        => ConvsOf(kept) \subseteq pushed["conversations"].ids
  BY <1>1, <1>4 DEF ConvsOf, Msgs
<1>9. /\ Msgs(memory) \subseteq Msgs(pushed)
      /\ Msgs(pushed) \subseteq MessageIds
      /\ Msgs(pushed) \subseteq Msgs(memory) \cup kept
      /\ kept \ Msgs(memory) = {m}
  BY <1>1, <1>3, <1>4, <1>6, <1>t DEF Msgs
<1>10. \E new, detached, old, clears : Changes(new, detached, old, clears)
  <2>1. CASE kept = pushed["messages"].ids
    <3>1. Changes(pushed, {}, pushed, {})
      BY <1>2, <1>3, <1>4, <1>6, <1>7, <1>8, <1>9, <2>1 DEF Changes, Msgs, Stored
    <3> QED BY <3>1
  <2>2. CASE kept # pushed["messages"].ids
    <3>1. Changes(cut(kept), {"messages"}, pushed, {})
      BY <1>2, <1>3, <1>4, <1>5, <1>6, <1>7, <1>8, <1>9, <2>2 DEF Changes, Msgs, Stored
    <3> QED BY <3>1
  <2> QED BY <2>1, <2>2
<1> QED
  <2>1. gone' \subseteq MessageIds /\ gone \subseteq gone'
    BY <1>1, <1>3, <1>t
  <2> QED BY <1>6, <1>10, <1>t, <2>1 DEF Effect

LEMMA EditInPlaceEffect ==
  ASSUME TypeOK, Msgs(memory) \subseteq MessageIds, EditInPlace
  PROVE  Effect
<1>t. /\ memory \in SomeArrays /\ limit \in Limits /\ gone \subseteq MessageIds
      /\ "messages" \in Files /\ "conversations" \in Files
      /\ \A f \in Files : memory[f] \in Array /\ memory[f].v \in Nat
      /\ memory["messages"].ids \in SUBSET MessageIds
  BY MemoryTyped
<1>1. PICK fs \in SUBSET Files :
        Persist([f \in Files |-> IF f \in fs THEN Edited(memory[f], memory[f].ids) ELSE memory[f]],
                {}, memory, {})
  BY DEF EditInPlace
<1> DEFINE new == [f \in Files |->
                     IF f \in fs THEN Edited(memory[f], memory[f].ids) ELSE memory[f]]
<1>2. /\ mode = "running"
      /\ UNCHANGED <<mode, limit, writing, files, legacy, acked, gone, cleared, unsaved,
                     unwritten, lost>>
  BY DEF EditInPlace, seen
<1>3. \A f \in Files : /\ new[f] \in Array /\ new[f].ids = memory[f].ids
                       /\ memory[f].v <= new[f].v
  <2> SUFFICES ASSUME NEW f \in Files
               PROVE  /\ new[f] \in Array /\ new[f].ids = memory[f].ids
                      /\ memory[f].v <= new[f].v
    OBVIOUS
  <2>0. memory[f] \in Array /\ memory[f].ids \in SUBSET (MessageIds \cup Convs)
    BY <1>t DEF Array
  <2>1. /\ Edited(memory[f], memory[f].ids) \in Array
        /\ Edited(memory[f], memory[f].ids).ids = memory[f].ids
        /\ Edited(memory[f], memory[f].ids).v = memory[f].v + 1
    BY <2>0, EditedType
  <2> QED BY <1>t, <2>1
<1>4. new \in SomeArrays
  BY <1>3 DEF SomeArrays
<1>5. Persist(new, {}, memory, {})
  BY <1>1
<1> HIDE DEF new
<1>6. Changes(new, {}, memory, {})
  BY <1>t, <1>2, <1>3, <1>4, <1>5 DEF Changes, Msgs, Stored
<1> QED BY <1>t, <1>2, <1>6 DEF Effect

\* The two operations on conversations only add to them.
LEMMA MoreConversations ==
  ASSUME TypeOK, Msgs(memory) \subseteq MessageIds, mode = "running",
         NEW cs \in SUBSET Convs, NEW detached,
         Persist([memory EXCEPT !["conversations"] = Edited(@, @.ids \cup cs)], detached, memory, {}),
         UNCHANGED <<mode, limit, writing, files, legacy, acked, gone, cleared, unsaved,
                     unwritten, lost>>
  PROVE  Effect
<1> DEFINE more == Edited(memory["conversations"], memory["conversations"].ids \cup cs)
           new == [memory EXCEPT !["conversations"] = more]
<1>t. /\ memory \in SomeArrays /\ limit \in Limits /\ gone \subseteq MessageIds
      /\ "messages" \in Files /\ "conversations" \in Files
      /\ memory["messages"] \in Array /\ memory["conversations"] \in Array
      /\ memory["messages"].v \in Nat /\ memory["conversations"].v \in Nat
      /\ memory["messages"].ids \in SUBSET MessageIds
      /\ memory["conversations"].ids \in SUBSET (MessageIds \cup Convs)
  BY MemoryTyped
<1>1. /\ more \in Array /\ more.ids = memory["conversations"].ids \cup cs
      /\ more.v = memory["conversations"].v + 1
  BY <1>t, EditedType
<1>2. Persist(new, detached, memory, {})
  OBVIOUS
<1> HIDE DEF more
<1>3. /\ new \in SomeArrays /\ new["messages"] = memory["messages"]
      /\ new["conversations"] = more
  BY <1>t, <1>1 DEF SomeArrays, Files
<1> HIDE DEF new
<1>4. Changes(new, detached, memory, {})
  BY <1>t, <1>1, <1>2, <1>3 DEF Changes, Msgs, Stored, Files
<1> QED BY <1>t, <1>4 DEF Effect

LEMMA SetMaxMessagesEffect ==
  ASSUME TypeOK, Msgs(memory) \subseteq MessageIds, NEW max \in Limits, SetMaxMessages(max)
  PROVE  Effect
<1>t. /\ memory \in SomeArrays /\ limit \in Limits /\ gone \subseteq MessageIds
      /\ "messages" \in Files /\ "conversations" \in Files
      /\ memory["messages"] \in Array /\ memory["conversations"] \in Array
      /\ memory["messages"].v \in Nat /\ memory["conversations"].v \in Nat
      /\ memory["messages"].ids \in SUBSET MessageIds
  BY MemoryTyped
<1>1. PICK kept \in Trimmed(memory["messages"].ids, max) :
       /\ IF kept = memory["messages"].ids THEN UNCHANGED <<memory, queue>>
          ELSE Persist([memory EXCEPT !["messages"] = Edited(@, kept)],
                       {"messages"}, memory, {})
       /\ gone' = gone \cup (memory["messages"].ids \ kept)
  BY DEF SetMaxMessages
<1> DEFINE less == Edited(memory["messages"], kept)
           new == [memory EXCEPT !["messages"] = less]
<1>2. kept \in SUBSET memory["messages"].ids /\ Cardinality(kept) <= max
  BY <1>t, TrimmedWithin
<1>3. /\ mode = "running" /\ limit' = max
      /\ UNCHANGED <<mode, writing, files, legacy, acked, cleared, unsaved, unwritten, lost>>
  BY DEF SetMaxMessages
<1>4. less \in Array /\ less.ids = kept /\ less.v = memory["messages"].v + 1
  <2>1. kept \in SUBSET (MessageIds \cup Convs)
    BY <1>2, <1>t
  <2> QED BY <1>t, <2>1, EditedType
<1>5. CASE kept = memory["messages"].ids
  BY <1>1, <1>2, <1>3, <1>5, <1>t DEF Effect, Msgs
<1>6. CASE kept # memory["messages"].ids
  <2>1. Persist(new, {"messages"}, memory, {})
    BY <1>1, <1>6
  <2> HIDE DEF less
  <2>2. /\ new \in SomeArrays /\ new["messages"] = less
        /\ new["conversations"] = memory["conversations"]
    BY <1>t, <1>4 DEF SomeArrays, Files
  <2> HIDE DEF new
  <2>3. ConvsOf(Msgs(memory)) \subseteq memory["conversations"].ids
          => ConvsOf(Msgs(new)) \subseteq new["conversations"].ids
    BY <1>2, <1>4, <2>2 DEF ConvsOf, Msgs
  <2>4. Changes(new, {"messages"}, memory, {})
    BY <1>t, <1>1, <1>2, <1>3, <1>4, <2>1, <2>2, <2>3 DEF Changes, Msgs, Stored, Files
  <2> QED BY <1>1, <1>3, <1>t, <2>4 DEF Effect
<1> QED BY <1>5, <1>6

LEMMA ClearEffect ==
  ASSUME TypeOK, Msgs(memory) \subseteq MessageIds, Clear
  PROVE  Effect
<1> DEFINE new == [f \in Files |-> Edited(memory[f], {})]
<1>t. /\ memory \in SomeArrays /\ limit \in Limits /\ gone \subseteq MessageIds
      /\ "messages" \in Files /\ "conversations" \in Files
      /\ \A f \in Files : memory[f] \in Array /\ memory[f].v \in Nat
      /\ memory["messages"].ids \in SUBSET MessageIds
  BY MemoryTyped
<1>1. /\ mode = "running" /\ gone' = gone \cup memory["messages"].ids
      /\ Persist(new, Files, memory, memory["messages"].ids)
      /\ UNCHANGED <<mode, limit, writing, files, legacy, acked, cleared, unsaved, unwritten, lost>>
  BY DEF Clear
<1>2. \A f \in Files : /\ new[f] \in Array /\ new[f].ids = {}
                       /\ new[f].v = memory[f].v + 1
  BY <1>t, EditedType
<1>3. new \in SomeArrays
  BY <1>2 DEF SomeArrays
<1> HIDE DEF new
<1>4. ConvsOf(Msgs(new)) = {} /\ Cardinality(Msgs(new)) = 0
  BY <1>2, <1>t, FS_EmptySet DEF ConvsOf, Msgs
<1>5. 0 <= limit'
  BY <1>1, <1>t, FileConstants
<1>6. Changes(new, Files, memory, memory["messages"].ids)
  <2>1. \A f \in Files : memory[f].v <= memory[f].v /\ memory[f].v <= new[f].v
    BY <1>t, <1>2
  <2>2. Msgs(new) = {} /\ memory["messages"].ids = Msgs(memory)
    BY <1>t, <1>2 DEF Msgs
  <2> QED BY <1>t, <1>1, <1>3, <1>4, <1>5, <2>1, <2>2 DEF Changes, Stored
<1> QED BY <1>t, <1>1, <1>6 DEF Effect

LEMMA OperationEffect ==
  ASSUME TypeOK, Msgs(memory) \subseteq MessageIds, Operation
  PROVE  Effect
<1>1. ASSUME NEW c \in Convs, UpsertConversation(c) PROVE Effect
  BY <1>1, MoreConversations DEF UpsertConversation, seen
<1>2. ASSUME NEW cs \in SUBSET Convs, ReplaceConversations(cs) PROVE Effect
  BY <1>2, MoreConversations DEF ReplaceConversations, seen
<1> QED
  BY <1>1, <1>2, AddMessageEffect, EditInPlaceEffect, SetMaxMessagesEffect, ClearEffect
  DEF Operation

----------------------------------------------------------------------------
\* The order of the writes.  For each file the states grow along the way a
\* change takes: acknowledged, in the file, in the temporary file, referred to
\* by the writes that wait, in memory.  Writes refer to memory from some place
\* in the queue on.

Ref(i, f) == Referred(queue[i], f)
Waiting == 1 .. Len(queue)

QueueOrder(f) ==
  \A i \in Waiting :
    /\ acked[f] <= queue[i].asked[f] /\ queue[i].asked[f] <= Ref(i, f).v
    /\ Version(f) <= Ref(i, f).v /\ Ref(i, f).v <= memory[f].v
    /\ \A j \in Waiting : i <= j =>
         /\ queue[i].asked[f] <= queue[j].asked[f]
         /\ Ref(i, f).v <= Ref(j, f).v
         /\ queue[i].array[f] = Live => queue[j].array[f] = Live

WritingOrder(f) ==
  /\ (writing.temp # None /\ writing.file = f) =>
       /\ queue # <<>>
       /\ queue[1].asked[f] <= writing.temp.v
       /\ Version(f) <= writing.temp.v /\ writing.temp.v <= Ref(1, f).v
  /\ (f = "messages" /\ writing.file = "conversations") =>
       queue # <<>> /\ queue[1].asked[f] <= Version(f)

Order(f) ==
  /\ acked[f] <= Version(f)
  /\ Loaded(f) => Version(f) <= memory[f].v
  /\ QueueOrder(f)
  /\ WritingOrder(f)

\* Nothing is written before the files are loaded, and nothing without a write
\* that waits.
Loading == mode \in {"down", "messages", "conversations", "migrating", "loaded"}
Quiet ==
  /\ Loading => queue = <<>>
  /\ queue = <<>> => writing = Idle

\* Messages, not conversations, are in the arrays of messages.
MessageArrays ==
  /\ Msgs(memory) \subseteq MessageIds
  /\ OnDisk("messages") \subseteq MessageIds
  /\ \A i \in Waiting : Ref(i, "messages").ids \subseteq MessageIds
  /\ (writing.temp # None /\ writing.file = "messages") => writing.temp.ids \subseteq MessageIds

OrderInv == TypeOK /\ Quiet /\ MessageArrays /\ \A f \in Files : Order(f)

LEMMA VersionType ==
  ASSUME files \in [Files -> Array \cup {None}], NEW f \in Files
  PROVE  Version(f) \in Nat /\ OnDisk(f) \in SUBSET (MessageIds \cup Convs)
<1>1. files[f] \in Array \cup {None}
  OBVIOUS
<1> QED BY <1>1, LiveAndNoneAreNoArrays DEF Version, OnDisk, Array

LEMMA RefType ==
  ASSUME queue \in Seq(Snapshot), memory \in SomeArrays, NEW i \in Waiting, NEW f \in Files
  PROVE  /\ Ref(i, f) \in Array /\ Ref(i, f).v \in Nat
         /\ queue[i].asked[f] \in Nat
         /\ queue[i].clears \in SUBSET MessageIds
<1>1. queue[i] \in Snapshot
  BY DEF Waiting
<1>2. /\ queue[i].array \in [Files -> Array \cup {Live}]
      /\ queue[i].asked \in [Files -> Nat] /\ queue[i].clears \in SUBSET MessageIds
  BY <1>1 DEF Snapshot
<1>3. queue[i].array[f] \in Array \cup {Live} /\ memory[f] \in Array
  BY <1>2 DEF SomeArrays
<1>4. \A a \in Array : a.v \in Nat
  BY DEF Array
<1> QED BY <1>2, <1>3, <1>4, LiveAndNoneAreNoArrays DEF Ref, Referred

\* A change and its write keep the order.
LEMMA ChangesKeepOrder ==
  ASSUME TypeOK, MessageArrays, NEW f \in Files, Order(f), Loaded(f), Loaded(f)',
         NEW new, NEW detached, NEW old, NEW clears, Changes(new, detached, old, clears),
         UNCHANGED <<writing, files, acked>>
  PROVE  /\ Order(f)'
         /\ memory'[f].v >= memory[f].v
<1>t. /\ memory \in SomeArrays /\ queue \in Seq(Snapshot)
      /\ acked[f] \in Nat /\ Version(f) \in Nat
  BY VersionType DEF TypeOK, SomeArrays
<1>c. /\ new \in SomeArrays /\ old \in SomeArrays /\ clears \in SUBSET MessageIds
      /\ Persist(new, detached, old, clears)
      /\ memory[f].v <= old[f].v /\ old[f].v <= new[f].v
  BY DEF Changes
<1>n. memory[f].v \in Nat /\ old[f].v \in Nat /\ new[f].v \in Nat
  BY <1>t, <1>c DEF SomeArrays, Array
<1>1. /\ memory' = new
      /\ queue' \in Seq(Snapshot) /\ Len(queue') = Len(queue) + 1
      /\ \A i \in 1 .. Len(queue) :
           /\ queue'[i].asked = queue[i].asked
           /\ queue'[i].clears = queue[i].clears \ Stored(new)
           /\ \A g \in Files : queue'[i].array[g] =
                IF g \in detached /\ queue[i].array[g] = Live THEN old[g]
                ELSE queue[i].array[g]
      /\ queue'[Len(queue')].asked = [g \in Files |-> new[g].v]
      /\ queue'[Len(queue')].clears = clears
      /\ \A g \in Files : queue'[Len(queue')].array[g] = Live
  <2>1. Persisted(new, detached, old, clears)
    BY <1>t, <1>c, PersistQueue
  <2> QED BY <2>1 DEF Persisted
<1>2. \A i \in Waiting : /\ Ref(i, f) \in Array /\ Ref(i, f).v \in Nat
                         /\ queue[i].asked[f] \in Nat
  BY <1>t, RefType
<1>3. \A a \in Array : a # Live
  BY LiveAndNoneAreNoArrays
<1>4. old[f] \in Array
  BY <1>c DEF SomeArrays
<1>5. ASSUME NEW i \in Waiting
      PROVE  /\ queue'[i].asked[f] = queue[i].asked[f]
             /\ Ref(i, f).v <= Ref(i, f)'.v /\ Ref(i, f)'.v <= new[f].v
             /\ Ref(i, f)'.v \in Nat
             /\ Ref(i, f)' = IF queue[i].array[f] # Live THEN Ref(i, f)
                             ELSE IF f \in detached THEN old[f] ELSE new[f]
             /\ queue'[i].array[f] = Live <=> queue[i].array[f] = Live /\ f \notin detached
  <2>1. /\ Ref(i, f) = IF queue[i].array[f] = Live THEN memory[f] ELSE queue[i].array[f]
        /\ Ref(i, f)' = IF queue'[i].array[f] = Live THEN new[f] ELSE queue'[i].array[f]
    BY <1>1 DEF Ref, Referred
  <2>2. queue'[i].array[f] = IF f \in detached /\ queue[i].array[f] = Live THEN old[f]
                             ELSE queue[i].array[f]
    BY <1>1 DEF Waiting
  <2>3. Ref(i, f).v <= memory[f].v
    BY DEF Order, QueueOrder
  <2>4. queue'[i].asked[f] = queue[i].asked[f]
    BY <1>1 DEF Waiting
  <2>5. Ref(i, f)' = IF queue[i].array[f] # Live THEN Ref(i, f)
                     ELSE IF f \in detached THEN old[f] ELSE new[f]
    BY <2>1, <2>2, <1>3, <1>4
  <2>6. queue'[i].array[f] = Live <=> queue[i].array[f] = Live /\ f \notin detached
    BY <2>2, <1>3, <1>4
  <2>7. Ref(i, f).v <= Ref(i, f)'.v /\ Ref(i, f)'.v <= new[f].v /\ Ref(i, f)'.v \in Nat
    BY <2>1, <2>3, <2>5, <1>2, <1>c, <1>n
  <2> QED BY <2>4, <2>5, <2>6, <2>7
<1>m. PICK n \in Nat : n = Len(queue) + 1
  BY <1>t
<1>6. /\ n \in Nat /\ Len(queue) \in Nat /\ Waiting' = 1 .. n
      /\ queue'[n].asked[f] = new[f].v /\ queue'[n].array[f] = Live
      /\ Ref(n, f)' = new[f]
  <2>1. Len(queue) \in Nat /\ Waiting' = 1 .. n
    BY <1>1, <1>t, <1>m DEF Waiting
  <2>2. queue'[n].asked[f] = new[f].v /\ queue'[n].array[f] = Live
    BY <1>1, <1>m
  <2> QED BY <1>1, <2>1, <2>2 DEF Ref, Referred
<1>7. Version(f)' = Version(f)
  BY DEF Version
<1>8. QueueOrder(f)'
  <2> SUFFICES ASSUME NEW i \in 1 .. n
               PROVE  /\ acked[f] <= queue'[i].asked[f] /\ queue'[i].asked[f] <= Ref(i, f)'.v
                      /\ Version(f) <= Ref(i, f)'.v /\ Ref(i, f)'.v <= new[f].v
                      /\ \A j \in 1 .. n : i <= j =>
                           /\ queue'[i].asked[f] <= queue'[j].asked[f]
                           /\ Ref(i, f)'.v <= Ref(j, f)'.v
                           /\ queue'[i].array[f] = Live => queue'[j].array[f] = Live
    BY <1>1, <1>6, <1>7 DEF QueueOrder
  <2>1. CASE i = n
    <3>1. \A j \in 1 .. n : i <= j => j = n
      BY <2>1, <1>6
    <3>2. acked[f] <= Version(f) /\ Version(f) <= memory[f].v
      BY DEF Order
    <3>3. Ref(i, f)' = new[f]
      BY <2>1, <1>6
    <3>4. ASSUME NEW j \in 1 .. n, i <= j
          PROVE  /\ queue'[i].asked[f] <= queue'[j].asked[f]
                 /\ Ref(i, f)'.v <= Ref(j, f)'.v
                 /\ queue'[i].array[f] = Live => queue'[j].array[f] = Live
      <4>1. j = n
        BY <3>1, <3>4
      <4>2. Ref(j, f)' = new[f]
        BY <4>1, <1>6
      <4>3. Ref(i, f)'.v <= Ref(j, f)'.v
        BY <3>3, <4>2, <1>n
      <4>4. queue'[j] = queue'[i]
        BY <4>1, <2>1
      <4>5. queue'[i].asked[f] \in Nat
        BY <2>1, <1>6, <1>n
      <4>6. queue'[i].asked[f] <= queue'[j].asked[f]
        BY <4>4, <4>5
      <4>7. queue'[i].array[f] = Live => queue'[j].array[f] = Live
        BY <4>4
      <4> QED BY <4>3, <4>6, <4>7
    <3> QED BY <2>1, <3>2, <3>3, <3>4, <1>6, <1>n, <1>t, <1>c
  <2>2. CASE i # n
    <3>1. i \in Waiting
      BY <2>2, <1>m, <1>6 DEF Waiting
    <3>2. /\ acked[f] <= queue[i].asked[f] /\ queue[i].asked[f] <= Ref(i, f).v
          /\ Version(f) <= Ref(i, f).v /\ Ref(i, f).v <= memory[f].v
      BY <3>1 DEF Order, QueueOrder
    <3>3. /\ acked[f] <= queue'[i].asked[f] /\ queue'[i].asked[f] <= Ref(i, f)'.v
          /\ Version(f) <= Ref(i, f)'.v /\ Ref(i, f)'.v <= new[f].v
      BY <3>1, <3>2, <1>5, <1>2, <1>t
    <3>4. ASSUME NEW j \in 1 .. n, i <= j
          PROVE  /\ queue'[i].asked[f] <= queue'[j].asked[f]
                 /\ Ref(i, f)'.v <= Ref(j, f)'.v
                 /\ queue'[i].array[f] = Live => queue'[j].array[f] = Live
      <4>1. CASE j = n
        <5>1. queue'[i].asked[f] <= Ref(i, f)'.v /\ Ref(i, f)'.v <= new[f].v
          BY <3>3
        <5>2. queue'[i].asked[f] \in Nat /\ Ref(i, f)'.v \in Nat
          BY <3>1, <1>2, <1>5
        <5>3. queue'[j].asked[f] = new[f].v /\ queue'[j].array[f] = Live
          BY <4>1, <1>6
        <5>4. Ref(j, f)' = new[f]
          BY <4>1, <1>6
        <5>5. queue'[i].asked[f] <= queue'[j].asked[f]
          BY <5>1, <5>2, <5>3, <1>n
        <5>6. Ref(i, f)'.v <= Ref(j, f)'.v
          BY <5>1, <5>4
        <5> QED BY <5>3, <5>5, <5>6
      <4>2. CASE j # n
        <5>1. j \in Waiting
          BY <4>2, <1>m, <1>6 DEF Waiting
        <5>2. /\ queue[i].asked[f] <= queue[j].asked[f]
              /\ Ref(i, f).v <= Ref(j, f).v
              /\ queue[i].array[f] = Live => queue[j].array[f] = Live
          BY <3>1, <3>4, <5>1 DEF Order, QueueOrder
        <5>3. queue'[i].asked[f] <= queue'[j].asked[f]
          BY <5>1, <5>2, <3>1, <1>5
        <5>4. queue'[i].array[f] = Live => queue'[j].array[f] = Live
          BY <5>1, <5>2, <3>1, <1>5
        <5>5. CASE queue[i].array[f] # Live
          <6>1. Ref(i, f)' = Ref(i, f) /\ Ref(j, f).v <= Ref(j, f)'.v
            BY <5>1, <5>5, <3>1, <1>5
          <6> QED BY <6>1, <5>1, <5>2, <5>3, <5>4, <3>1, <1>2, <1>5
        <5>6. CASE queue[i].array[f] = Live
          <6>1. Ref(i, f)' = Ref(j, f)'
            BY <5>1, <5>2, <5>6, <3>1, <1>5
          <6> QED BY <6>1, <5>1, <5>3, <5>4, <3>1, <1>5
        <5> QED BY <5>5, <5>6
      <4> QED BY <4>1, <4>2
    <3> QED BY <3>3, <3>4
  <2> QED BY <2>1, <2>2
<1>9. WritingOrder(f)'
  <2>1. queue' # <<>>
    BY <1>1, <1>6
  <2>2. ASSUME queue # <<>>
        PROVE  1 \in Waiting
    BY <2>2, <1>t DEF Waiting
  <2>3. ASSUME writing.temp # None, writing.file = f
        PROVE  /\ queue'[1].asked[f] <= writing.temp.v
               /\ Version(f) <= writing.temp.v /\ writing.temp.v <= Ref(1, f)'.v
    <3>1. /\ queue # <<>> /\ queue[1].asked[f] <= writing.temp.v
          /\ Version(f) <= writing.temp.v /\ writing.temp.v <= Ref(1, f).v
      BY <2>3 DEF Order, WritingOrder
    <3>2. writing.temp.v \in Nat
      BY <2>3 DEF TypeOK, Array
    <3> QED BY <3>1, <3>2, <2>2, <1>2, <1>5
  <2>4. ASSUME f = "messages", writing.file = "conversations"
        PROVE  queue'[1].asked[f] <= Version(f)
    <3>1. queue # <<>> /\ queue[1].asked[f] <= Version(f)
      BY <2>4 DEF Order, WritingOrder
    <3> QED BY <3>1, <2>2, <1>5
  <2> QED BY <2>1, <2>3, <2>4, <1>7 DEF WritingOrder
<1>10. acked'[f] <= Version(f)' /\ Version(f)' <= memory'[f].v
  <2>1. acked[f] <= Version(f) /\ Version(f) <= memory[f].v
    BY DEF Order
  <2> QED BY <2>1, <1>1, <1>7, <1>c, <1>n, <1>t
<1>11. memory'[f].v >= memory[f].v
  BY <1>1, <1>c, <1>n
<1> QED BY <1>8, <1>9, <1>10, <1>11 DEF Order

LEMMA InvFacts ==
  ASSUME OrderInv
  PROVE  /\ TypeOK /\ Quiet /\ MessageArrays /\ \A f \in Files : Order(f)
         /\ memory \in SomeArrays /\ queue \in Seq(Snapshot) /\ Len(queue) \in Nat
         /\ writing.file \in Files /\ writing.temp \in Array \cup {None}
         /\ Msgs(memory) \subseteq MessageIds
         /\ \A f \in Files : /\ acked[f] \in Nat /\ Version(f) \in Nat
                             /\ memory[f] \in Array /\ memory[f].v \in Nat
         /\ \A i \in Waiting, f \in Files :
              /\ Ref(i, f) \in Array /\ Ref(i, f).v \in Nat
              /\ queue[i].asked[f] \in Nat
<1>1. /\ TypeOK /\ Quiet /\ MessageArrays /\ \A f \in Files : Order(f)
      /\ memory \in SomeArrays /\ queue \in Seq(Snapshot)
      /\ Msgs(memory) \subseteq MessageIds
  BY DEF OrderInv, TypeOK, MessageArrays, SomeArrays
<1>2. writing.file \in Files /\ writing.temp \in Array \cup {None} /\ Len(queue) \in Nat
  BY <1>1 DEF TypeOK
<1>3. \A f \in Files : acked[f] \in Nat /\ Version(f) \in Nat
  BY <1>1, VersionType DEF TypeOK
<1>4. \A f \in Files : memory[f] \in Array
  BY <1>1 DEF SomeArrays
<1>5. \A f \in Files : memory[f].v \in Nat
  BY <1>4 DEF Array
<1>6. \A i \in Waiting, f \in Files :
        Ref(i, f) \in Array /\ Ref(i, f).v \in Nat /\ queue[i].asked[f] \in Nat
  BY <1>1, RefType
<1> QED BY <1>1, <1>2, <1>3, <1>4, <1>5, <1>6

\* What a change and its write do to the arrays, types and references included.
LEMMA ChangesKeepArrays ==
  ASSUME OrderInv, NEW new, NEW detached, NEW old, NEW clears,
         Changes(new, detached, old, clears), UNCHANGED <<writing, files>>
  PROVE  /\ memory' \in SomeArrays /\ queue' \in Seq(Snapshot) /\ queue' # <<>>
         /\ MessageArrays'
<1>1. /\ new \in SomeArrays /\ old \in SomeArrays /\ clears \in SUBSET MessageIds
      /\ Persist(new, detached, old, clears)
      /\ Msgs(new) \subseteq MessageIds /\ Msgs(old) \subseteq MessageIds
  BY DEF Changes
<1>2. /\ memory \in SomeArrays /\ queue \in Seq(Snapshot) /\ Len(queue) \in Nat
      /\ MessageArrays
  BY InvFacts
<1>3. Persisted(new, detached, old, clears)
  BY <1>1, <1>2, PersistQueue
<1>4. /\ memory' = new /\ queue' \in Seq(Snapshot) /\ Len(queue') = Len(queue) + 1
      /\ \A i \in 1 .. Len(queue) : queue'[i].array["messages"] =
           IF "messages" \in detached /\ queue[i].array["messages"] = Live
           THEN old["messages"] ELSE queue[i].array["messages"]
      /\ queue'[Len(queue')].array["messages"] = Live
  BY <1>3 DEF Persisted, Files
<1>m. PICK n \in Nat : n = Len(queue) + 1
  BY <1>2
<1>5. Waiting' = 1 .. n
  BY <1>4, <1>m DEF Waiting
<1>6. \A i \in Waiting' : Ref(i, "messages")'.ids \subseteq MessageIds
  <2> SUFFICES ASSUME NEW i \in 1 .. n PROVE Ref(i, "messages")'.ids \subseteq MessageIds
    BY <1>5
  <2>1. Ref(i, "messages")' = IF queue'[i].array["messages"] = Live THEN new["messages"]
                              ELSE queue'[i].array["messages"]
    BY <1>4 DEF Ref, Referred
  <2>2. CASE i = n
    <3>1. Ref(i, "messages")' = new["messages"]
      BY <2>1, <2>2, <1>4, <1>m
    <3> QED BY <3>1, <1>1 DEF Msgs
  <2>3. CASE i # n
    <3>1. i \in Waiting /\ i \in 1 .. Len(queue)
      BY <2>3, <1>m, <1>2 DEF Waiting
    <3>2. Ref(i, "messages") = IF queue[i].array["messages"] = Live THEN memory["messages"]
                               ELSE queue[i].array["messages"]
      BY DEF Ref, Referred
    <3>3. Ref(i, "messages")' \in {Ref(i, "messages"), old["messages"], new["messages"]}
      BY <3>1, <3>2, <2>1, <1>4
    <3>4. Ref(i, "messages").ids \subseteq MessageIds
      BY <3>1, <1>2 DEF MessageArrays
    <3> QED BY <3>3, <3>4, <1>1 DEF Msgs
  <2> QED BY <2>2, <2>3
<1>7. OnDisk("messages")' = OnDisk("messages") /\ Msgs(memory)' = Msgs(new)
  BY <1>4 DEF OnDisk, Msgs
<1>8. MessageArrays'
  BY <1>1, <1>2, <1>6, <1>7 DEF MessageArrays
<1>9. queue' # <<>>
  BY <1>4, <1>2
<1> QED BY <1>1, <1>4, <1>8, <1>9

LEMMA EffectKeepsOrder ==
  ASSUME OrderInv, Effect
  PROVE  OrderInv'
<1>1. /\ TypeOK /\ Quiet /\ MessageArrays /\ \A f \in Files : Order(f)
  BY DEF OrderInv
<1>2. /\ mode = "running" /\ mode' = "running" /\ limit' \in Limits /\ gone' \subseteq MessageIds
      /\ UNCHANGED <<writing, files, legacy, acked, unsaved, unwritten, lost>>
  BY DEF Effect
<1>3. CASE UNCHANGED <<memory, queue, gone, cleared>>
  <2>1. TypeOK'
    BY <1>1, <1>2, <1>3 DEF TypeOK
  <2>2. Quiet' /\ MessageArrays'
    BY <1>1, <1>2, <1>3
    DEF Quiet, Loading, MessageArrays, Msgs, OnDisk, Waiting, Ref, Referred
  <2>3. ASSUME NEW f \in Files PROVE Order(f)'
    BY <1>1, <1>2, <1>3
    DEF Order, QueueOrder, WritingOrder, Loaded, Version, Waiting, Ref, Referred
  <2> QED BY <2>1, <2>2, <2>3 DEF OrderInv
<1>4. ASSUME NEW new, NEW detached, NEW old, NEW clears, Changes(new, detached, old, clears)
      PROVE  OrderInv'
  <2>1. /\ memory' \in SomeArrays /\ queue' \in Seq(Snapshot) /\ queue' # <<>>
        /\ MessageArrays'
    BY <1>2, <1>4, ChangesKeepArrays
  <2>2. TypeOK'
    <3>1. cleared' \subseteq cleared
      BY <1>4 DEF Changes
    <3> QED BY <3>1, <1>1, <1>2, <2>1 DEF TypeOK, SomeArrays
  <2>3. Quiet'
    BY <1>2, <2>1 DEF Quiet, Loading
  <2>4. ASSUME NEW f \in Files PROVE Order(f)'
    <3>1. Loaded(f) /\ Loaded(f)'
      BY <1>2 DEF Loaded, Files
    <3>2. Order(f)
      BY <1>1
    <3> QED BY <3>1, <3>2, <1>1, <1>2, <1>4, ChangesKeepOrder
  <2> QED BY <2>1, <2>2, <2>3, <2>4 DEF OrderInv
<1> QED BY <1>3, <1>4 DEF Effect

\* The head of the queue, and the queue after it.
LEMMA HeadAndTail ==
  ASSUME queue \in Seq(Snapshot), queue # <<>>
  PROVE  /\ 1 \in Waiting /\ Head(queue) = queue[1] /\ queue[1] \in Snapshot
         /\ Tail(queue) \in Seq(Snapshot) /\ Len(Tail(queue)) = Len(queue) - 1
         /\ \A i \in 1 .. Len(queue) - 1 : Tail(queue)[i] = queue[i + 1] /\ i + 1 \in Waiting
<1>1. Len(queue) \in Nat /\ Len(queue) > 0
  OBVIOUS
<1> QED BY <1>1 DEF Waiting

LEMMA WriteTempKeepsOrder ==
  ASSUME OrderInv, WriteTemp
  PROVE  OrderInv'
<1>1. /\ TypeOK /\ Quiet /\ MessageArrays /\ \A f \in Files : Order(f)
      /\ queue \in Seq(Snapshot) /\ writing.file \in Files
      /\ \A i \in Waiting, f \in Files : Ref(i, f) \in Array /\ Ref(i, f).v \in Nat
  BY InvFacts
<1>2. /\ queue # <<>> /\ writing.temp = None
      /\ writing' = [writing EXCEPT !.temp = Referred(Head(queue), writing.file)]
      /\ UNCHANGED <<mode, limit, memory, queue, files, legacy, acked, gone, cleared, unsaved,
                     unwritten, lost>>
  BY DEF WriteTemp, seen
<1>3. 1 \in Waiting /\ Head(queue) = queue[1]
  BY <1>1, <1>2, HeadAndTail
<1>4. writing' = [file |-> writing.file, temp |-> Ref(1, writing.file)]
  <2>1. writing \in [file : Files, temp : Array \cup {None}]
    BY <1>1 DEF TypeOK
  <2> QED BY <2>1, <1>2, <1>3 DEF Ref
<1>5. Ref(1, writing.file) \in Array
  BY <1>1, <1>3
<1>6. TypeOK'
  BY <1>1, <1>2, <1>4, <1>5 DEF TypeOK
<1>7. Quiet'
  BY <1>1, <1>2 DEF Quiet, Loading
<1>8. MessageArrays'
  <2>1. Ref(1, "messages").ids \subseteq MessageIds
    BY <1>1, <1>3 DEF MessageArrays
  <2> QED BY <2>1, <1>1, <1>2, <1>4 DEF MessageArrays, Msgs, OnDisk, Waiting, Ref, Referred
<1>9. ASSUME NEW f \in Files PROVE Order(f)'
  <2>1. Order(f)
    BY <1>1
  <2>2. (acked[f] <= Version(f) /\ (Loaded(f) => Version(f) <= memory[f].v) /\ QueueOrder(f))'
    BY <2>1, <1>2 DEF Order, QueueOrder, Loaded, Version, Waiting, Ref, Referred
  <2>3. Ref(1, f)' = Ref(1, f) /\ Version(f)' = Version(f)
    BY <1>2 DEF Ref, Referred, Version
  <2>4. /\ queue[1].asked[f] <= Ref(1, f).v /\ Version(f) <= Ref(1, f).v
        /\ Ref(1, f).v \in Nat
    BY <2>1, <1>1, <1>3 DEF Order, QueueOrder
  <2>5. WritingOrder(f)'
    BY <2>1, <2>3, <2>4, <1>2, <1>4 DEF Order, WritingOrder
  <2> QED BY <2>2, <2>5 DEF Order
<1> QED BY <1>6, <1>7, <1>8, <1>9 DEF OrderInv

\* The order of the writes that remain once the first has left the queue.
LEMMA TailKeepsOrder ==
  ASSUME OrderInv, queue # <<>>, queue' = Tail(queue), UNCHANGED memory,
         NEW f \in Files, Loaded(f), files' \in [Files -> Array \cup {None}],
         Version(f)' <= Ref(1, f).v,
         acked'[f] = acked[f] \/ acked'[f] = queue[1].asked[f]
  PROVE  QueueOrder(f)'
<1>1. /\ Order(f) /\ QueueOrder(f)
      /\ \A i \in Waiting : Ref(i, f).v \in Nat /\ queue[i].asked[f] \in Nat
      /\ acked[f] \in Nat /\ memory[f].v \in Nat /\ queue \in Seq(Snapshot) /\ Len(queue) \in Nat
  BY InvFacts DEF Order
<1>2. Version(f)' \in Nat
  <2>1. files'[f] \in Array \cup {None}
    OBVIOUS
  <2> QED BY <2>1 DEF Version, Array
<1>3. /\ 1 \in Waiting /\ Len(queue') = Len(queue) - 1
      /\ \A i \in 1 .. Len(queue) - 1 : queue'[i] = queue[i + 1] /\ i + 1 \in Waiting
  BY <1>1, HeadAndTail
<1>4. Waiting' = 1 .. Len(queue) - 1
  BY <1>3 DEF Waiting
<1>5. ASSUME NEW i \in 1 .. Len(queue) - 1
      PROVE  Ref(i, f)' = Ref(i + 1, f) /\ queue'[i] = queue[i + 1] /\ i + 1 \in Waiting
             /\ 1 <= i + 1 /\ i + 1 \in Nat
  <2>1. queue'[i] = queue[i + 1] /\ i + 1 \in Waiting
    BY <1>3
  <2>2. Ref(i, f)' = Ref(i + 1, f)
    BY <2>1 DEF Ref, Referred
  <2>3. 1 <= i + 1 /\ i + 1 \in Nat
    BY <1>1
  <2> QED BY <2>1, <2>2, <2>3
<1>6. ASSUME NEW i \in 1 .. Len(queue) - 1
      PROVE  /\ acked'[f] <= queue'[i].asked[f] /\ queue'[i].asked[f] <= Ref(i, f)'.v
             /\ Version(f)' <= Ref(i, f)'.v /\ Ref(i, f)'.v <= memory'[f].v
  <2>1. /\ acked[f] <= queue[i + 1].asked[f] /\ queue[i + 1].asked[f] <= Ref(i + 1, f).v
        /\ Ref(i + 1, f).v <= memory[f].v
        /\ queue[1].asked[f] <= queue[i + 1].asked[f] /\ Ref(1, f).v <= Ref(i + 1, f).v
    BY <1>1, <1>3, <1>5, <1>6 DEF QueueOrder
  <2>2. /\ Ref(i, f)' = Ref(i + 1, f) /\ queue'[i] = queue[i + 1]
    BY <1>5, <1>6
  <2>3. Ref(1, f).v \in Nat /\ Ref(i + 1, f).v \in Nat
    BY <1>1, <1>3, <1>5, <1>6
  <2>4. acked'[f] <= queue'[i].asked[f] /\ queue'[i].asked[f] <= Ref(i, f)'.v
    BY <2>1, <2>2
  <2>5. Version(f)' <= Ref(i, f)'.v /\ Ref(i, f)'.v <= memory'[f].v
    BY <2>1, <2>2, <2>3, <1>2
  <2> QED BY <2>4, <2>5
<1>7. ASSUME NEW i \in 1 .. Len(queue) - 1, NEW j \in 1 .. Len(queue) - 1, i <= j
      PROVE  /\ queue'[i].asked[f] <= queue'[j].asked[f]
             /\ Ref(i, f)'.v <= Ref(j, f)'.v
             /\ queue'[i].array[f] = Live => queue'[j].array[f] = Live
  <2>1. i + 1 <= j + 1 /\ i + 1 \in Waiting /\ j + 1 \in Waiting
    <3>1. i + 1 \in Waiting /\ j + 1 \in Waiting
      BY <1>3
    <3>2. i + 1 <= j + 1
      BY <1>1, <1>7
    <3> QED BY <3>1, <3>2
  <2>2. /\ queue[i + 1].asked[f] <= queue[j + 1].asked[f]
        /\ Ref(i + 1, f).v <= Ref(j + 1, f).v
        /\ queue[i + 1].array[f] = Live => queue[j + 1].array[f] = Live
    BY <2>1, <1>1 DEF QueueOrder
  <2>3. Ref(i, f)' = Ref(i + 1, f) /\ Ref(j, f)' = Ref(j + 1, f)
    BY <1>5
  <2>4. queue'[i] = queue[i + 1] /\ queue'[j] = queue[j + 1]
    BY <1>5
  <2> QED BY <2>2, <2>3, <2>4
<1> QED BY <1>4, <1>6, <1>7 DEF QueueOrder

\* The arrays that are left are still arrays of messages.
LEMMA TailKeepsArrays ==
  ASSUME OrderInv, queue # <<>>, queue' = Tail(queue), UNCHANGED memory
  PROVE  /\ queue' \in Seq(Snapshot) /\ Msgs(memory)' \subseteq MessageIds
         /\ \A i \in Waiting' : Ref(i, "messages")'.ids \subseteq MessageIds
<1>1. /\ queue \in Seq(Snapshot) /\ Len(queue) \in Nat /\ MessageArrays
  BY InvFacts
<1>2. /\ queue' \in Seq(Snapshot) /\ Len(queue') = Len(queue) - 1
      /\ \A i \in 1 .. Len(queue) - 1 : queue'[i] = queue[i + 1] /\ i + 1 \in Waiting
  BY <1>1, HeadAndTail
<1>3. Waiting' = 1 .. Len(queue) - 1
  BY <1>2 DEF Waiting
<1>4. ASSUME NEW i \in 1 .. Len(queue) - 1
      PROVE  Ref(i, "messages")'.ids \subseteq MessageIds
  <2>1. Ref(i, "messages")' = Ref(i + 1, "messages") /\ i + 1 \in Waiting
    BY <1>2, <1>4 DEF Ref, Referred
  <2>2. Ref(i + 1, "messages").ids \subseteq MessageIds
    BY <2>1, <1>1 DEF MessageArrays
  <2> QED BY <2>1, <2>2
<1> QED BY <1>1, <1>2, <1>3, <1>4 DEF MessageArrays, Msgs

LEMMA RenameTempKeepsOrder ==
  ASSUME OrderInv, RenameTemp
  PROVE  OrderInv'
<1>1. /\ TypeOK /\ Quiet /\ MessageArrays /\ \A f \in Files : Order(f)
      /\ queue \in Seq(Snapshot) /\ writing.file \in Files
      /\ writing.temp \in Array \cup {None}
      /\ \A f \in Files : /\ acked[f] \in Nat /\ Version(f) \in Nat
                          /\ memory[f] \in Array /\ memory[f].v \in Nat
      /\ \A i \in Waiting, f \in Files : Ref(i, f).v \in Nat /\ queue[i].asked[f] \in Nat
  BY InvFacts
<1>2. /\ writing.temp # None
      /\ files' = [files EXCEPT ![writing.file] = writing.temp]
      /\ UNCHANGED <<mode, limit, memory, legacy, gone, lost>>
  BY DEF RenameTemp
<1>3. queue # <<>> /\ writing.temp \in Array /\ writing.temp.v \in Nat
  BY <1>1, <1>2 DEF Order, WritingOrder, Array
<1>4. 1 \in Waiting /\ Head(queue) = queue[1] /\ queue[1] \in Snapshot
  BY <1>1, <1>3, HeadAndTail
<1>5. /\ files' \in [Files -> Array \cup {None}]
      /\ files'[writing.file] = writing.temp
      /\ \A f \in Files : f # writing.file => files'[f] = files[f]
  <2>1. files \in [Files -> Array \cup {None}]
    BY <1>1 DEF TypeOK
  <2> QED BY <2>1, <1>1, <1>2
<1>6. ASSUME NEW f \in Files
      PROVE  /\ f = writing.file => /\ Version(f)' = writing.temp.v
                                    /\ queue[1].asked[f] <= writing.temp.v
                                    /\ Version(f) <= writing.temp.v
                                    /\ writing.temp.v <= Ref(1, f).v
             /\ f # writing.file => Version(f)' = Version(f)
             /\ Version(f)' <= Ref(1, f).v /\ acked[f] <= Version(f)'
             /\ Loaded(f)' => Version(f)' <= memory'[f].v
             /\ Version(f)' \in Nat
  <2>1. /\ f = writing.file => Version(f)' = writing.temp.v
        /\ f # writing.file => Version(f)' = Version(f)
    BY <1>3, <1>5, LiveAndNoneAreNoArrays DEF Version
  <2>2. /\ f = writing.file => /\ queue[1].asked[f] <= writing.temp.v
                               /\ Version(f) <= writing.temp.v
                               /\ writing.temp.v <= Ref(1, f).v
        /\ Version(f) <= Ref(1, f).v /\ Ref(1, f).v <= memory[f].v
        /\ acked[f] <= Version(f)
    BY <1>1, <1>2, <1>4 DEF Order, WritingOrder, QueueOrder
  <2>3. Loaded(f)' = Loaded(f)
    BY <1>2 DEF Loaded
  <2>4. Version(f)' \in Nat /\ Version(f)' <= Ref(1, f).v /\ Version(f)' <= memory[f].v
    BY <2>1, <2>2, <1>1, <1>3, <1>4
  <2>5. acked[f] <= Version(f)'
    BY <2>1, <2>2, <1>1, <1>3
  <2> QED BY <2>1, <2>2, <2>3, <2>4, <2>5, <1>2
<1>7. OnDisk("messages")' \subseteq MessageIds
  <2>1. CASE writing.file = "messages"
    <3>1. OnDisk("messages")' = writing.temp.ids
      BY <2>1, <1>3, <1>5, LiveAndNoneAreNoArrays DEF OnDisk
    <3> QED BY <3>1, <2>1, <1>1, <1>2 DEF MessageArrays
  <2>2. CASE writing.file # "messages"
    <3>1. OnDisk("messages")' = OnDisk("messages")
      BY <2>2, <1>5 DEF OnDisk, Files
    <3> QED BY <3>1, <1>1 DEF MessageArrays
  <2> QED BY <2>1, <2>2
<1>8. CASE writing.file = "messages"
  <2>1. /\ writing' = [file |-> "conversations", temp |-> None]
        /\ unwritten' = FALSE /\ UNCHANGED <<queue, acked, cleared, unsaved>>
    BY <1>8 DEF RenameTemp
  <2>2. TypeOK'
    BY <2>1, <1>1, <1>2, <1>5 DEF TypeOK, Files
  <2>3. Quiet' /\ MessageArrays'
    BY <2>1, <1>1, <1>2, <1>3, <1>7
    DEF Quiet, Loading, MessageArrays, Msgs, Waiting, Ref, Referred
  <2>4. ASSUME NEW f \in Files PROVE Order(f)'
    <3>1. Order(f)
      BY <1>1
    <3>2. \A i \in Waiting : Ref(i, f)' = Ref(i, f)
      BY <2>1, <1>2 DEF Ref, Referred
    <3>3. Version(f)' <= Ref(1, f).v /\ Version(f)' \in Nat
      BY <1>6
    <3>4. \A i \in Waiting : Ref(1, f).v <= Ref(i, f).v
      BY <3>1, <1>4 DEF Order, QueueOrder, Waiting
    <3>5. \A i \in Waiting : Version(f)' <= Ref(i, f).v
      BY <3>3, <3>4, <1>1, <1>4
    <3>6. QueueOrder(f)'
      <4> SUFFICES ASSUME NEW i \in Waiting
                   PROVE  /\ acked[f] <= queue[i].asked[f] /\ queue[i].asked[f] <= Ref(i, f)'.v
                          /\ Version(f)' <= Ref(i, f)'.v /\ Ref(i, f)'.v <= memory[f].v
                          /\ \A j \in Waiting : i <= j =>
                               /\ queue[i].asked[f] <= queue[j].asked[f]
                               /\ Ref(i, f)'.v <= Ref(j, f)'.v
                               /\ queue[i].array[f] = Live => queue[j].array[f] = Live
        BY <2>1, <1>2 DEF QueueOrder, Waiting
      <4>1. Ref(i, f)' = Ref(i, f)
        BY <3>2
      <4>2. \A j \in Waiting : Ref(j, f)' = Ref(j, f)
        BY <3>2
      <4>3. /\ acked[f] <= queue[i].asked[f] /\ queue[i].asked[f] <= Ref(i, f).v
            /\ Ref(i, f).v <= memory[f].v
            /\ \A j \in Waiting : i <= j =>
                 /\ queue[i].asked[f] <= queue[j].asked[f]
                 /\ Ref(i, f).v <= Ref(j, f).v
                 /\ queue[i].array[f] = Live => queue[j].array[f] = Live
        BY <3>1 DEF Order, QueueOrder
      <4>4. Version(f)' <= Ref(i, f).v
        BY <3>5
      <4> QED BY <4>1, <4>2, <4>3, <4>4
    <3>7. WritingOrder(f)'
      BY <2>1, <1>3, <1>6, <1>8 DEF WritingOrder, Files
    <3> QED BY <3>6, <3>7, <2>1, <1>6 DEF Order
  <2> QED BY <2>2, <2>3, <2>4 DEF OrderInv
<1>9. CASE writing.file = "conversations"
  <2>1. /\ writing' = Idle /\ queue' = Tail(queue) /\ acked' = queue[1].asked
        /\ cleared' = cleared \cup (queue[1].clears \ InLegacy) /\ unsaved' = FALSE
        /\ UNCHANGED unwritten
    BY <1>4, <1>9 DEF RenameTemp
  <2>2. /\ queue' \in Seq(Snapshot) /\ Msgs(memory)' \subseteq MessageIds
        /\ \A i \in Waiting' : Ref(i, "messages")'.ids \subseteq MessageIds
    BY <2>1, <1>2, <1>3, TailKeepsArrays
  <2>3. TypeOK'
    <3>1. queue[1].asked \in [Files -> Nat] /\ queue[1].clears \subseteq MessageIds
      BY <1>4 DEF Snapshot
    <3> QED BY <3>1, <2>1, <2>2, <1>1, <1>2, <1>5 DEF TypeOK, Idle, Files
  <2>4. Quiet' /\ MessageArrays'
    <3>1. ~Loading
      BY <1>1, <1>3 DEF Quiet
    <3> QED BY <3>1, <2>1, <2>2, <1>2, <1>7 DEF Quiet, Loading, MessageArrays, Idle
  <2>5. ASSUME NEW f \in Files PROVE Order(f)'
    <3>1. ~Loading => Loaded(f)
      BY <1>1 DEF Loading, Loaded, TypeOK, Modes
    <3>2. Loaded(f)
      BY <3>1, <1>1, <1>3 DEF Quiet
    <3>3. QueueOrder(f)'
      BY <3>2, <2>1, <1>2, <1>3, <1>5, <1>6, TailKeepsOrder
    <3>4. acked'[f] <= Version(f)'
      <4>1. CASE f = "conversations"
        BY <4>1, <2>1, <1>6, <1>9
      <4>2. CASE f = "messages"
        <5>1. queue[1].asked[f] <= Version(f)
          BY <4>2, <1>1, <1>9 DEF Order, WritingOrder
        <5> QED BY <5>1, <4>2, <2>1, <1>6, <1>9
      <4> QED BY <4>1, <4>2 DEF Files
    <3>5. WritingOrder(f)'
      BY <2>1 DEF WritingOrder, Idle
    <3> QED BY <3>3, <3>4, <3>5, <1>6 DEF Order
  <2> QED BY <2>3, <2>4, <2>5 DEF OrderInv
<1> QED BY <1>1, <1>8, <1>9 DEF Files

LEMMA WriteFailsKeepsOrder ==
  ASSUME OrderInv, WriteFails
  PROVE  OrderInv'
<1>1. /\ TypeOK /\ Quiet /\ MessageArrays /\ \A f \in Files : Order(f)
      /\ queue \in Seq(Snapshot)
      /\ \A f \in Files : Version(f) \in Nat
  BY InvFacts
<1>2. /\ queue # <<>> /\ queue' = Tail(queue) /\ writing' = Idle
      /\ unsaved' = TRUE /\ mode' = IF mode = "saving" THEN "rejected" ELSE mode
      /\ UNCHANGED <<limit, memory, files, legacy, acked, gone, cleared, unwritten, lost>>
  BY DEF WriteFails
<1>3. /\ queue' \in Seq(Snapshot) /\ Msgs(memory)' \subseteq MessageIds
      /\ \A i \in Waiting' : Ref(i, "messages")'.ids \subseteq MessageIds
  BY <1>2, TailKeepsArrays
<1>4. TypeOK'
  BY <1>1, <1>2, <1>3 DEF TypeOK, Modes, Idle, Files
<1>5. ~Loading
  BY <1>1, <1>2 DEF Quiet
<1>6. Quiet' /\ MessageArrays'
  BY <1>1, <1>2, <1>3, <1>5 DEF Quiet, Loading, MessageArrays, OnDisk, Idle
<1>7. ASSUME NEW f \in Files PROVE Order(f)'
  <2>1. Loaded(f) /\ Loaded(f)'
    BY <1>1, <1>2, <1>5 DEF Loading, Loaded, TypeOK, Modes
  <2>2. 1 \in Waiting
    BY <1>1, <1>2, HeadAndTail
  <2>3. Version(f)' = Version(f) /\ Version(f) <= Ref(1, f).v
    BY <1>1, <1>2, <2>2 DEF Version, Order, QueueOrder
  <2>4. files' \in [Files -> Array \cup {None}]
    BY <1>4 DEF TypeOK
  <2>5. QueueOrder(f)'
    BY <2>1, <2>3, <2>4, <1>2, TailKeepsOrder
  <2>6. WritingOrder(f)'
    BY <1>2 DEF WritingOrder, Idle
  <2>7. acked'[f] <= Version(f)' /\ Version(f)' <= memory'[f].v
    BY <1>1, <1>2, <2>1, <2>3 DEF Order
  <2> QED BY <2>5, <2>6, <2>7 DEF Order
<1> QED BY <1>4, <1>6, <1>7 DEF OrderInv

\* Without a write that waits only memory and the files are left to compare.
LEMMA EmptyQueueOrder ==
  ASSUME queue' = <<>>, writing' = Idle
  PROVE  /\ Waiting' = {} /\ Quiet'
         /\ \A f \in Files : QueueOrder(f)' /\ WritingOrder(f)'
         /\ (Msgs(memory)' \subseteq MessageIds /\ OnDisk("messages")' \subseteq MessageIds)
              => MessageArrays'
<1>1. Waiting' = {}
  BY DEF Waiting
<1> QED BY <1>1 DEF QueueOrder, WritingOrder, MessageArrays, Quiet, Idle

LEMMA LoadKeepsOrder ==
  ASSUME OrderInv, NEW g \in Files, NEW from, NEW to, Load(g, from, to),
         \/ g = "messages" /\ from = "down" /\ to = "messages"
         \/ g = "conversations" /\ from = "messages" /\ to = "conversations"
  PROVE  OrderInv'
<1>1. /\ TypeOK /\ Quiet /\ MessageArrays /\ \A f \in Files : Order(f)
      /\ memory \in SomeArrays
      /\ \A f \in Files : /\ acked[f] \in Nat /\ Version(f) \in Nat /\ memory[f].v \in Nat
  BY InvFacts
<1>2. /\ mode = from /\ mode' = to /\ UNCHANGED <<limit, queue, writing, legacy>>
      /\ LoadFile(g) \/ LoadBadFile(g)
  BY DEF Load
<1>3. queue = <<>> /\ writing = Idle
  BY <1>1, <1>2 DEF Quiet, Loading
<1>4. /\ files \in [Files -> Array \cup {None}] /\ acked \in [Files -> Nat]
      /\ \A f \in Files : files[f] \in Array \cup {None} /\ acked[f] \in Nat
  BY <1>1 DEF TypeOK
<1>5. Empty \in Array /\ Empty.v = 0 /\ Empty.ids = {}
  BY DEF Empty, Array
<1>6. /\ memory' \in SomeArrays /\ files' \in [Files -> Array \cup {None}]
      /\ acked' \in [Files -> Nat] /\ UNCHANGED <<gone, cleared, unwritten>>
      /\ unsaved' \in BOOLEAN /\ lost' \in BOOLEAN
      /\ acked'[g] <= Version(g)' /\ Version(g)' = memory'[g].v
      /\ OnDisk("messages")' \subseteq MessageIds /\ Msgs(memory)' \subseteq MessageIds
      /\ \A f \in Files : f # g =>
           memory'[f] = memory[f] /\ acked'[f] = acked[f] /\ Version(f)' = Version(f)
  <2>1. CASE LoadFile(g)
    <3> DEFINE a == IF files[g] = None THEN Empty ELSE files[g]
    <3>1. memory' = [memory EXCEPT ![g] = a] /\ UNCHANGED <<files, seen>>
      BY <2>1 DEF LoadFile
    <3>2. a \in Array /\ a.v = Version(g) /\ a.ids = OnDisk(g)
      BY <1>4, <1>5 DEF Version, OnDisk
    <3> HIDE DEF a
    <3>3. /\ memory' \in SomeArrays /\ memory'[g] = a
          /\ \A f \in Files : f # g => memory'[f] = memory[f]
      BY <3>1, <3>2, <1>1 DEF SomeArrays
    <3>4. Msgs(memory)' \subseteq MessageIds
      BY <3>2, <3>3, <1>1 DEF Msgs, MessageArrays, Files
    <3>5. /\ \A f \in Files : Version(f)' = Version(f)
          /\ OnDisk("messages")' = OnDisk("messages")
      BY <3>1 DEF Version, OnDisk
    <3>6. acked[g] <= Version(g)
      BY <1>1 DEF Order
    <3>7. unsaved \in BOOLEAN /\ lost \in BOOLEAN
      BY <1>1 DEF TypeOK
    <3> QED BY <3>1, <3>2, <3>3, <3>4, <3>5, <3>6, <3>7, <1>1, <1>4 DEF MessageArrays, seen
  <2>2. CASE LoadBadFile(g)
    <3>1. /\ files[g] # None /\ memory' = [memory EXCEPT ![g] = Empty]
          /\ acked' = [acked EXCEPT ![g] = 0] /\ UNCHANGED <<gone, cleared, unwritten>>
          /\ lost' = (lost \/ (g = "messages" /\ legacy = "renamed"))
      BY <2>2 DEF LoadBadFile
    <3>2. files[g] \in Array
      BY <3>1, <1>4
    <3> DEFINE zero == [files[g] EXCEPT !.v = 0]
    <3>3. zero \in Array /\ zero.v = 0 /\ zero.ids = files[g].ids
      BY <3>2 DEF Array
    <3>4. \/ files' = [files EXCEPT ![g] = None] /\ UNCHANGED unsaved
          \/ files' = [files EXCEPT ![g] = zero] /\ unsaved' = TRUE
      BY <2>2 DEF LoadBadFile
    <3> HIDE DEF zero
    <3>5. /\ files' \in [Files -> Array \cup {None}] /\ files'[g] \in {None, zero}
          /\ \A f \in Files : f # g => files'[f] = files[f]
      BY <3>3, <3>4, <1>4
    <3>6. Version(g)' = 0 /\ \A f \in Files : f # g => Version(f)' = Version(f)
      BY <3>3, <3>5 DEF Version
    <3>7. /\ memory' \in SomeArrays /\ memory'[g] = Empty
          /\ \A f \in Files : f # g => memory'[f] = memory[f]
      BY <3>1, <1>5, <1>1 DEF SomeArrays
    <3>8. /\ acked' \in [Files -> Nat] /\ acked'[g] = 0
          /\ \A f \in Files : f # g => acked'[f] = acked[f]
      BY <3>1, <1>4
    <3>9. OnDisk("messages")' \subseteq MessageIds
      <4>1. CASE g = "messages"
        BY <4>1, <3>1, <3>3, <3>5, <1>1 DEF OnDisk, MessageArrays
      <4>2. CASE g # "messages"
        BY <4>2, <3>5, <1>1 DEF OnDisk, MessageArrays, Files
      <4> QED BY <4>1, <4>2
    <3>10. Msgs(memory)' \subseteq MessageIds
      BY <3>7, <1>5, <1>1 DEF Msgs, MessageArrays, Files
    <3>11. unsaved' \in BOOLEAN /\ lost' \in BOOLEAN
      BY <3>1, <3>4, <1>1 DEF TypeOK
    <3>12. Version(g)' = memory'[g].v /\ acked'[g] <= Version(g)'
      BY <3>6, <3>7, <3>8, <1>5
    <3> QED BY <3>1, <3>5, <3>6, <3>7, <3>8, <3>9, <3>10, <3>11, <3>12
  <2> QED BY <2>1, <2>2, <1>2
<1>7. TypeOK'
  BY <1>1, <1>2, <1>6 DEF TypeOK, Modes, SomeArrays
<1>8. Quiet' /\ MessageArrays' /\ \A f \in Files : QueueOrder(f)' /\ WritingOrder(f)'
  BY <1>2, <1>3, <1>6, EmptyQueueOrder
<1>9. ASSUME NEW f \in Files PROVE Order(f)'
  <2>1. acked'[f] <= Version(f)'
    BY <1>1, <1>6 DEF Order
  <2>2. Loaded(f)' => f = g \/ Loaded(f)
    BY <1>2 DEF Loaded, Files
  <2>3. Loaded(f)' => Version(f)' <= memory'[f].v
    <3>1. Version(g)' \in Nat
      <4>1. memory'[g] \in Array
        BY <1>6 DEF SomeArrays
      <4> QED BY <4>1, <1>6 DEF Array
    <3> QED BY <3>1, <2>2, <1>1, <1>6 DEF Order
  <2> QED BY <2>1, <2>3, <1>8 DEF Order
<1> QED BY <1>7, <1>8, <1>9 DEF OrderInv

\* A step of the start-up that only moves on, with arrays that are no older.
LEMMA QuietStepKeepsOrder ==
  ASSUME OrderInv, queue = <<>>, queue' = <<>>,
         UNCHANGED <<writing, files, acked, cleared, unsaved, lost>>, unwritten' \in BOOLEAN,
         mode' \in Modes, limit' \in Limits, legacy' \in {"absent", "present", "renamed"},
         gone' \subseteq MessageIds, memory' \in SomeArrays, Msgs(memory)' \subseteq MessageIds,
         \A f \in Files : Loaded(f) /\ memory[f].v <= memory'[f].v
  PROVE  OrderInv'
<1>1. /\ TypeOK /\ Quiet /\ MessageArrays /\ \A f \in Files : Order(f)
      /\ memory \in SomeArrays
      /\ \A f \in Files : Version(f) \in Nat /\ memory[f].v \in Nat
  BY InvFacts
<1>2. writing' = Idle
  BY <1>1 DEF Quiet
<1>3. OnDisk("messages")' = OnDisk("messages") /\ \A f \in Files : Version(f)' = Version(f)
  BY DEF OnDisk, Version
<1>4. Quiet' /\ MessageArrays' /\ \A f \in Files : QueueOrder(f)' /\ WritingOrder(f)'
  BY <1>1, <1>2, <1>3, EmptyQueueOrder DEF MessageArrays
<1>5. TypeOK'
  BY <1>1 DEF TypeOK, SomeArrays
<1>6. ASSUME NEW f \in Files PROVE Order(f)'
  <2>1. acked[f] <= Version(f) /\ Version(f) <= memory[f].v /\ memory[f].v <= memory'[f].v
    BY <1>1 DEF Order
  <2>2. memory'[f].v \in Nat
    BY DEF SomeArrays, Array
  <2>3. acked'[f] <= Version(f)' /\ Version(f)' <= memory'[f].v
    BY <2>1, <2>2, <1>1, <1>3
  <2> QED BY <2>3, <1>4 DEF Order
<1> QED BY <1>4, <1>5, <1>6 DEF OrderInv

LEMMA MigrateKeepsOrder ==
  ASSUME OrderInv, Migrate
  PROVE  OrderInv'
<1>1. /\ TypeOK /\ Quiet /\ memory \in SomeArrays /\ Msgs(memory) \subseteq MessageIds
      /\ \A f \in Files : memory[f] \in Array /\ memory[f].v \in Nat
  BY InvFacts
<1>2. /\ mode = "conversations" /\ mode' \in Modes
      /\ UNCHANGED <<limit, queue, writing, files, legacy, acked, gone, cleared, unsaved,
                     unwritten, lost>>
  BY DEF Migrate, seen, Modes
<1>3. queue = <<>> /\ queue' = <<>> /\ \A f \in Files : Loaded(f)
  BY <1>1, <1>2 DEF Quiet, Loading, Loaded
<1>4. /\ memory' \in SomeArrays /\ Msgs(memory)' \subseteq MessageIds
      /\ \A f \in Files : memory[f].v <= memory'[f].v
  <2>1. CASE UNCHANGED memory
    BY <2>1, <1>1 DEF Msgs
  <2>2. CASE memory' = [messages |-> Edited(memory["messages"], Legacy),
                        conversations |-> Edited(memory["conversations"], ConvsOf(Legacy))]
    <3> DEFINE ms == Edited(memory["messages"], Legacy)
               cs == Edited(memory["conversations"], ConvsOf(Legacy))
    <3>1. Legacy \in SUBSET MessageIds /\ ConvsOf(Legacy) \in SUBSET Convs
      BY FileConstants, ConvsOfType
    <3>2. "messages" \in Files /\ "conversations" \in Files
      BY DEF Files
    <3>3. /\ ms \in Array /\ ms.ids = Legacy /\ ms.v = memory["messages"].v + 1
          /\ cs \in Array /\ cs.v = memory["conversations"].v + 1
      BY <3>1, <3>2, <1>1, EditedType
    <3>4. memory' = [messages |-> ms, conversations |-> cs]
      BY <2>2
    <3> HIDE DEF ms, cs
    <3>5. memory' \in SomeArrays
      BY <3>3, <3>4 DEF SomeArrays, Files
    <3> QED BY <3>1, <3>2, <3>3, <3>4, <3>5, <1>1 DEF Msgs, Files
  <2> QED BY <2>1, <2>2 DEF Migrate
<1> QED BY <1>1, <1>2, <1>3, <1>4, QuietStepKeepsOrder DEF TypeOK

\* What RenameLegacy and Normalize hand to persist, as a change.
LEMMA StartUpChangeKeepsOrder ==
  ASSUME OrderInv, NEW new, NEW detached, NEW old, NEW clears,
         Changes(new, detached, old, clears),
         UNCHANGED <<limit, writing, files, acked, unsaved, lost>>, unwritten' \in BOOLEAN,
         legacy' \in {"absent", "present", "renamed"}, gone' \subseteq MessageIds,
         mode \in {"migrating", "loaded"}, mode' \in {"migrated", "saving"}
  PROVE  OrderInv'
<1>1. /\ TypeOK /\ Quiet /\ MessageArrays /\ \A f \in Files : Order(f)
  BY DEF OrderInv
<1>2. /\ memory' \in SomeArrays /\ queue' \in Seq(Snapshot) /\ queue' # <<>>
      /\ MessageArrays'
  BY ChangesKeepArrays
<1>3. TypeOK'
  <2>1. cleared' \subseteq cleared
    BY DEF Changes
  <2> QED BY <2>1, <1>1, <1>2 DEF TypeOK, SomeArrays, Modes
<1>4. Quiet'
  BY <1>2 DEF Quiet, Loading
<1>5. ASSUME NEW f \in Files PROVE Order(f)'
  <2>1. Loaded(f) /\ Loaded(f)'
    BY DEF Loaded, Files
  <2> QED BY <2>1, <1>1, ChangesKeepOrder
<1> QED BY <1>2, <1>3, <1>4, <1>5 DEF OrderInv

LEMMA RenameLegacyChange ==
  ASSUME OrderInv, RenameLegacy, Persist(memory, {}, memory, {})
  PROVE  Changes(memory, {}, memory, {})
<1>1. /\ memory \in SomeArrays /\ Msgs(memory) \subseteq MessageIds
      /\ \A f \in Files : memory[f].v \in Nat
  BY InvFacts
<1>2. UNCHANGED <<limit, gone, cleared>>
  BY DEF RenameLegacy
<1> QED BY <1>1, <1>2 DEF Changes, Stored

LEMMA RenameLegacyKeepsOrder ==
  ASSUME OrderInv, RenameLegacy
  PROVE  OrderInv'
<1>1. /\ TypeOK /\ Quiet /\ memory \in SomeArrays /\ Msgs(memory) \subseteq MessageIds
      /\ \A f \in Files : memory[f] \in Array /\ memory[f].v \in Nat
      /\ gone \subseteq MessageIds
  BY InvFacts DEF TypeOK
<1>2. /\ mode = "migrating"
      /\ unwritten' \in BOOLEAN
      /\ UNCHANGED <<limit, writing, files, acked, gone, cleared, unsaved, lost>>
  BY <1>1 DEF RenameLegacy, TypeOK
<1>3. CASE /\ legacy' = "renamed" /\ mode' = "migrated"
           /\ Persist(memory, {}, memory, {})
  <2>1. Changes(memory, {}, memory, {})
    BY <1>3, RenameLegacyChange
  <2> QED BY <2>1, <1>1, <1>2, <1>3, StartUpChangeKeepsOrder
<1>4. CASE mode' = "loaded" /\ UNCHANGED <<legacy, memory, queue>>
  <2>1. queue = <<>> /\ \A f \in Files : Loaded(f) /\ memory[f].v <= memory'[f].v
    BY <1>1, <1>2, <1>4 DEF Quiet, Loading, Loaded
  <2>2. Msgs(memory)' \subseteq MessageIds
    BY <1>1, <1>4 DEF Msgs
  <2> QED BY <2>1, <2>2, <1>1, <1>2, <1>4, QuietStepKeepsOrder DEF TypeOK, Modes
<1> QED BY <1>3, <1>4 DEF RenameLegacy

\* The arrays that Normalize makes, and what it does with them.
LEMMA NormalizeEffect ==
  ASSUME OrderInv, Normalize
  PROVE  \E new :
           /\ gone \subseteq gone' /\ gone' \subseteq MessageIds
           /\ Msgs(memory) \ Msgs(new) \subseteq gone'
           /\ new \in SomeArrays /\ Msgs(new) \subseteq Msgs(memory)
           /\ Cardinality(Msgs(new)) <= limit
           /\ new["conversations"].ids = memory["conversations"].ids \cup ConvsOf(Msgs(new))
           /\ \A f \in Files : memory[f].v <= new[f].v
           /\ \/ Changes(new, {}, memory, {}) /\ mode' = "saving"
              \/ /\ memory' = new /\ mode' = "running" /\ UNCHANGED <<queue, gone>>
                 /\ Msgs(new) = Msgs(memory)
<1>1. /\ memory \in SomeArrays /\ limit \in Limits /\ gone \subseteq MessageIds
      /\ \A f \in Files : memory[f] \in Array /\ memory[f].v \in Nat
      /\ "messages" \in Files /\ "conversations" \in Files
      /\ memory["messages"] \in Array /\ memory["conversations"] \in Array
      /\ memory["messages"].v \in Nat /\ memory["conversations"].v \in Nat
      /\ memory["messages"].ids \in SUBSET MessageIds
      /\ memory["conversations"].ids \in SUBSET (MessageIds \cup Convs)
  BY MemoryTyped DEF OrderInv, MessageArrays
<1> DEFINE convs(kept) == memory["conversations"].ids \cup ConvsOf(kept)
           trims(kept) == kept # memory["messages"].ids
           ms(kept) == IF trims(kept) THEN Edited(memory["messages"], kept)
                       ELSE memory["messages"]
           cs(kept, normalized) ==
             IF normalized \/ convs(kept) # memory["conversations"].ids
             THEN Edited(memory["conversations"], convs(kept)) ELSE memory["conversations"]
<1>2. PICK normalized \in BOOLEAN, kept \in Trimmed(memory["messages"].ids, limit) :
        /\ IF normalized \/ trims(kept)
           THEN /\ Persist([messages |-> ms(kept), conversations |-> cs(kept, normalized)],
                           {}, memory, {})
                /\ mode' = "saving"
           ELSE /\ memory' = [messages |-> ms(kept), conversations |-> cs(kept, normalized)]
                /\ mode' = "running" /\ UNCHANGED queue
        /\ gone' = gone \cup (memory["messages"].ids \ kept)
  BY DEF Normalize
<1>3. /\ mode = "loaded"
      /\ UNCHANGED <<limit, writing, files, legacy, acked, cleared, unsaved, unwritten, lost>>
  BY DEF Normalize
<1>4. kept \in SUBSET memory["messages"].ids /\ Cardinality(kept) <= limit
      /\ kept \in SUBSET MessageIds /\ ConvsOf(kept) \in SUBSET Convs
  <2>1. kept \in SUBSET memory["messages"].ids /\ Cardinality(kept) <= limit
    BY <1>1, <1>2, TrimmedWithin
  <2>2. kept \in SUBSET MessageIds
    BY <2>1, <1>1
  <2> QED BY <2>1, <2>2, ConvsOfType
<1>5. /\ ms(kept) \in Array /\ ms(kept).ids = kept /\ memory["messages"].v <= ms(kept).v
  <2>1. /\ Edited(memory["messages"], kept) \in Array
        /\ Edited(memory["messages"], kept).ids = kept
        /\ Edited(memory["messages"], kept).v = memory["messages"].v + 1
    BY <1>1, <1>4, EditedType
  <2> QED BY <2>1, <1>1
<1>6. /\ cs(kept, normalized) \in Array
      /\ cs(kept, normalized).ids = memory["conversations"].ids \cup ConvsOf(kept)
      /\ memory["conversations"].v <= cs(kept, normalized).v
  <2>1. convs(kept) \in SUBSET (MessageIds \cup Convs)
    BY <1>1, <1>4
  <2>2. /\ Edited(memory["conversations"], convs(kept)) \in Array
        /\ Edited(memory["conversations"], convs(kept)).ids = convs(kept)
        /\ Edited(memory["conversations"], convs(kept)).v = memory["conversations"].v + 1
    BY <2>1, <1>1, EditedType
  <2>3. convs(kept) = memory["conversations"].ids \cup ConvsOf(kept)
    OBVIOUS
  <2> HIDE DEF convs
  <2> QED BY <2>2, <2>3, <1>1
<1> DEFINE new == [messages |-> ms(kept), conversations |-> cs(kept, normalized)]
<1>7. /\ new["messages"] = ms(kept) /\ new["conversations"] = cs(kept, normalized)
  OBVIOUS
<1>8. CASE normalized \/ trims(kept)
  <2>1. Persist(new, {}, memory, {}) /\ mode' = "saving"
    BY <1>2, <1>8
  <2> HIDE DEF ms, cs
  <2>2. new \in SomeArrays
    BY <1>5, <1>6 DEF SomeArrays, Files
  <2> HIDE DEF new
  <2>3. /\ gone' \subseteq MessageIds /\ gone \subseteq gone'
        /\ Msgs(memory) \ Msgs(new) \subseteq gone' /\ Msgs(new) = kept
        /\ Msgs(new) \subseteq Msgs(memory) /\ limit' = limit
        /\ \A f \in Files : memory[f].v <= new[f].v
        /\ new["conversations"].ids = memory["conversations"].ids \cup ConvsOf(Msgs(new))
    BY <1>1, <1>2, <1>3, <1>4, <1>5, <1>6, <1>7 DEF Msgs, Files
  <2>4. \A f \in Files : memory[f].v <= memory[f].v
    BY <1>1
  <2>5. Msgs(memory) \subseteq MessageIds
    BY <1>1 DEF Msgs
  <2>6. Changes(new, {}, memory, {})
    BY <1>1, <1>4, <2>1, <2>2, <2>3, <2>4, <2>5, <1>3 DEF Changes, Stored
  <2> QED BY <1>4, <2>1, <2>2, <2>3, <2>6
<1>9. CASE ~(normalized \/ trims(kept))
  <2>1. memory' = new /\ mode' = "running" /\ UNCHANGED queue
    BY <1>2, <1>9
  <2>2. kept = memory["messages"].ids
    BY <1>9
  <2> HIDE DEF ms, cs
  <2>3. new \in SomeArrays
    BY <1>5, <1>6 DEF SomeArrays, Files
  <2> HIDE DEF new
  <2>4. /\ gone' = gone /\ Msgs(new) = kept /\ Msgs(memory) = kept
        /\ \A f \in Files : memory[f].v <= new[f].v
        /\ new["conversations"].ids = memory["conversations"].ids \cup ConvsOf(Msgs(new))
    BY <1>1, <1>2, <1>5, <1>6, <1>7, <2>2 DEF Msgs, Files
  <2> QED BY <1>1, <1>4, <2>1, <2>3, <2>4
<1> QED BY <1>8, <1>9

LEMMA NormalizeKeepsOrder ==
  ASSUME OrderInv, Normalize
  PROVE  OrderInv'
<1>1. /\ TypeOK /\ Quiet /\ Msgs(memory) \subseteq MessageIds
  BY InvFacts
<1>2. /\ mode = "loaded"
      /\ UNCHANGED <<limit, writing, files, legacy, acked, cleared, unsaved, unwritten, lost>>
  BY DEF Normalize
<1>3. PICK new :
           /\ gone' \subseteq MessageIds
           /\ new \in SomeArrays /\ Msgs(new) \subseteq Msgs(memory)
           /\ \A f \in Files : memory[f].v <= new[f].v
           /\ \/ Changes(new, {}, memory, {}) /\ mode' = "saving"
              \/ memory' = new /\ mode' = "running" /\ UNCHANGED queue
  BY NormalizeEffect
<1>4. CASE Changes(new, {}, memory, {}) /\ mode' = "saving"
  BY <1>1, <1>2, <1>3, <1>4, StartUpChangeKeepsOrder DEF TypeOK
<1>5. CASE memory' = new /\ mode' = "running" /\ UNCHANGED queue
  <2>1. queue = <<>> /\ \A f \in Files : Loaded(f) /\ memory[f].v <= memory'[f].v
    BY <1>1, <1>2, <1>3, <1>5 DEF Quiet, Loading, Loaded
  <2>2. Msgs(memory)' \subseteq MessageIds
    BY <1>1, <1>3, <1>5 DEF Msgs
  <2> QED BY <2>1, <2>2, <1>1, <1>2, <1>3, <1>5, QuietStepKeepsOrder DEF TypeOK, Modes
<1> QED BY <1>3, <1>4, <1>5

\* The wait for the write of the migration or of the start-up is over.
LEMMA WaitEndsKeepsOrder ==
  ASSUME OrderInv, MigrationEnds \/ Saved
  PROVE  OrderInv'
<1>1. /\ TypeOK /\ memory \in SomeArrays /\ Msgs(memory) \subseteq MessageIds
      /\ \A f \in Files : memory[f].v \in Nat
  BY InvFacts
<1>2. /\ mode \in {"migrated", "saving"} /\ mode' \in {"loaded", "running"} /\ queue = <<>>
      /\ UNCHANGED <<limit, memory, queue, writing, files, legacy, acked, gone, cleared,
                     unsaved, unwritten, lost>>
  BY DEF MigrationEnds, Saved, seen
<1>3. Msgs(memory)' \subseteq MessageIds /\ \A f \in Files : memory[f].v <= memory'[f].v
  BY <1>1, <1>2 DEF Msgs
<1>4. \A f \in Files : Loaded(f)
  BY <1>2 DEF Loaded
<1> QED BY <1>1, <1>2, <1>3, <1>4, QuietStepKeepsOrder DEF TypeOK, Modes

LEMMA CrashKeepsOrder ==
  ASSUME OrderInv, Crash
  PROVE  OrderInv'
<1>1. /\ TypeOK /\ MessageArrays /\ \A f \in Files : Order(f)
  BY DEF OrderInv
<1>2. /\ mode' = "down" /\ limit' \in Limits /\ memory' = [f \in Files |-> Empty]
      /\ queue' = <<>> /\ writing' = Idle /\ unsaved' = FALSE
      /\ unwritten' = FALSE /\ lost' = (lost \/ unwritten)
      /\ UNCHANGED <<files, legacy, acked, gone, cleared>>
  BY DEF Crash
<1>3. Empty \in Array /\ Empty.ids = {}
  BY DEF Empty, Array
<1>4. TypeOK'
  <2>1. /\ memory' \in [Files -> Array] /\ queue' \in Seq(Snapshot)
        /\ writing' \in [file : Files, temp : Array \cup {None}]
    BY <1>2, <1>3 DEF Idle, Files
  <2>2. unsaved' \in BOOLEAN /\ unwritten' \in BOOLEAN /\ lost' \in BOOLEAN
    BY <1>1, <1>2 DEF TypeOK
  <2> QED BY <2>1, <2>2, <1>1, <1>2 DEF TypeOK, Modes
<1>5. Msgs(memory)' = {} /\ OnDisk("messages")' = OnDisk("messages")
  BY <1>2, <1>3 DEF Msgs, OnDisk, Files
<1>6. Quiet' /\ MessageArrays' /\ \A f \in Files : QueueOrder(f)' /\ WritingOrder(f)'
  BY <1>1, <1>2, <1>5, EmptyQueueOrder DEF MessageArrays
<1>7. ASSUME NEW f \in Files PROVE Order(f)'
  <2>1. acked'[f] <= Version(f)'
    BY <1>1, <1>2 DEF Order, Version
  <2>2. ~Loaded(f)'
    BY <1>2 DEF Loaded
  <2> QED BY <2>1, <2>2, <1>6 DEF Order
<1> QED BY <1>4, <1>6, <1>7 DEF OrderInv

LEMMA StutterKeepsOrder ==
  ASSUME OrderInv, UNCHANGED vars
  PROVE  OrderInv'
<1>1. TypeOK'
  BY DEF vars, seen, OrderInv, TypeOK
<1>2. Quiet' /\ MessageArrays'
  BY DEF vars, OrderInv, Quiet, Loading, MessageArrays, OnDisk, Msgs, Waiting, Ref, Referred
<1>3. ASSUME NEW f \in Files PROVE Order(f)'
  BY DEF vars, seen, OrderInv, Order, QueueOrder, WritingOrder, Loaded, Version, Waiting,
         Ref, Referred
<1> QED BY <1>1, <1>2, <1>3 DEF OrderInv

LEMMA InitOrder == Init => OrderInv
<1> SUFFICES ASSUME Init PROVE OrderInv
  OBVIOUS
<1>1. Empty \in Array /\ Empty.ids = {}
  BY DEF Empty, Array
<1>2. TypeOK
  <2>1. /\ memory \in [Files -> Array] /\ files \in [Files -> Array \cup {None}]
        /\ writing \in [file : Files, temp : Array \cup {None}]
        /\ acked \in [Files -> Nat]
    BY <1>1 DEF Init, Idle, Files
  <2>2. queue \in Seq(Snapshot)
    BY DEF Init
  <2> QED BY <2>1, <2>2 DEF Init, TypeOK, Modes
<1>3. Waiting = {} /\ queue = <<>> /\ writing = Idle
  BY DEF Init, Waiting
<1>4. Quiet
  BY <1>3 DEF Quiet
<1>5. MessageArrays
  BY <1>1, <1>3 DEF Init, MessageArrays, Msgs, OnDisk, Idle, Files
<1>6. ASSUME NEW f \in Files PROVE Order(f)
  BY <1>3 DEF Init, Order, QueueOrder, WritingOrder, Loaded, Version, Idle
<1> QED BY <1>2, <1>4, <1>5, <1>6 DEF OrderInv

LEMMA NextKeepsOrder ==
  ASSUME OrderInv, [Next]_vars
  PROVE  OrderInv'
<1>1. CASE Operation
  <2>1. TypeOK /\ Msgs(memory) \subseteq MessageIds
    BY InvFacts
  <2> QED BY <1>1, <2>1, OperationEffect, EffectKeepsOrder
<1>2. CASE StartUp
  <2>1. CASE Load("messages", "down", "messages")
    BY <2>1, LoadKeepsOrder DEF Files
  <2>2. CASE Load("conversations", "messages", "conversations")
    BY <2>2, LoadKeepsOrder DEF Files
  <2> QED
    BY <1>2, <2>1, <2>2, MigrateKeepsOrder, RenameLegacyKeepsOrder, WaitEndsKeepsOrder,
       NormalizeKeepsOrder
    DEF StartUp
<1> QED
  BY <1>1, <1>2, WriteTempKeepsOrder, RenameTempKeepsOrder, WriteFailsKeepsOrder,
     CrashKeepsOrder, StutterKeepsOrder
  DEF Next

\* At any moment the states of each array are in order, from what was acknowledged
\* to what memory holds, through the file, its temporary file and the writes that
\* wait (HistoryStore.persist and atomicWriteJson).
THEOREM WritesAreInOrder == Spec => []OrderInv
<1>1. Init => OrderInv
  BY InitOrder
<1>2. OrderInv /\ [Next]_vars => OrderInv'
  BY NextKeepsOrder
<1> QED BY <1>1, <1>2, PTL DEF Spec

\* The fields and arrays of HistoryStore keep their types.
THEOREM TypesHold == Spec => []TypeOK
<1>1. OrderInv => TypeOK
  BY DEF OrderInv
<1> QED BY <1>1, WritesAreInOrder, PTL

----------------------------------------------------------------------------
\* Each file implements DurableCache

\* A step of DurableCache, or none.
Advance(f) ==
  \/ /\ InMemory(f)' \in Nat /\ InMemory(f)' > InMemory(f)
     /\ Version(f)' = Version(f) /\ acked'[f] = acked[f]
  \/ /\ Version(f)' \in Version(f) .. InMemory(f) /\ acked'[f] \in acked[f] .. Version(f)'
     /\ InMemory(f)' = InMemory(f)
  \/ /\ InMemory(f)' = Version(f)
     /\ Version(f)' = Version(f) /\ acked'[f] = acked[f]
  \/ InMemory(f)' = 0 /\ Version(f)' = 0 /\ acked'[f] = 0
  \/ /\ InMemory(f)' = InMemory(f)
     /\ Version(f)' = Version(f) /\ acked'[f] = acked[f]

LEMMA GrowingMemoryAdvances ==
  ASSUME OrderInv, OrderInv', NEW f \in Files, Loaded(f), Loaded(f)',
         UNCHANGED <<files, acked>>, memory[f].v <= memory'[f].v
  PROVE  Advance(f)
<1>1. memory[f].v \in Nat
  BY InvFacts
<1>2. memory'[f].v \in Nat
  <2>1. memory' \in [Files -> Array]
    BY DEF OrderInv, TypeOK
  <2>2. memory'[f] \in Array
    BY <2>1
  <2> QED BY <2>2 DEF Array
<1>3. Version(f)' = Version(f) /\ acked'[f] = acked[f]
  BY DEF Version
<1>4. InMemory(f) = memory[f].v /\ InMemory(f)' = memory'[f].v
  BY DEF InMemory
<1> QED BY <1>1, <1>2, <1>3, <1>4 DEF Advance

LEMMA ChangeGrows ==
  ASSUME NEW new, NEW detached, NEW old, NEW clears, NEW f \in Files,
         OrderInv, Changes(new, detached, old, clears)
  PROVE  memory[f].v <= memory'[f].v
<1>1. memory' = new /\ memory[f].v <= old[f].v /\ old[f].v <= new[f].v
  BY DEF Changes, Persist
<1>2. memory[f].v \in Nat /\ new \in SomeArrays /\ old \in SomeArrays
  BY InvFacts DEF Changes
<1>3. new[f] \in Array /\ old[f] \in Array
  BY <1>2 DEF SomeArrays
<1>4. new[f].v \in Nat /\ old[f].v \in Nat
  BY <1>3 DEF Array
<1> QED BY <1>1, <1>2, <1>4

LEMMA OperationAdvances ==
  ASSUME OrderInv, OrderInv', Effect, NEW f \in Files
  PROVE  Advance(f)
<1>1. /\ mode = "running" /\ mode' = mode /\ UNCHANGED <<files, acked>>
  BY DEF Effect
<1>2. Loaded(f) /\ Loaded(f)'
  BY <1>1 DEF Loaded
<1>3. memory[f].v <= memory'[f].v
  <2>1. CASE UNCHANGED memory
    BY <2>1, InvFacts
  <2>2. CASE \E new, detached, old, clears : Changes(new, detached, old, clears)
    BY <2>2, ChangeGrows
  <2> QED BY <2>1, <2>2 DEF Effect
<1> QED BY <1>1, <1>2, <1>3, GrowingMemoryAdvances

LEMMA StartUpAdvances ==
  ASSUME OrderInv, OrderInv', NEW f \in Files,
         Migrate \/ RenameLegacy \/ MigrationEnds \/ Normalize \/ Saved
  PROVE  Advance(f)
<1>1. /\ mode \in {"conversations", "migrating", "migrated", "loaded", "saving"}
      /\ mode' \in {"migrating", "migrated", "loaded", "saving", "running"}
      /\ UNCHANGED <<files, acked>>
  BY DEF Migrate, RenameLegacy, MigrationEnds, Normalize, Saved, seen
<1>2. Loaded(f) /\ Loaded(f)'
  BY <1>1 DEF Loaded
<1>3. /\ memory[f] \in Array /\ memory[f].v \in Nat /\ "messages" \in Files
      /\ "conversations" \in Files /\ memory["messages"] \in Array
      /\ memory["conversations"] \in Array
  BY InvFacts DEF Files
<1>4. memory[f].v <= memory'[f].v
  <2>1. CASE UNCHANGED memory
    BY <2>1, <1>3
  <2>2. CASE memory' = [messages |-> Edited(memory["messages"], Legacy),
                        conversations |-> Edited(memory["conversations"], ConvsOf(Legacy))]
    <3>1. memory'[f].v = memory[f].v + 1
      BY <2>2 DEF Edited, Files
    <3> QED BY <3>1, <1>3
  <2>3. ASSUME RenameLegacy PROVE UNCHANGED memory
    BY <2>3 DEF RenameLegacy, Persist
  <2>4. ASSUME Normalize PROVE memory[f].v <= memory'[f].v
    <3>1. PICK new : /\ \A g \in Files : memory[g].v <= new[g].v
                     /\ Changes(new, {}, memory, {}) \/ memory' = new
      BY <2>4, NormalizeEffect
    <3>2. memory' = new
      BY <3>1 DEF Changes, Persist
    <3> QED BY <3>1, <3>2
  <2> QED BY <2>1, <2>2, <2>3, <2>4 DEF Migrate, MigrationEnds, Saved
<1> QED BY <1>1, <1>2, <1>4, GrowingMemoryAdvances

LEMMA WriteTempOrFailAdvances ==
  ASSUME OrderInv, OrderInv', NEW f \in Files, WriteTemp \/ WriteFails
  PROVE  Advance(f)
<1>1. /\ queue # <<>> /\ UNCHANGED <<memory, files, acked>>
      /\ mode' = mode \/ mode' = "rejected"
  BY DEF WriteTemp, WriteFails, seen
<1>2. ~Loading /\ mode \in Modes
  BY <1>1 DEF OrderInv, Quiet, TypeOK
<1>3. Loaded(f) /\ Loaded(f)'
  BY <1>1, <1>2 DEF Loading, Loaded, Modes
<1>4. memory[f].v <= memory'[f].v
  BY <1>1, InvFacts
<1> QED BY <1>1, <1>3, <1>4, GrowingMemoryAdvances

LEMMA RenameTempAdvances ==
  ASSUME OrderInv, OrderInv', NEW f \in Files, RenameTemp
  PROVE  Advance(f)
<1>1. /\ TypeOK /\ Quiet /\ \A g \in Files : Order(g)
      /\ queue \in Seq(Snapshot) /\ writing.file \in Files
      /\ writing.temp \in Array \cup {None}
      /\ acked[f] \in Nat /\ Version(f) \in Nat /\ memory[f].v \in Nat
      /\ \A i \in Waiting, g \in Files : Ref(i, g).v \in Nat /\ queue[i].asked[g] \in Nat
  BY InvFacts
<1>2. /\ writing.temp # None /\ files' = [files EXCEPT ![writing.file] = writing.temp]
      /\ UNCHANGED <<mode, memory>>
  BY DEF RenameTemp
<1>3. queue # <<>> /\ writing.temp \in Array /\ writing.temp.v \in Nat
  BY <1>1, <1>2 DEF Order, WritingOrder, Array
<1>4. 1 \in Waiting /\ Head(queue) = queue[1]
  BY <1>1, <1>3, HeadAndTail
<1>5. Loaded(f) /\ Loaded(f)'
  BY <1>1, <1>2, <1>3 DEF Quiet, Loading, Loaded, TypeOK, Modes
<1>6. Version(f)' = IF f = writing.file THEN writing.temp.v ELSE Version(f)
  <2>1. files \in [Files -> Array \cup {None}]
    BY <1>1 DEF TypeOK
  <2>2. files'[f] = IF f = writing.file THEN writing.temp ELSE files[f]
    BY <2>1, <1>2
  <2> QED BY <2>2, <1>3, LiveAndNoneAreNoArrays DEF Version
<1>7. Version(f) <= Version(f)' /\ Version(f)' \in Nat
  BY <1>1, <1>2, <1>3, <1>6 DEF Order, WritingOrder
<1>8. acked'[f] = acked[f] \/ acked'[f] = queue[1].asked[f]
  BY <1>4 DEF RenameTemp
<1>9. acked[f] <= acked'[f] /\ acked'[f] \in Nat
  <2>1. acked[f] <= queue[1].asked[f] /\ queue[1].asked[f] \in Nat
    BY <1>1, <1>4 DEF Order, QueueOrder
  <2> QED BY <2>1, <1>1, <1>8
<1>10. acked'[f] <= Version(f)' /\ Version(f)' <= memory[f].v
  BY <1>2, <1>5 DEF OrderInv, Order
<1>11. InMemory(f) = memory[f].v /\ InMemory(f)' = memory[f].v
  BY <1>2, <1>5 DEF InMemory
<1> QED BY <1>1, <1>7, <1>9, <1>10, <1>11 DEF Advance

LEMMA LoadAdvances ==
  ASSUME OrderInv, OrderInv', NEW f \in Files, NEW g \in Files, NEW from, NEW to,
         Load(g, from, to),
         \/ g = "messages" /\ from = "down" /\ to = "messages"
         \/ g = "conversations" /\ from = "messages" /\ to = "conversations"
  PROVE  Advance(f)
<1>1. /\ TypeOK /\ memory \in SomeArrays /\ memory[f].v \in Nat
      /\ acked[f] \in Nat /\ Version(f) \in Nat
  BY InvFacts
<1>2. mode = from /\ mode' = to /\ (LoadFile(g) \/ LoadBadFile(g))
  BY DEF Load
<1>3. /\ files \in [Files -> Array \cup {None}] /\ acked \in [Files -> Nat]
      /\ files[g] \in Array \cup {None}
  BY <1>1 DEF TypeOK
<1>4. Empty.v = 0
  BY DEF Empty
<1>5. CASE f # g
  <2>1. Loaded(f) = (f = "messages") /\ Loaded(f)' = (f = "messages")
    BY <1>5, <1>2 DEF Loaded, Files, Load
  <2>2. memory'[f] = memory[f] /\ files'[f] = files[f] /\ acked'[f] = acked[f]
    BY <1>2, <1>3, <1>5, <1>1 DEF LoadFile, LoadBadFile, seen, SomeArrays
  <2> QED BY <2>1, <2>2 DEF Advance, InMemory, Version
<1>6. CASE f = g /\ LoadFile(f)
  <2>1. Loaded(f)' /\ ~Loaded(f)
    BY <1>6 DEF Loaded, Load
  <2>2. /\ UNCHANGED <<files, acked>>
        /\ memory'[f] = IF files[f] = None THEN Empty ELSE files[f]
    BY <1>6, <1>1 DEF LoadFile, seen, SomeArrays
  <2>3. memory'[f].v = Version(f) /\ Version(f)' = Version(f)
    BY <2>2, <1>4 DEF Version
  <2> QED BY <2>1, <2>2, <2>3 DEF Advance, InMemory
<1>7. CASE f = g /\ LoadBadFile(f)
  <2>1. Loaded(f)'
    BY <1>7 DEF Loaded, Load
  <2>2. /\ files[f] # None /\ memory'[f] = Empty /\ acked'[f] = 0
    BY <1>7, <1>1, <1>3 DEF LoadBadFile, SomeArrays
  <2>3. files[f] \in Array
    BY <2>2, <1>3, <1>7
  <2>4. Version(f)' = 0
    <3>1. CASE files' = [files EXCEPT ![f] = None]
      BY <3>1, <1>3 DEF Version
    <3>2. CASE files' = [files EXCEPT ![f].v = 0]
      <4>1. files'[f] = [files[f] EXCEPT !.v = 0]
        BY <3>2, <1>3
      <4>2. [files[f] EXCEPT !.v = 0] \in Array /\ [files[f] EXCEPT !.v = 0].v = 0
        BY <2>3 DEF Array
      <4> QED BY <4>1, <4>2 DEF Version
    <3> QED BY <3>1, <3>2, <1>7 DEF LoadBadFile
  <2> QED BY <2>1, <2>2, <2>4, <1>4 DEF Advance, InMemory
<1> QED BY <1>2, <1>5, <1>6, <1>7 DEF Load

LEMMA CrashAdvances ==
  ASSUME OrderInv, Crash, NEW f \in Files
  PROVE  Advance(f)
<1>1. ~Loaded(f)' /\ UNCHANGED <<files, acked>>
  BY DEF Crash, Loaded
<1> QED BY <1>1 DEF Advance, InMemory, Version

LEMMA StutterAdvances ==
  ASSUME UNCHANGED vars, NEW f \in Files
  PROVE  Advance(f)
BY DEF vars, seen, Advance, InMemory, Loaded, Version

LEMMA NextAdvances ==
  ASSUME OrderInv, OrderInv', [Next]_vars, NEW f \in Files
  PROVE  Advance(f)
<1>1. CASE Operation
  <2>1. TypeOK /\ Msgs(memory) \subseteq MessageIds
    BY InvFacts
  <2> QED BY <1>1, <2>1, OperationEffect, OperationAdvances
<1>2. CASE StartUp
  <2>1. CASE Load("messages", "down", "messages")
    BY <2>1, LoadAdvances DEF Files
  <2>2. CASE Load("conversations", "messages", "conversations")
    BY <2>2, LoadAdvances DEF Files
  <2> QED BY <1>2, <2>1, <2>2, StartUpAdvances DEF StartUp
<1> QED
  BY <1>1, <1>2, WriteTempOrFailAdvances, RenameTempAdvances, CrashAdvances, StutterAdvances
  DEF Next

\* messages.json and conversations.json, with their arrays, each implement
\* DurableCache: a file goes forward, never ahead of its array, and a
\* change whose persist() has returned survives a crash (HistoryStore).
THEOREM FilesImplementDurableCache == Spec => FilesAreDurable
<1>1. Init => MessagesFile!Init /\ ConversationsFile!Init
  <2> SUFFICES ASSUME Init PROVE MessagesFile!Init /\ ConversationsFile!Init
    OBVIOUS
  <2>1. \A f \in Files : ~Loaded(f) /\ Version(f) = 0 /\ acked[f] = 0
    BY DEF Init, Loaded, Version
  <2> QED BY <2>1 DEF MessagesFile!Init, ConversationsFile!Init, InMemory, Files
<1>2. ASSUME OrderInv, OrderInv', [Next]_vars
      PROVE  /\ [MessagesFile!Next]_MessagesFile!vars
             /\ [ConversationsFile!Next]_ConversationsFile!vars
  <2>1. Advance("messages") /\ Advance("conversations")
    BY <1>2, NextAdvances DEF Files
  <2>2. [MessagesFile!Next]_MessagesFile!vars
    BY <2>1 DEF Advance, MessagesFile!Next, MessagesFile!vars, MessagesFile!Change,
         MessagesFile!Write, MessagesFile!Restart, MessagesFile!Lose
  <2>3. [ConversationsFile!Next]_ConversationsFile!vars
    BY <2>1 DEF Advance, ConversationsFile!Next, ConversationsFile!vars,
         ConversationsFile!Change, ConversationsFile!Write, ConversationsFile!Restart,
         ConversationsFile!Lose
  <2> QED BY <2>2, <2>3
<1> QED
  BY <1>1, <1>2, WritesAreInOrder, PTL
  DEF Spec, FilesAreDurable, MessagesFile!Spec, ConversationsFile!Spec

\* What was acknowledged is in the file, and the file is not ahead of its array
\* (HistoryStore.persist).
THEOREM AcknowledgedIsInFiles ==
  Spec => [](MessagesFile!AckedIsDurable /\ ConversationsFile!AckedIsDurable)
<1>1. ASSUME OrderInv, NEW f \in Files
      PROVE  acked[f] <= Version(f) /\ Version(f) <= InMemory(f)
  BY <1>1, InvFacts DEF Order, InMemory
<1>2. OrderInv => MessagesFile!AckedIsDurable /\ ConversationsFile!AckedIsDurable
  BY <1>1 DEF MessagesFile!AckedIsDurable, ConversationsFile!AckedIsDurable, Files
<1> QED BY <1>2, WritesAreInOrder, PTL
=============================================================================
