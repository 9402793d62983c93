------------------------- MODULE HistoryContentProofs -------------------------
(***************************************************************************)
(* Proofs about what the arrays and files of HistoryFiles hold: retention,  *)
(* the conversations of messages, cleared history, migrated history, and    *)
(* what a window that has gone quiet has saved.                             *)
(***************************************************************************)
EXTENDS HistoryFilesProofs

----------------------------------------------------------------------------
\* Retention, and the conversations of the messages: load ends with both, and
\* every operation keeps them.

Normalized ==
  mode \in {"saving", "running"} =>
    /\ Cardinality(Msgs(memory)) <= limit
    /\ ConvsOf(Msgs(memory)) \subseteq memory["conversations"].ids

LEMMA NextKeepsNormalized ==
  ASSUME OrderInv, Normalized, [Next]_vars
  PROVE  Normalized'
<1>1. CASE Operation
  <2>1. Effect
    BY <1>1, InvFacts, OperationEffect
  <2>2. mode = "running" /\ mode' = "running"
    BY <2>1 DEF Effect
  <2>3. CASE UNCHANGED memory /\ Cardinality(Msgs(memory)) <= limit'
    BY <2>2, <2>3 DEF Normalized, Msgs
  <2>4. ASSUME NEW new, NEW detached, NEW old, NEW clears, Changes(new, detached, old, clears)
        PROVE  Normalized'
    <3>1. memory' = new
      BY <2>4 DEF Changes, Persist
    <3>2. /\ Cardinality(Msgs(memory)) <= limit
          /\ ConvsOf(Msgs(memory)) \subseteq memory["conversations"].ids
      BY <2>2 DEF Normalized
    <3>3. /\ Cardinality(Msgs(new)) <= limit'
          /\ ConvsOf(Msgs(new)) \subseteq new["conversations"].ids
      BY <2>4, <3>2 DEF Changes
    <3> QED BY <3>1, <3>3 DEF Normalized, Msgs
  <2> QED BY <2>1, <2>3, <2>4 DEF Effect
<1>2. CASE Normalize
  <2>1. PICK new : /\ Cardinality(Msgs(new)) <= limit
                   /\ new["conversations"].ids = memory["conversations"].ids \cup ConvsOf(Msgs(new))
                   /\ Changes(new, {}, memory, {}) \/ memory' = new
    BY <1>2, NormalizeEffect
  <2>2. memory' = new /\ limit' = limit
    BY <1>2, <2>1 DEF Changes, Persist, Normalize
  <2>3. /\ Cardinality(Msgs(new)) <= limit'
        /\ ConvsOf(Msgs(new)) \subseteq new["conversations"].ids
    BY <2>1, <2>2
  <2> QED BY <2>2, <2>3 DEF Normalized, Msgs
<1>3. CASE \/ Load("messages", "down", "messages")
           \/ Load("conversations", "messages", "conversations")
           \/ Migrate \/ RenameLegacy \/ MigrationEnds \/ Crash
  BY <1>3 DEF Load, Migrate, RenameLegacy, MigrationEnds, Crash, Normalized
<1>4. CASE WriteTemp \/ RenameTemp \/ WriteFails \/ Saved \/ UNCHANGED vars
  <2>1. UNCHANGED <<memory, limit>>
    BY <1>4 DEF WriteTemp, RenameTemp, WriteFails, Saved, vars
  <2>2. mode' \in {"saving", "running"} => mode \in {"saving", "running"}
    BY <1>4 DEF WriteTemp, RenameTemp, WriteFails, Saved, vars
  <2> QED BY <2>1, <2>2 DEF Normalized, Msgs, ConvsOf
<1> QED BY <1>1, <1>2, <1>3, <1>4 DEF Next, StartUp

LEMMA NormalizedHolds == Spec => []Normalized
<1>1. Init => Normalized
  BY DEF Init, Normalized
<1>2. OrderInv /\ Normalized /\ [Next]_vars => Normalized'
  BY NextKeepsNormalized
<1> QED BY <1>1, <1>2, WritesAreInOrder, PTL DEF Spec

\* A running window never holds more messages than its limit, whatever was loaded
\* and whatever the limit was before (trimMessages, setMaxMessages).
THEOREM RetentionAlwaysHolds == Spec => []RetentionHolds
<1>1. Normalized => RetentionHolds
  BY DEF Normalized, RetentionHolds, Msgs
<1> QED BY <1>1, NormalizedHolds, PTL

\* Whatever two files a crash leaves, every message that is shown afterwards has a
\* conversation (rebuildMissingConversations).
THEOREM ShownMessagesHaveConversation == Spec => []MessagesHaveConversation
<1>1. Normalized => MessagesHaveConversation
  BY DEF Normalized, MessagesHaveConversation, Msgs
<1> QED BY <1>1, NormalizedHolds, PTL

----------------------------------------------------------------------------
\* Where the writes that wait find the messages, after each kind of step.

MsgsOf(i) == Ref(i, "messages").ids
BeingWritten == writing.temp # None /\ writing.file = "messages"

\* After a change: the waiting writes have what they had, what a detached array
\* held, or the new array; the new write has the new array.
LEMMA ChangedRefs ==
  ASSUME OrderInv, NEW new, NEW detached, NEW old, NEW clears,
         Changes(new, detached, old, clears)
  PROVE  /\ memory' = new /\ queue' # <<>>
         /\ \A i \in Waiting' : \/ i \in Waiting
                                \/ i \notin Waiting /\ i = Len(queue) + 1
         /\ \A i \in Waiting : /\ i \in Waiting' /\ i < Len(queue) + 1
                               /\ queue'[i].clears = queue[i].clears \ Stored(new)
                               /\ MsgsOf(i)' \in {MsgsOf(i), Msgs(old), Msgs(new)}
         /\ \A i \in Waiting' : i \notin Waiting =>
              /\ MsgsOf(i)' = Msgs(new) /\ queue'[i].clears = clears
              /\ \A f \in Files : queue'[i].array[f] = Live
         /\ Len(queue') = Len(queue) + 1
<1>1. /\ memory \in SomeArrays /\ queue \in Seq(Snapshot) /\ Len(queue) \in Nat
  BY InvFacts
<1>2. Persisted(new, detached, old, clears)
  BY <1>1, PersistQueue DEF Changes
<1>m. PICK n \in Nat : n = Len(queue) + 1
  BY <1>1
<1>3. /\ memory' = new /\ queue' \in Seq(Snapshot) /\ Len(queue') = n
      /\ \A i \in 1 .. Len(queue) :
           /\ queue'[i].clears = queue[i].clears \ Stored(new)
           /\ queue'[i].array["messages"] =
                IF "messages" \in detached /\ queue[i].array["messages"] = Live
                THEN old["messages"] ELSE queue[i].array["messages"]
      /\ queue'[n].clears = clears
      /\ \A f \in Files : queue'[n].array[f] = Live
  BY <1>2, <1>m DEF Persisted, Files
<1>4. Waiting' = 1 .. n /\ Waiting = 1 .. Len(queue)
  BY <1>3 DEF Waiting
<1>5. \A i : Ref(i, "messages")' = IF queue'[i].array["messages"] = Live THEN new["messages"]
                                   ELSE queue'[i].array["messages"]
  BY <1>3 DEF Ref, Referred
<1>6. \A i : Ref(i, "messages") = IF queue[i].array["messages"] = Live THEN memory["messages"]
                                  ELSE queue[i].array["messages"]
  BY DEF Ref, Referred
<1>7. ASSUME NEW i \in Waiting
      PROVE  /\ i \in Waiting' /\ i < n
             /\ queue'[i].clears = queue[i].clears \ Stored(new)
             /\ MsgsOf(i)' \in {MsgsOf(i), Msgs(old), Msgs(new)}
  <2>1. Ref(i, "messages")' \in {Ref(i, "messages"), old["messages"], new["messages"]}
    BY <1>3, <1>4, <1>5, <1>6
  <2>2. i \in Waiting' /\ i < n /\ queue'[i].clears = queue[i].clears \ Stored(new)
    BY <1>1, <1>m, <1>3, <1>4
  <2> QED BY <2>1, <2>2 DEF MsgsOf, Msgs
<1>8. \A i \in Waiting' : \/ i \in Waiting
                          \/ i \notin Waiting /\ i = n
  BY <1>1, <1>m, <1>4
<1>9. /\ MsgsOf(n)' = Msgs(new) /\ queue'[n].clears = clears
      /\ \A f \in Files : queue'[n].array[f] = Live
  <2>1. Ref(n, "messages")' = new["messages"]
    BY <1>3, <1>5 DEF Files
  <2> QED BY <2>1, <1>3 DEF MsgsOf, Msgs
<1>10. queue' # <<>>
  BY <1>3, <1>m, <1>1
<1> QED BY <1>m, <1>3, <1>7, <1>8, <1>9, <1>10

\* After the first write has left the queue.
LEMMA TailRefs ==
  ASSUME OrderInv, queue # <<>>, queue' = Tail(queue), UNCHANGED memory
  PROVE  /\ 1 \in Waiting
         /\ \A i \in Waiting' : /\ i + 1 \in Waiting /\ 1 <= i + 1
                                /\ queue'[i] = queue[i + 1]
                                /\ MsgsOf(i)' = MsgsOf(i + 1)
         /\ \A i \in Waiting', j \in Waiting' : i <= j => i + 1 <= j + 1
         /\ Len(queue') = Len(queue) - 1
<1>1. queue \in Seq(Snapshot) /\ Len(queue) \in Nat
  BY InvFacts
<1>2. /\ 1 \in Waiting /\ Len(queue') = Len(queue) - 1
      /\ \A i \in 1 .. Len(queue) - 1 : queue'[i] = queue[i + 1] /\ i + 1 \in Waiting
  BY <1>1, HeadAndTail
<1>3. Waiting' = 1 .. Len(queue) - 1
  BY <1>2 DEF Waiting
<1>4. ASSUME NEW i \in Waiting'
      PROVE  /\ i + 1 \in Waiting /\ 1 <= i + 1 /\ queue'[i] = queue[i + 1]
             /\ MsgsOf(i)' = MsgsOf(i + 1)
  <2>1. i + 1 \in Waiting /\ 1 <= i + 1 /\ queue'[i] = queue[i + 1]
    BY <1>1, <1>2, <1>3
  <2>2. Ref(i, "messages")' = Ref(i + 1, "messages")
    BY <2>1 DEF Ref, Referred
  <2> QED BY <2>1, <2>2 DEF MsgsOf
<1>5. \A i \in Waiting', j \in Waiting' : i <= j => i + 1 <= j + 1
  BY <1>1, <1>3
<1> QED BY <1>2, <1>4, <1>5

\* What a step of a write does to messages.json.
LEMMA RenamedFile ==
  ASSUME OrderInv, RenameTemp
  PROVE  /\ queue # <<>> /\ 1 \in Waiting /\ queue[1] = Head(queue)
         /\ writing.file \in Files /\ writing.temp \in Array
         /\ OnDisk("messages")' = IF writing.file = "messages" THEN writing.temp.ids
                                  ELSE OnDisk("messages")
         /\ OnDisk("conversations")' = IF writing.file = "conversations" THEN writing.temp.ids
                                       ELSE OnDisk("conversations")
<1>1. /\ TypeOK /\ queue \in Seq(Snapshot) /\ writing.file \in Files
      /\ writing.temp \in Array \cup {None} /\ \A f \in Files : Order(f)
  BY InvFacts
<1>2. writing.temp # None /\ files' = [files EXCEPT ![writing.file] = writing.temp]
  BY DEF RenameTemp
<1>3. queue # <<>> /\ writing.temp \in Array
  BY <1>1, <1>2 DEF Order, WritingOrder
<1>4. 1 \in Waiting /\ queue[1] = Head(queue)
  BY <1>1, <1>3, HeadAndTail
<1>5. files \in [Files -> Array \cup {None}]
  BY <1>1 DEF TypeOK
<1>6. \A f \in Files : files'[f] = IF f = writing.file THEN writing.temp ELSE files[f]
  BY <1>2, <1>5
<1>7. \A f \in Files : OnDisk(f)' = IF f = writing.file THEN writing.temp.ids ELSE OnDisk(f)
  BY <1>3, <1>6, LiveAndNoneAreNoArrays DEF OnDisk
<1> QED BY <1>1, <1>3, <1>4, <1>7 DEF Files

LEMMA WrittenTemp ==
  ASSUME OrderInv, WriteTemp
  PROVE  /\ 1 \in Waiting /\ writing'.file = writing.file
         /\ writing'.temp = Ref(1, writing.file)
         /\ UNCHANGED <<mode, limit, memory, queue, files, legacy, acked, gone, cleared, unsaved,
                        unwritten, lost>>
         /\ writing.temp = None
<1>1. TypeOK /\ queue \in Seq(Snapshot)
  BY InvFacts
<1>2. /\ queue # <<>> /\ writing.temp = None
      /\ writing' = [writing EXCEPT !.temp = Referred(Head(queue), writing.file)]
      /\ UNCHANGED <<mode, limit, memory, queue, files, legacy, acked, gone, cleared, unsaved,
                        unwritten, lost>>
  BY DEF WriteTemp, seen
<1>3. 1 \in Waiting /\ Head(queue) = queue[1]
  BY <1>1, <1>2, HeadAndTail
<1>4. writing \in [file : Files, temp : Array \cup {None}]
  BY <1>1 DEF TypeOK
<1> QED BY <1>2, <1>3, <1>4 DEF Ref

\* What load finds.
LEMMA LoadedFile ==
  ASSUME OrderInv, NEW g \in Files, NEW from, NEW to, Load(g, from, to)
  PROVE  /\ \A f \in Files : f # g => memory'[f] = memory[f] /\ OnDisk(f)' = OnDisk(f)
         /\ \/ /\ memory'[g].ids = OnDisk(g) /\ OnDisk(g)' = OnDisk(g)
               /\ UNCHANGED <<unsaved, lost>>
            \/ /\ memory'[g].ids = {}
               /\ lost' = (lost \/ (g = "messages" /\ legacy = "renamed"))
               /\ \/ OnDisk(g)' = {} /\ UNCHANGED unsaved
                  \/ OnDisk(g)' = OnDisk(g) /\ unsaved' = TRUE
         /\ UNCHANGED <<gone, cleared, unwritten, legacy, queue, writing, limit>>
         /\ mode = from /\ mode' = to
<1>1. TypeOK /\ memory \in SomeArrays
  BY InvFacts
<1>2. /\ mode = from /\ mode' = to /\ UNCHANGED <<limit, queue, writing, legacy>>
      /\ LoadFile(g) \/ LoadBadFile(g)
  BY DEF Load
<1>3. files \in [Files -> Array \cup {None}] /\ files[g] \in Array \cup {None}
  BY <1>1 DEF TypeOK
<1>4. Empty.ids = {}
  BY DEF Empty
<1>5. CASE LoadFile(g)
  <2>1. /\ memory' = [memory EXCEPT ![g] = IF files[g] = None THEN Empty ELSE files[g]]
        /\ UNCHANGED <<files, gone, cleared, unsaved, unwritten, lost>>
    BY <1>5 DEF LoadFile, seen
  <2>2. /\ memory'[g] = IF files[g] = None THEN Empty ELSE files[g]
        /\ \A f \in Files : f # g => memory'[f] = memory[f]
    BY <2>1, <1>1 DEF SomeArrays
  <2>3. memory'[g].ids = OnDisk(g) /\ \A f \in Files : OnDisk(f)' = OnDisk(f)
    BY <2>1, <2>2, <1>4 DEF OnDisk
  <2> QED BY <2>1, <2>2, <2>3, <1>2
<1>6. CASE LoadBadFile(g)
  <2>1. /\ files[g] # None /\ memory' = [memory EXCEPT ![g] = Empty]
        /\ UNCHANGED <<gone, cleared, unwritten>>
        /\ lost' = (lost \/ (g = "messages" /\ legacy = "renamed"))
        /\ \/ files' = [files EXCEPT ![g] = None] /\ UNCHANGED unsaved
           \/ files' = [files EXCEPT ![g].v = 0] /\ unsaved' = TRUE
    BY <1>6 DEF LoadBadFile
  <2>2. /\ memory'[g] = Empty /\ \A f \in Files : f # g => memory'[f] = memory[f]
    BY <2>1, <1>1 DEF SomeArrays
  <2>3. files[g] \in Array
    BY <2>1, <1>3
  <2>4. \A f \in Files : f # g => files'[f] = files[f]
    BY <2>1, <1>3
  <2>5. \A f \in Files : f # g => OnDisk(f)' = OnDisk(f)
    BY <2>4 DEF OnDisk
  <2>6. \/ OnDisk(g)' = {} /\ UNCHANGED unsaved
        \/ OnDisk(g)' = OnDisk(g) /\ unsaved' = TRUE
    <3>1. CASE files' = [files EXCEPT ![g] = None] /\ UNCHANGED unsaved
      BY <3>1, <1>3 DEF OnDisk
    <3>2. CASE files' = [files EXCEPT ![g].v = 0] /\ unsaved' = TRUE
      <4>1. files'[g] = [files[g] EXCEPT !.v = 0]
        BY <3>2, <1>3
      <4>2. [files[g] EXCEPT !.v = 0] \in Array /\ [files[g] EXCEPT !.v = 0].ids = files[g].ids
        BY <2>3 DEF Array
      <4>3. OnDisk(g)' = files'[g].ids /\ OnDisk(g) = files[g].ids
        BY <4>1, <4>2, <2>1, LiveAndNoneAreNoArrays DEF OnDisk
      <4> QED BY <4>1, <4>2, <4>3, <3>2
    <3> QED BY <2>1, <3>1, <3>2
  <2> QED BY <2>1, <2>2, <2>5, <2>6, <1>2, <1>4
<1> QED BY <1>2, <1>5, <1>6

\* The first write waits as long as a file of it is written.
LEMMA FirstWaits ==
  ASSUME OrderInv, BeingWritten \/ writing.file = "conversations"
  PROVE  1 \in Waiting /\ queue # <<>>
<1>1. /\ queue \in Seq(Snapshot) /\ Order("messages")
  BY InvFacts DEF Files
<1>2. queue # <<>>
  BY <1>1 DEF Order, WritingOrder, BeingWritten
<1> QED BY <1>1, <1>2, HeadAndTail

\* The start-up runs with an empty queue until something is persisted.
LEMMA StartUpIsQuiet ==
  ASSUME OrderInv,
         mode \in {"down", "messages", "conversations", "migrating", "loaded"} \/ queue = <<>>
  PROVE  queue = <<>> /\ writing = Idle /\ Waiting = {} /\ Len(queue) = 0
<1>1. Quiet
  BY DEF OrderInv
<1>2. queue = <<>>
  BY <1>1 DEF Quiet, Loading
<1> QED BY <1>1, <1>2 DEF Quiet, Waiting

----------------------------------------------------------------------------
\* Cleared messages: a write that follows a clear() never stores what the clear()
\* removed, unless it is stored again, which takes it off both.

ClearInv ==
  /\ cleared \cap Msgs(memory) = {}
  /\ cleared \cap OnDisk("messages") = {}
  /\ BeingWritten => (cleared \cup queue[1].clears) \cap writing.temp.ids = {}
  /\ writing.file = "conversations" => queue[1].clears \cap OnDisk("messages") = {}
  /\ \A i \in Waiting :
       /\ queue[i].clears \cap Msgs(memory) = {}
       /\ cleared \cap MsgsOf(i) = {}
       /\ \A j \in Waiting : i <= j => queue[i].clears \cap MsgsOf(j) = {}
  /\ legacy = "present" => cleared \cap Legacy = {}

LEMMA ChangesKeepClear ==
  ASSUME OrderInv, ClearInv, NEW new, NEW detached, NEW old, NEW clears,
         Changes(new, detached, old, clears), UNCHANGED <<writing, files>>,
         legacy' = "present" => legacy = "present"
  PROVE  ClearInv'
<1>1. /\ memory' = new
      /\ \A i \in Waiting' : \/ i \in Waiting
                             \/ i \notin Waiting /\ i = Len(queue) + 1
      /\ \A i \in Waiting : /\ i \in Waiting' /\ i < Len(queue) + 1
                            /\ queue'[i].clears = queue[i].clears \ Stored(new)
                            /\ MsgsOf(i)' \in {MsgsOf(i), Msgs(old), Msgs(new)}
      /\ \A i \in Waiting' : i \notin Waiting =>
           MsgsOf(i)' = Msgs(new) /\ queue'[i].clears = clears
  BY ChangedRefs
<1>2. /\ Msgs(new) \subseteq Msgs(old) /\ Msgs(old) \subseteq Msgs(memory) \cup Msgs(new)
      /\ cleared' = cleared \ Stored(new) /\ clears \cap Msgs(new) = {}
  <2>1. clears \subseteq gone' \ Msgs(new)
    BY DEF Changes
  <2> QED BY <2>1 DEF Changes
<1>3. cleared' \subseteq cleared /\ cleared' \cap Msgs(old) = {} /\ cleared' \cap Msgs(new) = {}
  BY <1>2 DEF ClearInv, Stored
<1>4. ASSUME NEW i \in Waiting
      PROVE  /\ queue'[i].clears \subseteq queue[i].clears
             /\ queue'[i].clears \cap Msgs(old) = {} /\ queue'[i].clears \cap Msgs(new) = {}
  <2>1. queue[i].clears \cap Msgs(memory) = {} /\ queue'[i].clears = queue[i].clears \ Stored(new)
    BY <1>1, <1>4 DEF ClearInv
  <2> QED BY <2>1, <1>2 DEF Stored
<1>5. OnDisk("messages")' = OnDisk("messages") /\ Msgs(memory)' = Msgs(new)
      /\ BeingWritten' = BeingWritten
  BY <1>1 DEF OnDisk, Msgs, BeingWritten
<1>6. ASSUME NEW i \in Waiting'
      PROVE  /\ queue'[i].clears \cap Msgs(new) = {}
             /\ cleared' \cap MsgsOf(i)' = {}
             /\ \A j \in Waiting' : i <= j => queue'[i].clears \cap MsgsOf(j)' = {}
  <2>1. CASE i \in Waiting
    <3>1. /\ queue'[i].clears \subseteq queue[i].clears
          /\ MsgsOf(i)' \in {MsgsOf(i), Msgs(old), Msgs(new)}
      BY <1>1, <1>4, <2>1
    <3>2. cleared \cap MsgsOf(i) = {}
      BY <2>1 DEF ClearInv
    <3>3. ASSUME NEW j \in Waiting', i <= j PROVE queue'[i].clears \cap MsgsOf(j)' = {}
      <4>1. CASE j \in Waiting
        <5>1. MsgsOf(j)' \in {MsgsOf(j), Msgs(old), Msgs(new)}
          BY <1>1, <4>1
        <5>2. queue[i].clears \cap MsgsOf(j) = {}
          BY <2>1, <3>3, <4>1 DEF ClearInv
        <5> QED BY <5>1, <5>2, <3>1, <1>4, <2>1
      <4>2. CASE j \notin Waiting
        BY <4>2, <1>1, <1>4, <2>1, <3>3
      <4> QED BY <4>1, <4>2
    <3> QED BY <3>1, <3>2, <3>3, <1>3, <1>4, <2>1
  <2>2. CASE i \notin Waiting
    <3>1. MsgsOf(i)' = Msgs(new) /\ queue'[i].clears = clears /\ i = Len(queue) + 1
      BY <1>1, <2>2
    <3>2. ASSUME NEW j \in Waiting', i <= j PROVE MsgsOf(j)' = Msgs(new)
      <4>1. Len(queue) \in Nat /\ j \in Nat
        BY InvFacts DEF Waiting
      <4>2. j \notin Waiting
        BY <3>1, <3>2, <4>1 DEF Waiting
      <4> QED BY <4>2, <1>1
    <3> QED BY <3>1, <3>2, <1>2, <1>3
  <2> QED BY <2>1, <2>2
<1>7. BeingWritten \/ writing.file = "conversations" => queue'[1].clears \subseteq queue[1].clears
  BY <1>4, FirstWaits
<1> QED BY <1>3, <1>5, <1>6, <1>7 DEF ClearInv

\* A step with an empty queue only has memory and the file to keep clear.
LEMMA QuietStepKeepsClear ==
  ASSUME OrderInv, ClearInv, queue' = <<>>, writing' = Idle,
         UNCHANGED cleared, cleared \cap Msgs(memory)' = {},
         OnDisk("messages")' \subseteq OnDisk("messages"),
         legacy' = "present" => legacy = "present"
  PROVE  ClearInv'
<1>1. Waiting' = {} /\ ~BeingWritten' /\ writing'.file = "messages"
  BY DEF Waiting, BeingWritten, Idle
<1>2. cleared' \cap OnDisk("messages")' = {}
  BY DEF ClearInv
<1> QED BY <1>1, <1>2 DEF ClearInv

LEMMA TailKeepsClear ==
  ASSUME OrderInv, ClearInv, queue # <<>>, queue' = Tail(queue), writing' = Idle,
         UNCHANGED <<memory, legacy>>,
         cleared' \subseteq cleared \cup queue[1].clears,
         legacy = "present" => cleared' \cap Legacy = {},
         cleared' \cap OnDisk("messages")' = {}
  PROVE  ClearInv'
<1>1. /\ 1 \in Waiting
      /\ \A i \in Waiting' : /\ i + 1 \in Waiting /\ 1 <= i + 1
                             /\ queue'[i] = queue[i + 1]
                             /\ MsgsOf(i)' = MsgsOf(i + 1)
      /\ \A i \in Waiting', j \in Waiting' : i <= j => i + 1 <= j + 1
  BY TailRefs
<1>2. /\ cleared' \cap Msgs(memory)' = {}
      /\ \A i \in Waiting : cleared' \cap MsgsOf(i) = {}
  <2>1. \A i \in Waiting : 1 <= i
    BY DEF Waiting
  <2> QED BY <2>1, <1>1 DEF ClearInv, Msgs
<1>3. ~BeingWritten' /\ writing'.file = "messages"
  BY DEF BeingWritten, Idle
<1>4. ASSUME NEW i \in Waiting'
      PROVE  /\ queue'[i].clears \cap Msgs(memory)' = {}
             /\ cleared' \cap MsgsOf(i)' = {}
             /\ \A j \in Waiting' : i <= j => queue'[i].clears \cap MsgsOf(j)' = {}
  <2>1. /\ i + 1 \in Waiting /\ queue'[i] = queue[i + 1] /\ MsgsOf(i)' = MsgsOf(i + 1)
    BY <1>1
  <2>2. /\ queue[i + 1].clears \cap Msgs(memory) = {}
        /\ \A j \in Waiting : i + 1 <= j => queue[i + 1].clears \cap MsgsOf(j) = {}
    BY <2>1 DEF ClearInv
  <2>3. ASSUME NEW j \in Waiting', i <= j PROVE queue'[i].clears \cap MsgsOf(j)' = {}
    <3>1. j + 1 \in Waiting /\ i + 1 <= j + 1 /\ MsgsOf(j)' = MsgsOf(j + 1)
      BY <1>1, <2>3
    <3> QED BY <3>1, <2>1, <2>2
  <2> QED BY <2>1, <2>2, <2>3, <1>2 DEF Msgs
<1> QED BY <1>2, <1>3, <1>4 DEF ClearInv

LEMMA WriteKeepsClear ==
  ASSUME OrderInv, ClearInv, WriteTemp \/ RenameTemp \/ WriteFails
  PROVE  ClearInv'
<1>1. CASE WriteTemp
  <2>1. /\ 1 \in Waiting /\ writing'.file = writing.file
        /\ writing'.temp = Ref(1, writing.file)
        /\ UNCHANGED <<memory, queue, files, legacy, gone, cleared>>
    BY <1>1, WrittenTemp
  <2>2. (cleared \cup queue[1].clears) \cap MsgsOf(1) = {}
    BY <2>1 DEF ClearInv
  <2>3. /\ Msgs(memory)' = Msgs(memory) /\ OnDisk("messages")' = OnDisk("messages")
        /\ Waiting' = Waiting /\ \A i \in Waiting : MsgsOf(i)' = MsgsOf(i)
    BY <2>1 DEF Msgs, OnDisk, Waiting, MsgsOf, Ref, Referred
  <2>4. BeingWritten' => (cleared \cup queue[1].clears) \cap writing'.temp.ids = {}
    BY <2>1, <2>2 DEF BeingWritten, MsgsOf
  <2> QED BY <2>1, <2>3, <2>4 DEF ClearInv
<1>2. CASE RenameTemp
  <2>1. /\ queue # <<>> /\ 1 \in Waiting /\ queue[1] = Head(queue)
        /\ writing.file \in Files /\ writing.temp # None
        /\ OnDisk("messages")' = IF writing.file = "messages" THEN writing.temp.ids
                                 ELSE OnDisk("messages")
        /\ UNCHANGED <<memory, legacy, gone>>
    BY <1>2, RenamedFile DEF RenameTemp
  <2>2. CASE writing.file = "messages"
    <3>1. /\ writing' = [file |-> "conversations", temp |-> None]
          /\ UNCHANGED <<queue, cleared>>
      BY <1>2, <2>2 DEF RenameTemp
    <3>2. (cleared \cup queue[1].clears) \cap OnDisk("messages")' = {}
      BY <2>1, <2>2 DEF ClearInv, BeingWritten
    <3>3. /\ Msgs(memory)' = Msgs(memory)
          /\ Waiting' = Waiting /\ \A i \in Waiting : MsgsOf(i)' = MsgsOf(i)
          /\ ~BeingWritten'
      BY <2>1, <3>1 DEF Msgs, Waiting, MsgsOf, Ref, Referred, BeingWritten
    <3> QED BY <2>1, <3>1, <3>2, <3>3 DEF ClearInv
  <2>3. CASE writing.file = "conversations"
    <3>1. /\ writing' = Idle /\ queue' = Tail(queue)
          /\ cleared' = cleared \cup (queue[1].clears \ InLegacy)
      BY <1>2, <2>1, <2>3 DEF RenameTemp
    <3>2. (cleared \cup queue[1].clears) \cap OnDisk("messages")' = {}
      BY <2>1, <2>3 DEF ClearInv
    <3>3. legacy = "present" => cleared' \cap Legacy = {}
      BY <3>1 DEF ClearInv, InLegacy
    <3> QED BY <2>1, <3>1, <3>2, <3>3, TailKeepsClear
  <2> QED BY <2>1, <2>2, <2>3 DEF Files
<1>3. CASE WriteFails
  <2>1. /\ queue # <<>> /\ queue' = Tail(queue) /\ writing' = Idle
        /\ UNCHANGED <<memory, files, legacy, gone, cleared>>
    BY <1>3 DEF WriteFails
  <2>2. OnDisk("messages")' = OnDisk("messages")
    BY <2>1 DEF OnDisk
  <2> QED BY <2>1, <2>2, TailKeepsClear DEF ClearInv
<1> QED BY <1>1, <1>2, <1>3

LEMMA StartUpKeepsClear ==
  ASSUME OrderInv, ClearInv, StartUp \/ Crash
  PROVE  ClearInv'
<1>1. ASSUME NEW g \in Files, NEW from \in {"down", "messages"}, NEW to, Load(g, from, to)
      PROVE  ClearInv'
  <2>1. /\ \A f \in Files : f # g => memory'[f] = memory[f] /\ OnDisk(f)' = OnDisk(f)
        /\ memory'[g].ids \subseteq OnDisk(g) /\ OnDisk(g)' \subseteq OnDisk(g)
        /\ UNCHANGED <<gone, cleared, legacy, queue, writing>> /\ mode = from
    BY <1>1, LoadedFile
  <2>2. queue' = <<>> /\ writing' = Idle
    BY <2>1, StartUpIsQuiet
  <2>3. cleared \cap Msgs(memory)' = {} /\ OnDisk("messages")' \subseteq OnDisk("messages")
    BY <2>1 DEF ClearInv, Msgs, Files
  <2> QED BY <2>1, <2>2, <2>3, QuietStepKeepsClear
<1>2. CASE Migrate
  <2>1. /\ mode = "conversations" /\ UNCHANGED <<queue, writing, files, legacy, gone, cleared>>
        /\ \/ legacy = "present" /\ Msgs(memory)' = Legacy
           \/ UNCHANGED memory
    BY <1>2 DEF Migrate, seen, Msgs, Edited
  <2>2. queue' = <<>> /\ writing' = Idle
    BY <2>1, StartUpIsQuiet
  <2>3. cleared \cap Msgs(memory)' = {} /\ OnDisk("messages")' \subseteq OnDisk("messages")
    BY <2>1 DEF ClearInv, Msgs, OnDisk
  <2> QED BY <2>1, <2>2, <2>3, QuietStepKeepsClear
<1>3. CASE RenameLegacy
  <2>1. /\ mode = "migrating" /\ UNCHANGED <<writing, files, gone, cleared>>
        /\ \/ legacy' = "renamed" /\ Persist(memory, {}, memory, {})
           \/ UNCHANGED <<legacy, memory, queue>>
    BY <1>3 DEF RenameLegacy, seen
  <2>2. queue = <<>> /\ writing = Idle
    BY <2>1, StartUpIsQuiet
  <2>3. CASE UNCHANGED <<legacy, memory, queue>>
    <3>1. cleared \cap Msgs(memory)' = {} /\ OnDisk("messages")' \subseteq OnDisk("messages")
      BY <2>1, <2>3 DEF ClearInv, Msgs, OnDisk
    <3> QED BY <2>1, <2>2, <2>3, <3>1, QuietStepKeepsClear
  <2>4. CASE legacy' = "renamed" /\ Persist(memory, {}, memory, {})
    <3>1. Changes(memory, {}, memory, {})
      BY <2>1, <2>4, RenameLegacyChange, <1>3
    <3> QED BY <3>1, <2>1, <2>4, ChangesKeepClear
  <2> QED BY <2>1, <2>3, <2>4
<1>4. CASE MigrationEnds \/ Saved
  <2>1. /\ queue = <<>> /\ UNCHANGED <<memory, queue, writing, files, legacy, gone, cleared>>
    BY <1>4 DEF MigrationEnds, Saved, seen
  <2>2. writing' = Idle
    BY <2>1, StartUpIsQuiet
  <2>3. cleared \cap Msgs(memory)' = {} /\ OnDisk("messages")' \subseteq OnDisk("messages")
    BY <2>1 DEF ClearInv, Msgs, OnDisk
  <2> QED BY <2>1, <2>2, <2>3, QuietStepKeepsClear
<1>5. CASE Normalize
  <2>1. mode = "loaded" /\ UNCHANGED <<writing, files, legacy, cleared>>
    BY <1>5 DEF Normalize
  <2>2. PICK new : /\ gone \subseteq gone' /\ Msgs(new) \subseteq Msgs(memory)
                   /\ \/ Changes(new, {}, memory, {})
                      \/ memory' = new /\ UNCHANGED queue
    BY <1>5, NormalizeEffect
  <2>3. queue = <<>> /\ writing = Idle
    BY <2>1, StartUpIsQuiet
  <2>4. CASE memory' = new /\ UNCHANGED queue
    <3>1. cleared \cap Msgs(memory)' = {} /\ OnDisk("messages")' \subseteq OnDisk("messages")
      BY <2>1, <2>2, <2>4 DEF ClearInv, Msgs, OnDisk
    <3> QED BY <2>1, <2>2, <2>3, <2>4, <3>1, QuietStepKeepsClear
  <2>5. CASE Changes(new, {}, memory, {})
    BY <2>1, <2>2, <2>5, ChangesKeepClear
  <2> QED BY <2>2, <2>4, <2>5
<1>6. CASE Crash
  <2>1. /\ queue' = <<>> /\ writing' = Idle /\ UNCHANGED <<files, legacy, gone, cleared>>
        /\ memory' = [f \in Files |-> Empty]
    BY <1>6 DEF Crash
  <2>2. Msgs(memory)' = {} /\ OnDisk("messages")' = OnDisk("messages")
    BY <2>1 DEF Msgs, OnDisk, Empty, Files
  <2> QED BY <2>1, <2>2, QuietStepKeepsClear
<1> QED BY <1>1, <1>2, <1>3, <1>4, <1>5, <1>6 DEF StartUp, Files

LEMMA NextKeepsClear ==
  ASSUME OrderInv, ClearInv, [Next]_vars
  PROVE  ClearInv'
<1>1. CASE Operation
  <2>1. Effect
    BY <1>1, InvFacts, OperationEffect
  <2>2. UNCHANGED <<writing, files, legacy>>
    BY <2>1 DEF Effect
  <2>3. CASE UNCHANGED <<memory, queue, cleared>>
    BY <2>2, <2>3 DEF ClearInv, BeingWritten, Msgs, MsgsOf, OnDisk, Waiting, Ref, Referred
  <2>4. ASSUME NEW new, NEW detached, NEW old, NEW clears, Changes(new, detached, old, clears)
        PROVE  ClearInv'
    BY <2>2, <2>4, ChangesKeepClear
  <2> QED BY <2>1, <2>3, <2>4 DEF Effect
<1>2. CASE UNCHANGED vars
  BY <1>2 DEF vars, seen, ClearInv, BeingWritten, Msgs, MsgsOf, OnDisk, Waiting, Ref, Referred
<1> QED BY <1>1, <1>2, WriteKeepsClear, StartUpKeepsClear DEF Next

\* Messages whose clear() has returned do not come back unless upsertMessage stores
\* them again: no write and no restart brings them (HistoryStore.clear, the write
\* queue and load).
THEOREM ClearedNeverReturn == Spec => []ClearedStaysCleared
<1>1. Init => ClearInv
  <2> SUFFICES ASSUME Init PROVE ClearInv
    OBVIOUS
  <2>1. Waiting = {} /\ ~BeingWritten /\ writing.file = "messages"
    BY DEF Init, Waiting, BeingWritten, Idle
  <2> QED BY <2>1 DEF Init, ClearInv
<1>2. OrderInv /\ ClearInv /\ [Next]_vars => ClearInv'
  BY NextKeepsClear
<1>3. ClearInv => ClearedStaysCleared
  BY DEF ClearInv, ClearedStaysCleared, Msgs
<1> QED BY <1>1, <1>2, <1>3, WritesAreInOrder, PTL DEF Spec

----------------------------------------------------------------------------
\* Migrated messages: they are in memory, in every write that waits and, once
\* written, in the file.

Migrated(ids) == Legacy \subseteq ids \cup gone

LegacyInv ==
  /\ mode = "down" => ~unwritten
  /\ mode = "migrating" => legacy = "present" /\ Legacy \subseteq Msgs(memory)
  /\ (legacy = "renamed" /\ ~lost) =>
       /\ mode # "down" => Migrated(Msgs(memory))
       /\ \A i \in Waiting : Migrated(MsgsOf(i))
       /\ BeingWritten => Migrated(writing.temp.ids)
       /\ ~unwritten => Migrated(OnDisk("messages"))

LEMMA ChangesKeepMigrated ==
  ASSUME OrderInv, NEW new, NEW detached, NEW old, NEW clears,
         Changes(new, detached, old, clears), gone \subseteq gone',
         Migrated(Msgs(memory)), \A i \in Waiting : Migrated(MsgsOf(i))
  PROVE  /\ Migrated(Msgs(memory))'
         /\ \A i \in Waiting' : Migrated(MsgsOf(i))'
<1>1. /\ memory' = new
      /\ \A i \in Waiting : MsgsOf(i)' \in {MsgsOf(i), Msgs(old), Msgs(new)}
      /\ \A i \in Waiting' : i \notin Waiting => MsgsOf(i)' = Msgs(new)
  BY ChangedRefs
<1>2. /\ Msgs(memory) \subseteq Msgs(old) /\ Msgs(old) \ Msgs(new) \subseteq gone'
  BY DEF Changes
<1>3. /\ Legacy \subseteq Msgs(old) \cup gone' /\ Legacy \subseteq Msgs(new) \cup gone'
  BY <1>2 DEF Migrated
<1>4. Msgs(memory)' = Msgs(new)
  BY <1>1 DEF Msgs
<1>5. ASSUME NEW i \in Waiting' PROVE Legacy \subseteq MsgsOf(i)' \cup gone'
  <2>1. CASE i \in Waiting
    <3>1. Legacy \subseteq MsgsOf(i) \cup gone'
      BY <2>1 DEF Migrated
    <3> QED BY <3>1, <2>1, <1>1, <1>3
  <2>2. CASE i \notin Waiting
    BY <2>2, <1>1, <1>3
  <2> QED BY <2>1, <2>2
<1> QED BY <1>3, <1>4, <1>5 DEF Migrated

LEMMA OperationKeepsLegacy ==
  ASSUME OrderInv, LegacyInv, Effect
  PROVE  LegacyInv'
<1>1. /\ mode = "running" /\ mode' = "running" /\ gone \subseteq gone'
      /\ UNCHANGED <<writing, files, legacy, unwritten, lost>>
  BY DEF Effect
<1>2. CASE UNCHANGED <<memory, queue, gone>>
  BY <1>1, <1>2
  DEF LegacyInv, BeingWritten, Migrated, Msgs, MsgsOf, OnDisk, Waiting, Ref, Referred
<1>3. ASSUME NEW new, NEW detached, NEW old, NEW clears, Changes(new, detached, old, clears)
      PROVE  LegacyInv'
  <2> SUFFICES ASSUME legacy = "renamed", ~lost
               PROVE  /\ Migrated(Msgs(memory))'
                      /\ \A i \in Waiting' : Migrated(MsgsOf(i))'
                      /\ BeingWritten => Migrated(writing.temp.ids)'
                      /\ ~unwritten => Migrated(OnDisk("messages"))'
    BY <1>1 DEF LegacyInv, BeingWritten
  <2>1. /\ Migrated(Msgs(memory)) /\ \A i \in Waiting : Migrated(MsgsOf(i))
        /\ BeingWritten => Migrated(writing.temp.ids)
        /\ ~unwritten => Migrated(OnDisk("messages"))
    BY <1>1 DEF LegacyInv
  <2>2. Migrated(Msgs(memory))' /\ \A i \in Waiting' : Migrated(MsgsOf(i))'
    BY <2>1, <1>1, <1>3, ChangesKeepMigrated
  <2>3. writing'.temp.ids = writing.temp.ids /\ OnDisk("messages")' = OnDisk("messages")
    BY <1>1 DEF OnDisk
  <2>4. /\ Migrated(writing.temp.ids) => Migrated(writing.temp.ids)'
        /\ Migrated(OnDisk("messages")) => Migrated(OnDisk("messages"))'
    BY <2>3, <1>1 DEF Migrated
  <2> QED BY <2>1, <2>2, <2>4
<1> QED BY <1>2, <1>3 DEF Effect

LEMMA WriteKeepsLegacy ==
  ASSUME OrderInv, LegacyInv, WriteTemp \/ RenameTemp \/ WriteFails
  PROVE  LegacyInv'
<1>1. CASE WriteTemp
  <2>1. /\ 1 \in Waiting /\ writing'.file = writing.file
        /\ writing'.temp = Ref(1, writing.file)
        /\ UNCHANGED <<mode, memory, queue, files, legacy, gone, unwritten, lost>>
    BY <1>1, WrittenTemp
  <2>2. BeingWritten' => writing'.temp.ids = MsgsOf(1)
    BY <2>1 DEF BeingWritten, MsgsOf
  <2>3. /\ Msgs(memory)' = Msgs(memory) /\ OnDisk("messages")' = OnDisk("messages")
        /\ Waiting' = Waiting /\ \A i \in Waiting : MsgsOf(i)' = MsgsOf(i)
    BY <2>1 DEF Msgs, OnDisk, Waiting, MsgsOf, Ref, Referred
  <2> QED BY <2>1, <2>2, <2>3 DEF LegacyInv, Migrated
<1>2. CASE RenameTemp
  <2>1. /\ queue # <<>> /\ writing.file \in Files /\ writing.temp # None
        /\ OnDisk("messages")' = IF writing.file = "messages" THEN writing.temp.ids
                                 ELSE OnDisk("messages")
        /\ UNCHANGED <<mode, memory, legacy, gone, lost>>
    BY <1>2, RenamedFile DEF RenameTemp
  <2>2. CASE writing.file = "messages"
    <3>1. /\ writing' = [file |-> "conversations", temp |-> None]
          /\ unwritten' = FALSE /\ UNCHANGED queue
      BY <1>2, <2>2 DEF RenameTemp
    <3>2. /\ Msgs(memory)' = Msgs(memory) /\ OnDisk("messages")' = writing.temp.ids
          /\ Waiting' = Waiting /\ \A i \in Waiting : MsgsOf(i)' = MsgsOf(i)
          /\ BeingWritten /\ ~BeingWritten'
      BY <2>1, <2>2, <3>1 DEF Msgs, Waiting, MsgsOf, Ref, Referred, BeingWritten
    <3> QED BY <2>1, <3>1, <3>2 DEF LegacyInv, Migrated
  <2>3. CASE writing.file = "conversations"
    <3>1. /\ writing' = Idle /\ queue' = Tail(queue) /\ UNCHANGED unwritten
      BY <1>2, <2>3 DEF RenameTemp
    <3>2. \A i \in Waiting' : i + 1 \in Waiting /\ MsgsOf(i)' = MsgsOf(i + 1)
      BY <2>1, <3>1, TailRefs
    <3>3. /\ Msgs(memory)' = Msgs(memory) /\ OnDisk("messages")' = OnDisk("messages")
          /\ ~BeingWritten' /\ writing'.file = "messages"
      BY <2>1, <2>3, <3>1 DEF Msgs, BeingWritten, Idle
    <3> QED BY <2>1, <2>3, <3>1, <3>2, <3>3 DEF LegacyInv, Migrated
  <2> QED BY <2>1, <2>2, <2>3 DEF Files
<1>3. CASE WriteFails
  <2>1. /\ queue # <<>> /\ queue' = Tail(queue) /\ writing' = Idle
        /\ mode' = IF mode = "saving" THEN "rejected" ELSE mode
        /\ UNCHANGED <<memory, files, legacy, gone, unwritten, lost>>
    BY <1>3 DEF WriteFails
  <2>2. \A i \in Waiting' : i + 1 \in Waiting /\ MsgsOf(i)' = MsgsOf(i + 1)
    BY <2>1, TailRefs
  <2>3. mode # "down" /\ mode # "migrating"
    BY <2>1, StartUpIsQuiet
  <2>4. /\ Msgs(memory)' = Msgs(memory) /\ OnDisk("messages")' = OnDisk("messages")
        /\ ~BeingWritten' /\ writing'.file = "messages"
    BY <2>1 DEF Msgs, OnDisk, BeingWritten, Idle
  <2> QED BY <2>1, <2>2, <2>3, <2>4 DEF LegacyInv, Migrated
<1> QED BY <1>1, <1>2, <1>3

\* A step with an empty queue only has memory and the file to keep.
LEMMA QuietStepKeepsLegacy ==
  ASSUME queue' = <<>>, writing' = Idle, mode' = "down" => ~unwritten',
         mode' = "migrating" => legacy' = "present" /\ Legacy \subseteq Msgs(memory)',
         (legacy' = "renamed" /\ ~lost') =>
           /\ mode' # "down" => Migrated(Msgs(memory))'
           /\ ~unwritten' => Migrated(OnDisk("messages"))'
  PROVE  LegacyInv'
<1>1. Waiting' = {} /\ ~BeingWritten' /\ writing'.file = "messages"
  BY DEF Waiting, BeingWritten, Idle
<1> QED BY <1>1 DEF LegacyInv

LEMMA StartUpKeepsLegacy ==
  ASSUME OrderInv, LegacyInv, StartUp \/ Crash
  PROVE  LegacyInv'
<1>1. CASE Load("messages", "down", "messages")
  <2>1. /\ \/ /\ memory'["messages"].ids = OnDisk("messages")
              /\ OnDisk("messages")' = OnDisk("messages") /\ UNCHANGED lost
           \/ lost' = (lost \/ legacy = "renamed")
        /\ UNCHANGED <<gone, legacy, queue, writing, unwritten>>
        /\ mode = "down" /\ mode' = "messages"
    BY <1>1, LoadedFile DEF Files
  <2>2. queue' = <<>> /\ writing' = Idle
    BY <2>1, StartUpIsQuiet
  <2>3. ASSUME legacy' = "renamed", ~lost'
        PROVE  Migrated(Msgs(memory))' /\ Migrated(OnDisk("messages"))'
    BY <2>1, <2>3 DEF LegacyInv, Migrated, Msgs
  <2> QED BY <2>1, <2>2, <2>3, QuietStepKeepsLegacy
<1>2. CASE Load("conversations", "messages", "conversations")
  <2>1. /\ memory'["messages"] = memory["messages"] /\ OnDisk("messages")' = OnDisk("messages")
        /\ UNCHANGED <<gone, legacy, queue, writing, unwritten>> /\ (lost => lost')
        /\ mode = "messages" /\ mode' = "conversations"
    BY <1>2, LoadedFile DEF Files
  <2>2. queue' = <<>> /\ writing' = Idle
    BY <2>1, StartUpIsQuiet
  <2>3. ASSUME legacy' = "renamed", ~lost'
        PROVE  Migrated(Msgs(memory))' /\ (~unwritten' => Migrated(OnDisk("messages"))')
    BY <2>1, <2>3 DEF LegacyInv, Migrated, Msgs
  <2> QED BY <2>1, <2>2, <2>3, QuietStepKeepsLegacy
<1>3. CASE Migrate
  <2>1. /\ mode = "conversations"
        /\ UNCHANGED <<queue, writing, files, legacy, gone, unwritten, lost>>
        /\ \/ legacy = "present" /\ Msgs(memory)' = Legacy /\ mode' = "migrating"
           \/ mode' = "loaded" /\ Msgs(memory)' = Msgs(memory)
    BY <1>3 DEF Migrate, seen, Msgs, Edited
  <2>2. queue' = <<>> /\ writing' = Idle /\ OnDisk("messages")' = OnDisk("messages")
    BY <2>1, StartUpIsQuiet DEF OnDisk
  <2>3. ASSUME legacy' = "renamed", ~lost'
        PROVE  Migrated(Msgs(memory))' /\ (~unwritten' => Migrated(OnDisk("messages"))')
    BY <2>1, <2>2, <2>3 DEF LegacyInv, Migrated
  <2> QED BY <2>1, <2>2, <2>3, QuietStepKeepsLegacy
<1>4. CASE RenameLegacy
  <2>1. /\ mode = "migrating" /\ UNCHANGED <<writing, files, gone, lost>>
    BY <1>4 DEF RenameLegacy, seen
  <2>2. queue = <<>> /\ writing = Idle /\ Waiting = {}
    BY <2>1, StartUpIsQuiet
  <2>3. legacy = "present" /\ Legacy \subseteq Msgs(memory)
    BY <2>1 DEF LegacyInv
  <2>4. CASE mode' = "loaded" /\ UNCHANGED <<legacy, memory, queue, unwritten>>
    BY <2>1, <2>2, <2>3, <2>4, QuietStepKeepsLegacy
  <2>5. CASE /\ legacy' = "renamed" /\ mode' = "migrated" /\ unwritten' = TRUE
             /\ Persist(memory, {}, memory, {})
    <3>1. Changes(memory, {}, memory, {})
      BY <1>4, <2>5, RenameLegacyChange
    <3>2. Migrated(Msgs(memory)) /\ \A i \in Waiting : Migrated(MsgsOf(i))
      BY <2>2, <2>3 DEF Migrated
    <3>3. /\ Migrated(Msgs(memory))' /\ \A i \in Waiting' : Migrated(MsgsOf(i))'
      BY <3>1, <3>2, <2>1, ChangesKeepMigrated
    <3>4. queue' # <<>> /\ ~BeingWritten' /\ writing'.file = "messages"
      BY <3>1, <2>1, <2>2, ChangedRefs DEF BeingWritten, Idle
    <3> QED BY <3>3, <3>4, <2>5 DEF LegacyInv
  <2> QED BY <1>4, <2>4, <2>5 DEF RenameLegacy
<1>5. CASE MigrationEnds \/ Saved
  <2>1. /\ mode \in {"migrated", "saving"} /\ mode' \in {"loaded", "running"} /\ queue = <<>>
        /\ UNCHANGED <<memory, queue, writing, files, legacy, gone, unwritten, lost>>
    BY <1>5 DEF MigrationEnds, Saved, seen
  <2>2. writing' = Idle /\ OnDisk("messages")' = OnDisk("messages")
        /\ Msgs(memory)' = Msgs(memory)
    BY <2>1, StartUpIsQuiet DEF OnDisk, Msgs
  <2>3. ASSUME legacy' = "renamed", ~lost'
        PROVE  Migrated(Msgs(memory))' /\ (~unwritten' => Migrated(OnDisk("messages"))')
    BY <2>1, <2>2, <2>3 DEF LegacyInv, Migrated
  <2> QED BY <2>1, <2>2, <2>3, QuietStepKeepsLegacy
<1>6. CASE Normalize
  <2>1. mode = "loaded" /\ UNCHANGED <<writing, files, legacy, unwritten, lost>>
    BY <1>6 DEF Normalize
  <2>2. PICK new : /\ gone \subseteq gone' /\ Msgs(memory) \ Msgs(new) \subseteq gone'
                   /\ \/ Changes(new, {}, memory, {}) /\ mode' = "saving"
                      \/ memory' = new /\ mode' = "running" /\ UNCHANGED queue
    BY <1>6, NormalizeEffect
  <2>3. queue = <<>> /\ writing = Idle /\ Waiting = {}
    BY <2>1, StartUpIsQuiet
  <2>4. OnDisk("messages")' = OnDisk("messages")
    BY <2>1 DEF OnDisk
  <2>5. ASSUME legacy = "renamed", ~lost
        PROVE  Migrated(Msgs(memory)) /\ (~unwritten => Migrated(OnDisk("messages"))')
    BY <2>1, <2>2, <2>4, <2>5 DEF LegacyInv, Migrated
  <2>6. CASE memory' = new /\ mode' = "running" /\ UNCHANGED queue
    <3>1. Migrated(Msgs(memory)) => Migrated(Msgs(memory))'
      BY <2>2, <2>6 DEF Migrated, Msgs
    <3> QED BY <3>1, <2>1, <2>3, <2>5, <2>6, QuietStepKeepsLegacy
  <2>7. CASE Changes(new, {}, memory, {}) /\ mode' = "saving"
    <3>1. Migrated(Msgs(memory)) =>
            Migrated(Msgs(memory))' /\ \A i \in Waiting' : Migrated(MsgsOf(i))'
      BY <2>2, <2>3, <2>7, ChangesKeepMigrated
    <3>2. ~BeingWritten' /\ writing'.file = "messages"
      BY <2>1, <2>3 DEF BeingWritten, Idle
    <3> QED BY <3>1, <3>2, <2>1, <2>5, <2>7 DEF LegacyInv
  <2> QED BY <2>2, <2>6, <2>7
<1>7. CASE Crash
  <2>1. /\ mode' = "down" /\ queue' = <<>> /\ writing' = Idle /\ unwritten' = FALSE
        /\ lost' = (lost \/ unwritten)
        /\ UNCHANGED <<files, legacy, gone>>
    BY <1>7 DEF Crash
  <2>2. OnDisk("messages")' = OnDisk("messages")
    BY <2>1 DEF OnDisk
  <2>3. ASSUME legacy' = "renamed", ~lost'
        PROVE  Migrated(OnDisk("messages"))'
    BY <2>1, <2>2, <2>3 DEF LegacyInv, Migrated
  <2> QED BY <2>1, <2>3, QuietStepKeepsLegacy
<1> QED BY <1>1, <1>2, <1>3, <1>4, <1>5, <1>6, <1>7 DEF StartUp

LEMMA NextKeepsLegacy ==
  ASSUME OrderInv, LegacyInv, [Next]_vars
  PROVE  LegacyInv'
<1>1. CASE Operation
  BY <1>1, InvFacts, OperationEffect, OperationKeepsLegacy
<1>2. CASE UNCHANGED vars
  BY <1>2
  DEF vars, seen, LegacyInv, BeingWritten, Migrated, Msgs, MsgsOf, OnDisk, Waiting, Ref, Referred
<1> QED BY <1>1, <1>2, WriteKeepsLegacy, StartUpKeepsLegacy DEF Next

LEMMA LegacyHolds == Spec => []LegacyInv
<1>1. Init => LegacyInv
  <2> SUFFICES ASSUME Init PROVE LegacyInv
    OBVIOUS
  <2>1. Waiting = {} /\ ~BeingWritten /\ writing.file = "messages"
    BY DEF Init, Waiting, BeingWritten, Idle
  <2> QED BY <2>1 DEF Init, LegacyInv
<1>2. OrderInv /\ LegacyInv /\ [Next]_vars => LegacyInv'
  BY NextKeepsLegacy
<1> QED BY <1>1, <1>2, WritesAreInOrder, PTL DEF Spec

\* Once the first write of messages.json has stored the messages of a renamed
\* history.json, no failing write and no crash takes them away: they are shown
\* until they are cleared or cut (tryMigrateLegacyHistory, atomicWriteJson).
THEOREM LegacyIsKept == Spec => []LegacyIsMigrated
<1>1. LegacyInv => LegacyIsMigrated
  BY DEF LegacyInv, LegacyIsMigrated, Migrated, Msgs
<1> QED BY <1>1, LegacyHolds, PTL

----------------------------------------------------------------------------
\* What a quiet window has saved: the last write that waits refers to memory.

MessagesSaved ==
  /\ OnDisk("messages") \subseteq Msgs(memory)
  /\ Msgs(memory) \subseteq OnDisk("messages") \cup InLegacy

ConversationsSaved ==
  /\ OnDisk("conversations") \subseteq memory["conversations"].ids
  /\ memory["conversations"].ids \subseteq OnDisk("conversations") \cup ConvsOf(Msgs(memory))

SavedInv ==
  /\ queue # <<>> => \A f \in Files : queue[Len(queue)].array[f] = Live
  /\ Len(queue) = 1 =>
       /\ writing.temp # None => writing.temp.ids = memory[writing.file].ids
       /\ writing.file = "conversations" => OnDisk("messages") = Msgs(memory)
  /\ (queue = <<>> /\ ~unsaved) =>
       /\ mode # "down" => MessagesSaved
       /\ mode \notin {"down", "messages"} => ConversationsSaved

\* A change is followed by its own write, which refers to memory.
LEMMA ChangesKeepSaved ==
  ASSUME OrderInv, NEW new, NEW detached, NEW old, NEW clears,
         Changes(new, detached, old, clears), UNCHANGED writing
  PROVE  SavedInv'
<1>1. /\ queue' # <<>> /\ Len(queue') = Len(queue) + 1
      /\ \A i \in Waiting' : \/ i \in Waiting
                             \/ i \notin Waiting /\ i = Len(queue) + 1
      /\ \A i \in Waiting' : i \notin Waiting =>
           \A f \in Files : queue'[i].array[f] = Live
  BY ChangedRefs
<1>2. Len(queue) \in Nat /\ queue \in Seq(Snapshot)
  BY InvFacts
<1>3. Len(queue') \in Waiting' /\ Len(queue') \notin Waiting
  BY <1>1, <1>2 DEF Waiting
<1>4. \A f \in Files : queue'[Len(queue')].array[f] = Live
  BY <1>1, <1>3
<1>5. ASSUME Len(queue') = 1 PROVE writing'.temp = None /\ writing'.file = "messages"
  <2>1. queue = <<>>
    BY <1>1, <1>2, <1>5
  <2> QED BY <2>1, StartUpIsQuiet DEF Idle
<1> QED BY <1>1, <1>4, <1>5 DEF SavedInv

LEMMA TailKeepsSaved ==
  ASSUME OrderInv, SavedInv, queue # <<>>, queue' = Tail(queue), writing' = Idle,
         UNCHANGED memory,
         queue' = <<>> /\ ~unsaved' => MessagesSaved' /\ ConversationsSaved'
  PROVE  SavedInv'
<1>1. /\ queue \in Seq(Snapshot) /\ Len(queue) \in Nat
      /\ Len(queue') = Len(queue) - 1
      /\ \A i \in 1 .. Len(queue) - 1 : queue'[i] = queue[i + 1]
  BY InvFacts, HeadAndTail
<1>2. ASSUME queue' # <<>>
      PROVE  \A f \in Files : queue'[Len(queue')].array[f] = Live
  <2>1. queue' \in Seq(Snapshot)
    BY <1>1, HeadAndTail
  <2>2. Len(queue') \in 1 .. Len(queue) - 1 /\ Len(queue') + 1 = Len(queue)
    BY <2>1, <1>1, <1>2
  <2>3. queue'[Len(queue')] = queue[Len(queue)]
    BY <2>2, <1>1
  <2> QED BY <2>3 DEF SavedInv
<1>3. writing'.temp = None /\ writing'.file = "messages"
  BY DEF Idle
<1> QED BY <1>2, <1>3 DEF SavedInv

LEMMA WriteKeepsSaved ==
  ASSUME OrderInv, SavedInv, WriteTemp \/ RenameTemp \/ WriteFails
  PROVE  SavedInv'
<1>1. CASE WriteTemp
  <2>1. /\ 1 \in Waiting /\ writing'.file = writing.file
        /\ writing'.temp = Ref(1, writing.file)
        /\ UNCHANGED <<mode, memory, queue, files, legacy, unsaved>>
    BY <1>1, WrittenTemp
  <2>2. writing.file \in Files /\ queue # <<>>
    BY <1>1, InvFacts DEF WriteTemp
  <2>3. Len(queue) = 1 => writing'.temp.ids = memory[writing.file].ids
    BY <2>1, <2>2 DEF SavedInv, Ref, Referred
  <2>4. /\ Msgs(memory)' = Msgs(memory) /\ \A f : OnDisk(f)' = OnDisk(f)
        /\ InLegacy' = InLegacy
    BY <2>1 DEF Msgs, OnDisk, InLegacy
  <2> QED BY <2>1, <2>2, <2>3, <2>4 DEF SavedInv
<1>2. CASE RenameTemp
  <2>1. /\ queue # <<>> /\ writing.file \in Files /\ writing.temp # None
        /\ OnDisk("messages")' = IF writing.file = "messages" THEN writing.temp.ids
                                 ELSE OnDisk("messages")
        /\ OnDisk("conversations")' = IF writing.file = "conversations" THEN writing.temp.ids
                                      ELSE OnDisk("conversations")
        /\ UNCHANGED <<mode, memory, legacy, gone, lost>>
    BY <1>2, RenamedFile DEF RenameTemp
  <2>2. Msgs(memory)' = Msgs(memory)
    BY <2>1 DEF Msgs
  <2>3. CASE writing.file = "messages"
    <3>1. /\ writing' = [file |-> "conversations", temp |-> None]
          /\ UNCHANGED <<queue, unsaved>>
      BY <1>2, <2>3 DEF RenameTemp
    <3>2. Len(queue) = 1 => OnDisk("messages")' = Msgs(memory)
      BY <2>1, <2>3 DEF SavedInv, Msgs
    <3> QED BY <2>1, <2>2, <3>1, <3>2 DEF SavedInv
  <2>4. CASE writing.file = "conversations"
    <3>1. writing' = Idle /\ queue' = Tail(queue)
      BY <1>2, <2>4 DEF RenameTemp
    <3>2. ASSUME queue' = <<>> PROVE MessagesSaved' /\ ConversationsSaved'
      <4>1. Len(queue) = 1
        <5>1. queue \in Seq(Snapshot)
          BY InvFacts
        <5>2. Len(queue') = Len(queue) - 1 /\ Len(queue) \in Nat
          BY <5>1, <2>1, <3>1, HeadAndTail
        <5> QED BY <5>2, <3>2
      <4>2. /\ OnDisk("messages")' = Msgs(memory)'
            /\ OnDisk("conversations")' = memory'["conversations"].ids
        BY <4>1, <2>1, <2>2, <2>4 DEF SavedInv
      <4> QED BY <4>2 DEF MessagesSaved, ConversationsSaved
    <3> QED BY <2>1, <3>1, <3>2, TailKeepsSaved
  <2> QED BY <2>1, <2>3, <2>4 DEF Files
<1>3. CASE WriteFails
  <2>1. /\ queue # <<>> /\ queue' = Tail(queue) /\ writing' = Idle /\ unsaved' = TRUE
        /\ UNCHANGED memory
    BY <1>3 DEF WriteFails
  <2> QED BY <2>1, TailKeepsSaved
<1> QED BY <1>1, <1>2, <1>3

\* A step with an empty queue only has the files and memory to compare.
LEMMA QuietStepKeepsSaved ==
  ASSUME queue' = <<>>, writing' = Idle,
         ~unsaved' => /\ mode' # "down" => MessagesSaved'
                      /\ mode' \notin {"down", "messages"} => ConversationsSaved'
  PROVE  SavedInv'
<1>1. Len(queue') = 0
  OBVIOUS
<1> QED BY <1>1 DEF SavedInv

LEMMA StartUpKeepsSaved ==
  ASSUME OrderInv, SavedInv, StartUp \/ Crash
  PROVE  SavedInv'
<1>1. CASE Load("messages", "down", "messages")
  <2>1. /\ ~unsaved' => OnDisk("messages")' = Msgs(memory)'
        /\ UNCHANGED <<queue, writing>> /\ mode = "down" /\ mode' = "messages"
    BY <1>1, LoadedFile DEF Files, Msgs
  <2>2. queue' = <<>> /\ writing' = Idle
    BY <2>1, StartUpIsQuiet
  <2> QED BY <2>1, <2>2, QuietStepKeepsSaved DEF MessagesSaved
<1>2. CASE Load("conversations", "messages", "conversations")
  <2>1. /\ ~unsaved' => /\ OnDisk("conversations")' = memory'["conversations"].ids
                        /\ ~unsaved
        /\ Msgs(memory)' = Msgs(memory) /\ OnDisk("messages")' = OnDisk("messages")
        /\ UNCHANGED <<queue, writing, legacy>> /\ mode = "messages" /\ mode' = "conversations"
    BY <1>2, LoadedFile DEF Files, Msgs
  <2>2. queue = <<>> /\ queue' = <<>> /\ writing' = Idle
    BY <2>1, StartUpIsQuiet
  <2>3. ~unsaved' => MessagesSaved' /\ ConversationsSaved'
    BY <2>1, <2>2 DEF SavedInv, MessagesSaved, ConversationsSaved, InLegacy
  <2> QED BY <2>1, <2>2, <2>3, QuietStepKeepsSaved
<1>3. CASE Migrate
  <2>1. /\ mode = "conversations" /\ mode' \in {"migrating", "loaded"}
        /\ UNCHANGED <<queue, writing, files, legacy, unsaved>>
    BY <1>3 DEF Migrate, seen
  <2>2. queue = <<>> /\ queue' = <<>> /\ writing' = Idle
    BY <2>1, StartUpIsQuiet
  <2>3. \A f : OnDisk(f)' = OnDisk(f)
    BY <2>1 DEF OnDisk
  <2>4. ~unsaved => MessagesSaved /\ ConversationsSaved
    BY <2>1, <2>2 DEF SavedInv
  <2>5. CASE UNCHANGED memory
    <3>1. ~unsaved' => MessagesSaved' /\ ConversationsSaved'
      BY <2>1, <2>3, <2>4, <2>5 DEF MessagesSaved, ConversationsSaved, InLegacy, Msgs
    <3> QED BY <2>1, <2>2, <3>1, QuietStepKeepsSaved
  <2>6. CASE /\ \A f \in Files : memory[f].ids = {}
             /\ legacy = "present"
             /\ Msgs(memory)' = Legacy /\ memory'["conversations"].ids = ConvsOf(Legacy)
    <3>1. ~unsaved => OnDisk("messages") = {} /\ OnDisk("conversations") = {}
      BY <2>4, <2>6 DEF MessagesSaved, ConversationsSaved, Msgs, Files
    <3>2. ~unsaved' => OnDisk("messages")' = {} /\ OnDisk("conversations")' = {}
      BY <2>1, <2>3, <3>1
    <3>3. InLegacy' = Legacy /\ Msgs(memory)' = Legacy
          /\ memory'["conversations"].ids = ConvsOf(Legacy)
      BY <2>1, <2>6 DEF InLegacy
    <3>4. ConvsOf(Msgs(memory)') = ConvsOf(Msgs(memory))'
      BY DEF ConvsOf
    <3>5. ~unsaved' => MessagesSaved' /\ ConversationsSaved'
      BY <3>2, <3>3, <3>4 DEF MessagesSaved, ConversationsSaved
    <3> QED BY <2>1, <2>2, <3>5, QuietStepKeepsSaved
  <2> QED BY <1>3, <2>5, <2>6 DEF Migrate, Edited, Msgs
<1>4. CASE RenameLegacy
  <2>1. mode = "migrating" /\ UNCHANGED <<writing, files, unsaved>>
    BY <1>4 DEF RenameLegacy, seen
  <2>2. queue = <<>> /\ writing = Idle
    BY <2>1, StartUpIsQuiet
  <2>3. CASE mode' = "loaded" /\ UNCHANGED <<legacy, memory, queue>>
    <3>1. ~unsaved => MessagesSaved /\ ConversationsSaved
      BY <2>1, <2>2 DEF SavedInv
    <3>2. ~unsaved' => MessagesSaved' /\ ConversationsSaved'
      BY <2>1, <2>3, <3>1 DEF MessagesSaved, ConversationsSaved, InLegacy, Msgs, OnDisk
    <3> QED BY <2>1, <2>2, <2>3, <3>2, QuietStepKeepsSaved
  <2>4. CASE Persist(memory, {}, memory, {})
    BY <1>4, <2>1, <2>4, RenameLegacyChange, ChangesKeepSaved
  <2> QED BY <1>4, <2>3, <2>4 DEF RenameLegacy
<1>5. CASE MigrationEnds \/ Saved
  <2>1. /\ mode \in {"migrated", "saving"} /\ queue = <<>>
        /\ UNCHANGED <<memory, queue, writing, files, legacy, unsaved>>
    BY <1>5 DEF MigrationEnds, Saved, seen
  <2>2. writing' = Idle
    BY <2>1, StartUpIsQuiet
  <2>3. ~unsaved => MessagesSaved /\ ConversationsSaved
    BY <2>1 DEF SavedInv
  <2>4. ~unsaved' => MessagesSaved' /\ ConversationsSaved'
    BY <2>1, <2>3 DEF MessagesSaved, ConversationsSaved, InLegacy, Msgs, OnDisk
  <2> QED BY <2>1, <2>2, <2>4, QuietStepKeepsSaved
<1>6. CASE Normalize
  <2>1. mode = "loaded" /\ UNCHANGED <<writing, files, legacy, unsaved>>
    BY <1>6 DEF Normalize
  <2>2. PICK new :
          /\ new["conversations"].ids = memory["conversations"].ids \cup ConvsOf(Msgs(new))
          /\ \/ Changes(new, {}, memory, {})
             \/ memory' = new /\ UNCHANGED queue /\ Msgs(new) = Msgs(memory)
    BY <1>6, NormalizeEffect
  <2>3. queue = <<>> /\ writing = Idle
    BY <2>1, StartUpIsQuiet
  <2>4. CASE memory' = new /\ UNCHANGED queue /\ Msgs(new) = Msgs(memory)
    <3>1. ~unsaved => MessagesSaved /\ ConversationsSaved
      BY <2>1, <2>3 DEF SavedInv
    <3>2. Msgs(memory)' = Msgs(memory) /\ \A f : OnDisk(f)' = OnDisk(f)
      BY <2>1, <2>4 DEF Msgs, OnDisk
    <3>3. ~unsaved' => MessagesSaved' /\ ConversationsSaved'
      BY <2>1, <2>2, <2>4, <3>1, <3>2 DEF MessagesSaved, ConversationsSaved, InLegacy
    <3> QED BY <2>1, <2>3, <2>4, <3>3, QuietStepKeepsSaved
  <2>5. CASE Changes(new, {}, memory, {})
    BY <2>1, <2>5, ChangesKeepSaved
  <2> QED BY <2>2, <2>4, <2>5
<1>7. CASE Crash
  <2>1. mode' = "down" /\ queue' = <<>> /\ writing' = Idle
    BY <1>7 DEF Crash
  <2> QED BY <2>1, QuietStepKeepsSaved
<1> QED BY <1>1, <1>2, <1>3, <1>4, <1>5, <1>6, <1>7 DEF StartUp

LEMMA NextKeepsSaved ==
  ASSUME OrderInv, SavedInv, [Next]_vars
  PROVE  SavedInv'
<1>1. CASE Operation
  <2>1. Effect
    BY <1>1, InvFacts, OperationEffect
  <2>2. /\ mode' = mode /\ UNCHANGED <<writing, files, legacy, unsaved>>
    BY <2>1 DEF Effect
  <2>3. CASE UNCHANGED <<memory, queue>>
    BY <2>2, <2>3
    DEF SavedInv, MessagesSaved, ConversationsSaved, InLegacy, Msgs, OnDisk
  <2>4. ASSUME NEW new, NEW detached, NEW old, NEW clears, Changes(new, detached, old, clears)
        PROVE  SavedInv'
    BY <2>2, <2>4, ChangesKeepSaved
  <2> QED BY <2>1, <2>3, <2>4 DEF Effect
<1>2. CASE UNCHANGED vars
  BY <1>2
  DEF vars, seen, SavedInv, MessagesSaved, ConversationsSaved, InLegacy, Msgs, OnDisk
<1> QED BY <1>1, <1>2, WriteKeepsSaved, StartUpKeepsSaved DEF Next

LEMMA SavedHolds == Spec => []SavedInv
<1>1. Init => SavedInv
  BY DEF Init, SavedInv, Idle
<1>2. OrderInv /\ SavedInv /\ [Next]_vars => SavedInv'
  BY NextKeepsSaved
<1> QED BY <1>1, <1>2, WritesAreInOrder, PTL DEF Spec

\* Once the queue is empty and no write has failed, the files hold what memory
\* holds: a crash loses nothing (HistoryStore.persist).
THEOREM QuietWindowIsSaved == Spec => []QuietMeansSaved
<1>1. SavedInv => QuietMeansSaved
  BY DEF SavedInv, QuietMeansSaved, MessagesSaved, ConversationsSaved, Msgs
<1> QED BY <1>1, SavedHolds, PTL
=============================================================================
