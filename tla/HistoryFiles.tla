---------------------------- MODULE HistoryFiles ----------------------------
(***************************************************************************)
(* The files of HistoryStore (historyStore.ts): loading and migrating them  *)
(* at start-up, the queue of atomic writes, failing reads, writes and       *)
(* renames, and a crash at any point.                                       *)
(*                                                                          *)
(* A write holds references to the arrays, not copies: it stores what the   *)
(* array holds when the write comes to it.  A change in place is seen by    *)
(* the writes that wait; a change that makes a new array leaves them the    *)
(* old one.                                                                 *)
(*                                                                          *)
(* An array is the set of its ids and a number that names its state, for    *)
(* comparing states only.  Everything else in it is left out: an edit is a  *)
(* new number.  The old array that trimMessages leaves to a waiting write   *)
(* shares its messages with the new one (slice), so the write also stores   *)
(* what is edited in them afterwards: its ids are those of the model, its   *)
(* number is the least that what it stores is worth.  The temporary files   *)
(* that crashes leave behind are left out.                                  *)
(***************************************************************************)
EXTENDS Naturals, Sequences, FiniteSets

CONSTANTS
  MessageIds, Convs,
  ConvOf,      \* the conversation of a message
  Legacy,      \* the messages of history.json
  Limits,      \* values of maxSavedMessages
  MaxVersion,  \* bound: states of an array
  MaxWrites,   \* bound: writes that wait
  Live,        \* marks a reference to the array that memory still uses
  None

ASSUME FileConstants ==
  /\ ConvOf \in [MessageIds -> Convs] /\ Legacy \subseteq MessageIds
  /\ Limits \subseteq Nat \ {0} /\ MaxVersion \in Nat /\ MaxWrites \in Nat
  /\ IsFiniteSet(MessageIds)

Files == {"messages", "conversations"}
Array == [ids : SUBSET (MessageIds \cup Convs), v : Nat]
ASSUME LiveAndNoneAreNoArrays == Live \notin Array /\ None \notin Array

Empty == [ids |-> {}, v |-> 0]

VARIABLES
  mode,      \* how far the start-up is
  limit,     \* maxMessages
  memory,    \* the arrays messages and conversations
  queue,     \* the write queue: the snapshots, the first being written
  writing,   \* the file the first write is at, and its temporary file
  files,     \* messages.json and conversations.json, None if absent
  legacy,    \* where history.json is: "absent", "present" or "renamed"
  acked,     \* history: the states whose persist() has returned
  gone,      \* history: messages ever cleared or dropped by the limit
  cleared,   \* history: messages whose clear() has returned and that were not
             \* stored again, but for those that history.json still holds
  unsaved,   \* history: the last write failed, or a bad file stayed
  unwritten, \* history: no write has yet stored the migrated messages
  lost       \* history: the process ended, or messages.json went bad, with the
             \* migrated messages nowhere else

seen == <<acked, gone, cleared, unsaved, unwritten, lost>>
vars == <<mode, limit, memory, queue, writing, files, legacy, seen>>

Modes == {"down", "messages", "conversations", "migrating", "migrated", "loaded",
          "saving", "rejected", "running"}
Snapshot == [array : [Files -> Array \cup {Live}], asked : [Files -> Nat],
             clears : SUBSET MessageIds]

TypeOK ==
  /\ mode \in Modes /\ limit \in Limits
  /\ memory \in [Files -> Array]
  /\ queue \in Seq(Snapshot)
  /\ writing \in [file : Files, temp : Array \cup {None}]
  /\ files \in [Files -> Array \cup {None}]
  /\ legacy \in {"absent", "present", "renamed"}
  /\ acked \in [Files -> Nat]
  /\ gone \subseteq MessageIds /\ cleared \subseteq MessageIds
  /\ unsaved \in BOOLEAN /\ unwritten \in BOOLEAN /\ lost \in BOOLEAN

Idle == [file |-> "messages", temp |-> None]

\* The array a snapshot of the queue refers to.
Referred(s, f) == IF s.array[f] = Live THEN memory[f] ELSE s.array[f]

Version(f) == IF files[f] = None THEN 0 ELSE files[f].v
OnDisk(f) == IF files[f] = None THEN {} ELSE files[f].ids

\* The states of array a once its ids are these.
Edited(a, ids) == [ids |-> ids, v |-> a.v + 1]

InLegacy == IF legacy = "present" THEN Legacy ELSE {}

ConvsOf(ms) == {ConvOf[m] : m \in ms}

----------------------------------------------------------------------------
\* persist, and the operations that call it

\* The arrays become new; writes that wait for an array in detached keep old.  A
\* clear() that waits does not answer for messages stored after it.
Persist(new, detached, old, clears) ==
  LET stored == new["messages"].ids \ memory["messages"].ids
      freeze(s) == [s EXCEPT !.clears = @ \ stored, !.array = [f \in Files |->
        IF f \in detached /\ s.array[f] = Live THEN old[f] ELSE s.array[f]]]
  IN  /\ \A f \in Files : new[f].v <= MaxVersion
      /\ Len(queue) < MaxWrites
      /\ memory' = new
      /\ queue' = Append([i \in DOMAIN queue |-> freeze(queue[i])],
           [array |-> [f \in Files |-> Live], asked |-> [f \in Files |-> new[f].v],
            clears |-> clears])

\* The ids that trimMessages may leave.
Trimmed(ids, max) ==
  IF Cardinality(ids) <= max THEN {ids}
  ELSE {kept \in SUBSET ids : Cardinality(kept) = max}

\* upsertMessage of a message that is not there: pushed in place, then perhaps
\* cut.  It may have been there before: the echo of an own group message stores it
\* again after the history was cleared, or cut, between sending and echo.
AddMessage(m) ==
  LET pushed == [messages |-> Edited(memory["messages"], memory["messages"].ids \cup {m}),
                 conversations |-> Edited(memory["conversations"],
                                          memory["conversations"].ids \cup {ConvOf[m]})]
  IN  /\ mode = "running"
      /\ m \notin memory["messages"].ids
      /\ \E kept \in Trimmed(pushed["messages"].ids, limit) :
           /\ m \in kept
           /\ IF kept = pushed["messages"].ids THEN Persist(pushed, {}, pushed, {})
              ELSE Persist([pushed EXCEPT !["messages"] = Edited(@, kept)],
                           {"messages"}, pushed, {})
           /\ gone' = gone \cup (pushed["messages"].ids \ kept)
      /\ cleared' = cleared \ {m}
      /\ UNCHANGED <<mode, limit, writing, files, legacy, acked, unsaved, unwritten, lost>>

\* Changes in place: a stored message or its status and readers, the unread
\* count and the title (upsertMessage, markConversationRead, addReadReceipt,
\* updateMessageStatus, updateDirectConversationTitle).
EditInPlace ==
  /\ mode = "running"
  /\ \E fs \in SUBSET Files :
       Persist([f \in Files |-> IF f \in fs THEN Edited(memory[f], memory[f].ids) ELSE memory[f]],
               {}, memory, {})
  /\ UNCHANGED <<mode, limit, writing, files, legacy, seen>>

UpsertConversation(c) ==
  /\ mode = "running"
  /\ Persist([memory EXCEPT !["conversations"] = Edited(@, @.ids \cup {c})], {}, memory, {})
  /\ UNCHANGED <<mode, limit, writing, files, legacy, seen>>

\* replaceConversations makes a new array.
ReplaceConversations(cs) ==
  /\ mode = "running"
  /\ Persist([memory EXCEPT !["conversations"] = Edited(@, @.ids \cup cs)],
             {"conversations"}, memory, {})
  /\ UNCHANGED <<mode, limit, writing, files, legacy, seen>>

\* Mutant: the cut array is not persisted.
SetMaxMessagesUnsaved(max) ==
  /\ mode = "running" /\ limit' = max
  /\ \E kept \in Trimmed(memory["messages"].ids, max) :
       /\ memory' = [memory EXCEPT !["messages"] =
            IF kept = @.ids THEN @ ELSE Edited(@, kept)]
       /\ gone' = gone \cup (memory["messages"].ids \ kept)
  /\ UNCHANGED <<mode, queue, writing, files, legacy, acked, cleared, unsaved, unwritten, lost>>

SetMaxMessages(max) ==
  /\ mode = "running" /\ limit' = max
  /\ \E kept \in Trimmed(memory["messages"].ids, max) :
       /\ IF kept = memory["messages"].ids THEN UNCHANGED <<memory, queue>>
          ELSE Persist([memory EXCEPT !["messages"] = Edited(@, kept)],
                       {"messages"}, memory, {})
       /\ gone' = gone \cup (memory["messages"].ids \ kept)
  /\ UNCHANGED <<mode, writing, files, legacy, acked, cleared, unsaved, unwritten, lost>>

\* Mutant: persist is called before the arrays are replaced.
ClearAfterPersist ==
  /\ mode = "running" /\ Len(queue) < MaxWrites
  /\ queue' = Append([i \in DOMAIN queue |->
       [queue[i] EXCEPT !.array = [f \in Files |-> Referred(queue[i], f)]]],
       [array |-> memory, asked |-> [f \in Files |-> memory[f].v],
        clears |-> memory["messages"].ids])
  /\ memory' = [f \in Files |-> Edited(memory[f], {})]
  /\ gone' = gone \cup memory["messages"].ids
  /\ UNCHANGED <<mode, limit, writing, files, legacy, acked, cleared, unsaved, unwritten, lost>>

Clear ==
  /\ mode = "running"
  /\ Persist([f \in Files |-> Edited(memory[f], {})], Files, memory, memory["messages"].ids)
  /\ gone' = gone \cup memory["messages"].ids
  /\ UNCHANGED <<mode, limit, writing, files, legacy, acked, cleared, unsaved, unwritten, lost>>

----------------------------------------------------------------------------
\* The write queue: atomicWriteJson of messages.json, then conversations.json

\* Mutant: the file itself is opened, which truncates it.
WriteInPlace ==
  /\ queue # <<>> /\ writing.temp = None
  /\ writing' = [writing EXCEPT !.temp = Referred(Head(queue), writing.file)]
  /\ files' = [files EXCEPT ![writing.file] = Empty]
  /\ UNCHANGED <<mode, limit, memory, queue, legacy, seen>>

\* JSON.stringify and writeFile.
WriteTemp ==
  /\ queue # <<>> /\ writing.temp = None
  /\ writing' = [writing EXCEPT !.temp = Referred(Head(queue), writing.file)]
  /\ UNCHANGED <<mode, limit, memory, queue, files, legacy, seen>>

\* Once both files are renamed, persist returns.
RenameTemp ==
  /\ writing.temp # None
  /\ files' = [files EXCEPT ![writing.file] = writing.temp]
  /\ IF writing.file = "messages"
     THEN /\ writing' = [file |-> "conversations", temp |-> None]
          /\ unwritten' = FALSE
          /\ UNCHANGED <<queue, acked, cleared, unsaved>>
     ELSE /\ writing' = Idle
          /\ queue' = Tail(queue)
          /\ acked' = Head(queue).asked
          /\ cleared' = cleared \cup (Head(queue).clears \ InLegacy)
          /\ unsaved' = FALSE /\ UNCHANGED unwritten
  /\ UNCHANGED <<mode, limit, memory, legacy, gone, lost>>

\* persist rejects, which fails the start-up unless migration catches it; the
\* next write follows.
WriteFails ==
  /\ queue # <<>>
  /\ queue' = Tail(queue) /\ writing' = Idle
  /\ unsaved' = TRUE
  /\ mode' = IF mode = "saving" THEN "rejected" ELSE mode
  /\ UNCHANGED <<limit, memory, files, legacy, acked, gone, cleared, unwritten, lost>>

----------------------------------------------------------------------------
\* load, which nothing interleaves with but a crash

\* Mutant: an absent file is not replaced by an empty one.
LoadFileOrNone(f) ==
  /\ memory' = [memory EXCEPT ![f] = files[f]]
  /\ UNCHANGED <<files, seen>>

\* loadFile: the file's array, or no entries if it is absent.
LoadFile(f) ==
  /\ memory' = [memory EXCEPT ![f] = IF files[f] = None THEN Empty ELSE files[f]]
  /\ UNCHANGED <<files, seen>>

\* The file cannot be read or parsed: it is renamed away, or stays if that fails.
LoadBadFile(f) ==
  /\ files[f] # None
  /\ memory' = [memory EXCEPT ![f] = Empty]
  /\ \/ files' = [files EXCEPT ![f] = None] /\ UNCHANGED unsaved
     \/ files' = [files EXCEPT ![f].v = 0] /\ unsaved' = TRUE
  /\ acked' = [acked EXCEPT ![f] = 0]
  /\ lost' = (lost \/ (f = "messages" /\ legacy = "renamed"))
  /\ UNCHANGED <<gone, cleared, unwritten>>

Load(f, from, to) ==
  /\ mode = from /\ mode' = to
  /\ LoadFile(f) \/ LoadBadFile(f)
  /\ UNCHANGED <<limit, queue, writing, legacy>>

\* tryMigrateLegacyHistory up to the rename; it may fail to read the file.
Migrate ==
  /\ mode = "conversations"
  /\ \/ /\ \A f \in Files : memory[f].ids = {}
        /\ legacy = "present"
        /\ memory' = [messages |-> Edited(memory["messages"], Legacy),
                      conversations |-> Edited(memory["conversations"], ConvsOf(Legacy))]
        /\ mode' = "migrating"
     \/ mode' = "loaded" /\ UNCHANGED memory
  /\ UNCHANGED <<limit, queue, writing, files, legacy, seen>>

RenameLegacy ==
  /\ mode = "migrating"
  /\ \/ /\ legacy' = "renamed" /\ mode' = "migrated"
        /\ unwritten' = TRUE
        /\ Persist(memory, {}, memory, {})
     \/ mode' = "loaded" /\ UNCHANGED <<legacy, memory, queue, unwritten>>
  /\ UNCHANGED <<limit, writing, files, acked, gone, cleared, unsaved, lost>>

MigrationEnds ==
  /\ mode = "migrated" /\ queue = <<>> /\ mode' = "loaded"
  /\ UNCHANGED <<limit, memory, queue, writing, files, legacy, seen>>

\* Mutant: conversations are not rebuilt.
NormalizeOnlyTrims ==
  /\ mode = "loaded"
  /\ \E kept \in Trimmed(memory["messages"].ids, limit) :
       LET new == [memory EXCEPT !["messages"] = Edited(@, kept)]
       IN  /\ IF kept # memory["messages"].ids
              THEN Persist(new, {}, memory, {}) /\ mode' = "saving"
              ELSE mode' = "running" /\ UNCHANGED <<memory, queue>>
           /\ gone' = gone \cup (memory["messages"].ids \ kept)
  /\ UNCHANGED <<limit, writing, files, legacy, acked, cleared, unsaved, unwritten, lost>>

\* Mutant: what was loaded is not trimmed.
NormalizeUntrimmed ==
  /\ mode = "loaded"
  /\ LET ids == memory["conversations"].ids \cup ConvsOf(memory["messages"].ids)
     IN  memory' = [memory EXCEPT !["conversations"] = IF ids = @.ids THEN @ ELSE Edited(@, ids)]
  /\ mode' = "running"
  /\ UNCHANGED <<limit, queue, writing, files, legacy, seen>>

\* normalizeConversations, trimMessages and rebuildMissingConversations; only
\* the first two make load persist.
Normalize ==
  /\ mode = "loaded"
  /\ \E normalized \in BOOLEAN, kept \in Trimmed(memory["messages"].ids, limit) :
       LET convs == memory["conversations"].ids \cup ConvsOf(kept)
           trims == kept # memory["messages"].ids
           new == [messages |-> IF trims THEN Edited(memory["messages"], kept)
                                ELSE memory["messages"],
                   conversations |-> IF normalized \/ convs # memory["conversations"].ids
                                     THEN Edited(memory["conversations"], convs)
                                     ELSE memory["conversations"]]
       IN  /\ IF normalized \/ trims THEN Persist(new, {}, memory, {}) /\ mode' = "saving"
              ELSE memory' = new /\ mode' = "running" /\ UNCHANGED queue
           /\ gone' = gone \cup (memory["messages"].ids \ kept)
  /\ UNCHANGED <<limit, writing, files, legacy, acked, cleared, unsaved, unwritten, lost>>

Saved ==
  /\ mode = "saving" /\ queue = <<>> /\ mode' = "running"
  /\ UNCHANGED <<limit, memory, queue, writing, files, legacy, seen>>

\* The window closes or the extension host dies, with memory and the queue.
Crash ==
  /\ mode # "down" /\ mode' = "down"
  /\ limit' \in Limits
  /\ memory' = [f \in Files |-> Empty]
  /\ queue' = <<>> /\ writing' = Idle
  /\ lost' = (lost \/ unwritten)
  /\ unsaved' = FALSE /\ unwritten' = FALSE
  /\ UNCHANGED <<files, legacy, acked, gone, cleared>>

----------------------------------------------------------------------------
Init ==
  /\ mode = "down" /\ limit \in Limits
  /\ memory = [f \in Files |-> Empty]
  /\ queue = <<>> /\ writing = Idle
  /\ files = [f \in Files |-> None]
  /\ legacy \in {"absent", "present"}
  /\ acked = [f \in Files |-> 0]
  /\ gone = {} /\ cleared = {}
  /\ unsaved = FALSE /\ unwritten = FALSE /\ lost = FALSE

Operation ==
  \/ \E m \in MessageIds : AddMessage(m)
  \/ EditInPlace
  \/ \E c \in Convs : UpsertConversation(c)
  \/ \E cs \in SUBSET Convs : ReplaceConversations(cs)
  \/ \E max \in Limits : SetMaxMessages(max)
  \/ Clear

StartUp ==
  \/ Load("messages", "down", "messages")
  \/ Load("conversations", "messages", "conversations")
  \/ Migrate \/ RenameLegacy \/ MigrationEnds
  \/ Normalize \/ Saved

Next ==
  \/ Operation
  \/ WriteTemp \/ RenameTemp \/ WriteFails
  \/ StartUp
  \/ Crash

Spec == Init /\ [][Next]_vars

----------------------------------------------------------------------------
\* Properties

\* When no write waits and none failed, a crash would lose nothing: the files
\* hold what memory holds, but for conversations that load builds again from
\* the messages, and a history.json that could not be renamed.
QuietMeansSaved ==
  (mode = "running" /\ queue = <<>> /\ ~unsaved) =>
    /\ OnDisk("messages") \subseteq memory["messages"].ids
    /\ memory["messages"].ids \subseteq
         OnDisk("messages") \cup InLegacy
    /\ OnDisk("conversations") \subseteq memory["conversations"].ids
    /\ memory["conversations"].ids \subseteq
         OnDisk("conversations") \cup ConvsOf(memory["messages"].ids)

\* Messages whose clear() has returned do not come back, whatever writes were
\* under way and whenever the window closes, unless they are stored anew
\* (upsertMessage, as for the echo of an own group message); a history.json that
\* could not be renamed brings back its own.
ClearedStaysCleared == cleared \cap memory["messages"].ids = {}

\* Whatever two files a crash leaves, every message that is shown after it has
\* a conversation.
MessagesHaveConversation ==
  mode = "running" => ConvsOf(memory["messages"].ids) \subseteq memory["conversations"].ids

\* The limit holds after every start, whatever it was before.
RetentionHolds == mode = "running" => Cardinality(memory["messages"].ids) <= limit

\* Once history.json has been renamed its messages are in the cache.  The process
\* may lose them only before the first write of messages.json has stored them:
\* after it, no failing write and no crash between any two writes does, as long
\* as the file can be read (README: legacy history is migrated where possible).
LegacyIsMigrated ==
  (mode = "running" /\ legacy = "renamed" /\ ~lost) => Legacy \subseteq memory["messages"].ids \cup gone

\* Each file and its array are a DurableCache: the state in memory is that of
\* the file until it is loaded.
Loaded(f) == mode # "down" /\ (f = "messages" \/ mode # "messages")
InMemory(f) == IF Loaded(f) THEN memory[f].v ELSE Version(f)

MessagesFile == INSTANCE DurableCache WITH
  memory <- InMemory("messages"), file <- Version("messages"), acked <- acked["messages"]
ConversationsFile == INSTANCE DurableCache WITH
  memory <- InMemory("conversations"), file <- Version("conversations"),
  acked <- acked["conversations"]

FilesAreDurable == MessagesFile!Spec /\ ConversationsFile!Spec
=============================================================================
