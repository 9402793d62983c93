----------------------------- MODULE ChatClient -----------------------------
(***************************************************************************)
(* The extension's connection to the server: ChatClient (chatClient.ts) and *)
(* the calls ChatService (chatService.ts) makes on it.                      *)
(*                                                                          *)
(* JavaScript runs one callback at a time, so every callback of a socket or *)
(* timer, every command, and every stretch of a configuration update        *)
(* between two awaits is one action.  A synchronous method is an operator   *)
(* on the client's fields, so that methods that call one another compose.   *)
(*                                                                          *)
(* Several sockets may exist at once: close() only begins a closing         *)
(* handshake, and the close event of the old socket arrives when the peer   *)
(* answers, or after the library's time limit; a new one may be in use by   *)
(* then, and the handlers of all of them act on the one client.             *)
(***************************************************************************)
EXTENDS Naturals, Sequences

CONSTANTS
  Sockets,      \* slots for WebSocket objects that still have events to come
  Identities,   \* values of serverUrl, username and userId, taken together
  Configs,      \* the configurations the user may choose
  MaxUpdates,   \* bound: configuration updates under way
  None

Config == [offlineMode : BOOLEAN, autoReconnect : BOOLEAN, identity : Identities]

ASSUME ConfigsAreConfigs == Configs \subseteq Config
ASSUME BoundIsNatural == MaxUpdates \in Nat
ASSUME NoneIsOther == None \notin Sockets /\ None \notin Config

VARIABLES
  settings,  \* ChatService.config
  updates,   \* calls of updateConfig that wait for ensureCurrentUser, in order
  client,    \* the fields of ChatClient, and its sockets
  lost       \* history: the peer or a time limit ended a socket since a call
             \* last opened one
vars == <<settings, updates, client, lost>>

States == {"disconnected", "connecting", "connected", "reconnecting", "offline", "error"}

\* A socket: open means that hello was sent, acked that hello-ack was
\* delivered.  closing and draining are those two after close(): packets under
\* way are still delivered.  closed: ended by the peer.  aborted: ended before
\* it opened.  The last four have their close event to come.
Live   == {"connecting", "open", "acked"}
Opened == {"open", "acked"}
Ended  == {"closing", "draining", "closed", "aborted"}
Phases == {"unused"} \cup Live \cup Ended

ClientFields ==
  [socket : Sockets \cup {None}, state : States, config : Configs \cup {None},
   manualDisconnect : BOOLEAN, disposed : BOOLEAN, reconnectTimer : BOOLEAN,
   heartbeatTimer : BOOLEAN, helloTimer : BOOLEAN, pongIsFresh : BOOLEAN,
   phase : [Sockets -> Phases], captured : [Sockets -> Configs \cup {None}]]

TypeOK ==
  /\ settings \in Configs
  /\ updates \in Seq([previous : Configs, next : Configs]) /\ Len(updates) <= MaxUpdates
  /\ client \in ClientFields
  /\ client.config = None => updates = <<>>
  /\ \A s \in Sockets : client.phase[s] = "unused" <=> client.captured[s] = None
  /\ lost \in BOOLEAN

----------------------------------------------------------------------------
\* Methods of the client (k is the record of its fields)

\* close() of the ws library: no effect on a socket that is closing already.
Close(k, s) ==
  [k EXCEPT !.phase[s] = CASE @ = "connecting" -> "aborted"
                           [] @ = "open"       -> "closing"
                           [] @ = "acked"      -> "draining"
                           [] OTHER            -> @]

\* Mutant of CloseSocket: a socket that is still connecting is let go.
CloseSocketIfOpen(k) ==
  IF k.socket = None THEN k
  ELSE [IF k.phase[k.socket] \in Opened THEN Close(k, k.socket) ELSE k
          EXCEPT !.socket = None]

CloseSocket(k) ==
  IF k.socket = None THEN k ELSE [Close(k, k.socket) EXCEPT !.socket = None]

\* Mutant of ClearTimers: the heartbeat goes on.
ClearHelloTimer(k) == [k EXCEPT !.helloTimer = FALSE]

\* clearHeartbeat and clearHelloTimer.
ClearTimers(k) == [k EXCEPT !.heartbeatTimer = FALSE, !.helloTimer = FALSE]

\* Mutant of Disconnect: a reconnect that is scheduled stays scheduled.
DisconnectForNow(k, offline) ==
  [CloseSocket(ClearTimers(k)) EXCEPT
     !.manualDisconnect = TRUE,
     !.state = IF offline THEN "offline" ELSE "disconnected"]

Disconnect(k, offline) ==
  [CloseSocket(ClearTimers(k)) EXCEPT
     !.manualDisconnect = TRUE, !.reconnectTimer = FALSE,
     !.state = IF offline THEN "offline" ELSE "disconnected"]

InUse(k) == k.state \in {"connecting", "connected", "reconnecting"}

\* new WebSocket in slot s; its handlers capture the configuration.
NewSocket(k, s) ==
  [k EXCEPT !.socket = s, !.phase[s] = "connecting", !.captured[s] = k.config,
            !.pongIsFresh = TRUE]

\* Mutant of Connect: it looks at the state alone, not at the socket.
ConnectByState(k, config, s) ==
  IF InUse(k) THEN [k EXCEPT !.config = config]
  ELSE NewSocket([k EXCEPT !.config = config, !.manualDisconnect = FALSE,
                           !.reconnectTimer = FALSE, !.state = "connecting"], s)

\* connect: s is the slot of the socket it opens, if it opens one.
Connect(k, config, s) ==
  CASE config.offlineMode ->
         [Disconnect(k, TRUE) EXCEPT !.config = config]
    [] ~config.offlineMode /\ k.socket # None /\ InUse(k) ->
         [k EXCEPT !.config = config]
    [] OTHER ->
         NewSocket([CloseSocket(k) EXCEPT
                      !.config = config, !.manualDisconnect = FALSE,
                      !.reconnectTimer = FALSE,
                      !.state = IF @ = "reconnecting" THEN @ ELSE "connecting"], s)

\* Mutant of SendHello: nobody waits for the answer.
SendHelloAndForget(k) == k

\* sendHello goes to the client's socket, whichever opened.
SendHello(k) ==
  IF k.socket # None /\ k.phase[k.socket] \in Opened
    THEN [k EXCEPT !.helloTimer = TRUE] ELSE [k EXCEPT !.state = "error"]

\* Mutant of StartHeartbeat: only a client that is connected has one.
StartHeartbeatIfConnected(k) == [k EXCEPT !.heartbeatTimer = k.state = "connected"]

StartHeartbeat(k) == [k EXCEPT !.heartbeatTimer = TRUE]

----------------------------------------------------------------------------
\* Events of sockets and timers

\* A connecting socket that is closed or fails reports so before any other
\* event (process.nextTick, or the very event that made it fail).
Settled == \A s \in Sockets : client.phase[s] # "aborted"

OpenEvent(s) ==
  /\ Settled /\ client.phase[s] = "connecting"
  /\ client' = StartHeartbeat(SendHello([client EXCEPT !.phase[s] = "open"]))
  /\ UNCHANGED <<settings, updates, lost>>

\* hello-ack, from whichever socket, makes the client connected.
HelloAckEvent(s) ==
  /\ Settled /\ client.phase[s] \in {"open", "closing"}
  /\ client' = [client EXCEPT !.helloTimer = FALSE, !.state = "connected",
                              !.phase[s] = IF @ = "open" THEN "acked" ELSE "draining"]
  /\ UNCHANGED <<settings, updates, lost>>

PongEvent(s) ==
  /\ Settled /\ client.phase[s] \in {"open", "acked", "closing", "draining"}
  /\ client' = [client EXCEPT !.pongIsFresh = TRUE]
  /\ UNCHANGED <<settings, updates, lost>>

\* The peer or the network ends a socket, or refuses it.
PeerCloses(s) ==
  /\ Settled /\ client.phase[s] \in Live
  /\ client' = [client EXCEPT !.phase[s] = IF @ = "connecting" THEN "aborted" ELSE "closed"]
  /\ lost' = TRUE
  /\ UNCHANGED <<settings, updates>>

\* The close handler of s: it acts on the client's timers and socket, whether
\* or not they are its own; what it promises depends on the configuration s
\* was opened with, whether it schedules the reconnect also on the current one.
\* The error event of an aborted socket comes just before and leaves no trace.
CloseEvent(s) ==
  LET k      == CloseSocket(ClearTimers(client))
      retry  == client.captured[s].autoReconnect
      freed  == [k EXCEPT !.phase[s] = "unused", !.captured[s] = None]
  IN  /\ client.phase[s] \in Ended /\ (Settled \/ client.phase[s] = "aborted")
      /\ client' =
           IF client.disposed \/ client.manualDisconnect
           THEN [freed EXCEPT !.state = IF client.captured[s].offlineMode
                                          THEN "offline" ELSE "disconnected"]
           ELSE [freed EXCEPT
                   !.state = IF retry THEN "reconnecting" ELSE "disconnected",
                   !.reconnectTimer = \/ @
                                      \/ /\ retry /\ client.config.autoReconnect
                                         /\ ~client.config.offlineMode]
      /\ UNCHANGED <<settings, updates, lost>>

\* No hello-ack within 10 seconds.
HelloTimeout ==
  /\ Settled /\ client.helloTimer
  /\ client' = IF client.state # "connected" /\ client.socket # None
               THEN [Close(client, client.socket) EXCEPT !.helloTimer = FALSE]
               ELSE [client EXCEPT !.helloTimer = FALSE]
  /\ lost' = (lost \/ client.state # "connected")
  /\ UNCHANGED <<settings, updates>>

\* 45 seconds have passed since the last pong, or since the socket was created.
PongGetsOld ==
  /\ Settled /\ client.pongIsFresh
  /\ client' = [client EXCEPT !.pongIsFresh = FALSE]
  /\ UNCHANGED <<settings, updates, lost>>

\* A heartbeat finds the last pong too old.  (Other heartbeats send a ping.)
HeartbeatTimeout ==
  /\ Settled /\ client.heartbeatTimer /\ ~client.pongIsFresh
  /\ client.socket # None
  /\ client' = Close(client, client.socket)
  /\ lost' = (lost \/ client.phase[client.socket] \in Live)
  /\ UNCHANGED <<settings, updates>>

Free(s) == client.phase[s] = "unused"

ReconnectTimeout(s) ==
  /\ Settled /\ client.reconnectTimer /\ Free(s)
  /\ client' = Connect([client EXCEPT !.reconnectTimer = FALSE], client.config, s)
  /\ UNCHANGED <<settings, updates, lost>>

----------------------------------------------------------------------------
\* Calls of the service

\* A call that opened a socket in slot s starts the history anew.
NoteAttempt(s) == lost' = (lost /\ client'.phase[s] # "connecting")

\* initialize, after the stores are loaded.
Initialize(s) ==
  /\ client.config = None /\ Free(s)
  /\ client' = IF settings.offlineMode THEN [client EXCEPT !.config = settings]
               ELSE Connect([client EXCEPT !.config = settings], settings, s)
  /\ NoteAttempt(s)
  /\ UNCHANGED <<settings, updates>>

\* Mutant of Running: commands and settings reach the service from the start.
RunningEarly == Settled /\ ~client.disposed

\* Commands and settings reach the service once it is initialised and until it
\* is disposed.
Running == Settled /\ client.config # None /\ ~client.disposed

\* updateConfig up to its await: the service has the new configuration, the
\* client not yet.
ChangeSettings(config) ==
  /\ Running /\ config # settings
  /\ Len(updates) < MaxUpdates
  /\ settings' = config
  /\ updates' = Append(updates, [previous |-> settings, next |-> config])
  /\ UNCHANGED <<client, lost>>

\* The rest of updateConfig, even after dispose.
ApplyUpdate(s) ==
  LET previous == Head(updates).previous
      next     == Head(updates).next
      k        == [client EXCEPT !.config = next]
  IN  /\ Settled /\ updates # <<>> /\ Free(s)
      /\ updates' = Tail(updates)
      /\ client' =
           CASE next.offlineMode -> Disconnect(k, TRUE)
             [] /\ ~next.offlineMode
                /\ previous.offlineMode \/ previous.identity # next.identity ->
                  Connect(Disconnect(k, FALSE), next, s)
             [] OTHER -> k
      /\ NoteAttempt(s)
      /\ UNCHANGED settings

\* ensureCurrentUser fails (users.json cannot be written): the update ends.
FailUpdate ==
  /\ Settled /\ updates # <<>>
  /\ updates' = Tail(updates)
  /\ UNCHANGED <<settings, client, lost>>

ConnectCommand(s) ==
  /\ Running /\ ~settings.offlineMode /\ Free(s)
  /\ client' = Connect(client, settings, s)
  /\ NoteAttempt(s)
  /\ UNCHANGED <<settings, updates>>

DisconnectCommand ==
  /\ Running
  /\ client' = Disconnect(client, FALSE)
  /\ UNCHANGED <<settings, updates, lost>>

Dispose ==
  /\ Running
  /\ client' = Disconnect([client EXCEPT !.disposed = TRUE], FALSE)
  /\ UNCHANGED <<settings, updates, lost>>

----------------------------------------------------------------------------
Init ==
  /\ settings \in Configs
  /\ updates = <<>>
  /\ client = [socket |-> None, state |-> "disconnected", config |-> None,
               manualDisconnect |-> FALSE, disposed |-> FALSE,
               reconnectTimer |-> FALSE, heartbeatTimer |-> FALSE,
               helloTimer |-> FALSE, pongIsFresh |-> FALSE,
               phase |-> [s \in Sockets |-> "unused"],
               captured |-> [s \in Sockets |-> None]]
  /\ lost = FALSE

Next ==
  \/ \E s \in Sockets :
       \/ OpenEvent(s) \/ HelloAckEvent(s) \/ PongEvent(s)
       \/ PeerCloses(s) \/ CloseEvent(s)
       \/ ReconnectTimeout(s)
       \/ Initialize(s) \/ ApplyUpdate(s) \/ ConnectCommand(s)
  \/ HelloTimeout \/ PongGetsOld \/ HeartbeatTimeout
  \/ \E config \in Configs : ChangeSettings(config)
  \/ FailUpdate \/ DisconnectCommand \/ Dispose

Spec == Init /\ [][Next]_vars

\* Timers go off and a socket that was closed reports it (the library ends the
\* handshake after a time limit).  Nothing is assumed of the server or the user.
Fairness ==
  /\ \A s \in Sockets : WF_vars(CloseEvent(s))
  /\ WF_vars(HelloTimeout) /\ WF_vars(HeartbeatTimeout)
  /\ WF_vars(\E s \in Sockets : ReconnectTimeout(s))

FairSpec == Spec /\ Fairness

----------------------------------------------------------------------------
\* Properties

\* Whatever commands, updates, timers and late events of old sockets come
\* together, no socket that is connecting or open is forgotten: the client
\* holds it, so there is at most one (README: every extension instance
\* connects to one server).
OneLiveSocket == \A s \in Sockets : client.phase[s] \in Live => client.socket = s

\* The hello and heartbeat timers run for the client's own socket, after it
\* has opened; a reconnect is scheduled only while there is no socket.  So no
\* timer is overwritten while it runs, and none closes a younger socket.
TimersServeTheSocket ==
  /\ (client.helloTimer \/ client.heartbeatTimer) =>
       /\ client.socket # None
       /\ client.phase[client.socket] \in {"open", "acked", "closing", "draining", "closed"}
  /\ client.reconnectTimer => client.socket = None

\* Once disconnected by a command, by offline mode or by dispose, the client
\* has no socket and no timer, whatever late events come (README: offline
\* mode closes the WebSocket and stops reconnect timers).
QuietWhenDisconnected ==
  client.manualDisconnect =>
    /\ client.socket = None
    /\ ~client.reconnectTimer /\ ~client.heartbeatTimer /\ ~client.helloTimer

\* The client is to be connected to the server.
IsToBeOnline ==
  /\ client.config # None /\ ~client.config.offlineMode
  /\ ~client.manualDisconnect /\ ~client.disposed

\* A client that is to be online and has neither a socket nor a reconnect
\* scheduled has lost a socket (README: disabling offline mode reconnects to
\* the server).
GivesUpOnlyAfterLoss ==
  (IsToBeOnline /\ client.socket = None /\ ~client.reconnectTimer) => lost

\* A socket the client lost is replaced, unless somebody disconnects or
\* switches autoReconnect off in the meantime.
LossIsRetried ==
  \A s \in Sockets :
    (client.socket = s /\ client.phase[s] \in Ended /\ client.captured[s].autoReconnect)
      ~> \/ client.socket # None /\ client.phase[client.socket] \in Live
         \/ ~(IsToBeOnline /\ client.config.autoReconnect)

\* A hello does not stay unanswered: its socket is acknowledged or ends,
\* however often the server answers pings.
HelloIsAnswered ==
  \A s \in Sockets :
    client.phase[s] = "open" ~> client.phase[s] # "open" \/ client.state = "connected"

\* A peer that has fallen silent is noticed: its socket does not stay open.
SilentPeerIsDropped ==
  \A s \in Sockets :
    (client.phase[s] \in Opened /\ ~client.pongIsFresh)
      ~> client.pongIsFresh \/ client.phase[s] \notin Opened

=============================================================================
