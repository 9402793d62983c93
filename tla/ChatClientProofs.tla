-------------------------- MODULE ChatClientProofs --------------------------
(***************************************************************************)
(* Theorems about ChatClient: type correctness, the invariant of the        *)
(* connection, from which OneLiveSocket, TimersServeTheSocket and           *)
(* QuietWhenDisconnected follow, and what the liveness properties rest on:  *)
(* that timers run and that a lost socket leaves a reconnect.               *)
(***************************************************************************)
EXTENDS ChatClient, SequenceTheorems, TLAPS

\* What is true of the client's fields between any two callbacks.
WellTyped(k) ==
  /\ k \in ClientFields
  /\ \A s \in Sockets : k.phase[s] = "unused" <=> k.captured[s] = None

\* Every live socket is the client's.
HoldsLive(k) == \A s \in Sockets : k.phase[s] \in Live => k.socket = s

TimersMatch(k) ==
  /\ (k.helloTimer \/ k.heartbeatTimer) =>
       /\ k.socket # None
       /\ k.phase[k.socket] \in {"open", "acked", "closing", "draining", "closed"}
  /\ k.reconnectTimer => k.socket = None

\* Once the client's socket has opened its heartbeat runs; the hello timer runs
\* too until an ack has come, and not after the socket's own.
TimersRun(k) ==
  k.socket # None =>
    /\ k.phase[k.socket] \in {"open", "acked", "closing", "draining", "closed"} => k.heartbeatTimer
    /\ k.phase[k.socket] = "open" => k.helloTimer \/ k.state = "connected"
    /\ k.phase[k.socket] = "acked" => k.state = "connected" /\ ~k.helloTimer

IsQuiet(k) ==
  /\ k.socket = None
  /\ ~k.reconnectTimer /\ ~k.heartbeatTimer /\ ~k.helloTimer

\* A socket the client holds exists, and connect does not replace it: so
\* connect never opens a second one, and never leaves a timer to the first.
HeldIsInUse(k) == k.socket # None => k.phase[k.socket] # "unused" /\ InUse(k)

Sound(k) ==
  /\ WellTyped(k) /\ HoldsLive(k) /\ TimersMatch(k) /\ TimersRun(k) /\ HeldIsInUse(k)
  /\ k.manualDisconnect => IsQuiet(k)

----------------------------------------------------------------------------
\* Methods

\* Closing a socket changes nothing but its phase, and leaves it not live.
LEMMA CloseFacts ==
  ASSUME NEW k, WellTyped(k), NEW s \in Sockets
  PROVE  /\ WellTyped(Close(k, s))
         /\ \E p \in Phases :
              /\ Close(k, s) = [k EXCEPT !.phase[s] = p]
              /\ p \notin Live
              /\ k.phase[s] \in {"open", "acked", "closing", "draining", "closed"}
                   <=> p \in {"closing", "draining", "closed"}
              /\ p = "unused" <=> k.phase[s] = "unused"
<1> DEFINE p == CASE k.phase[s] = "connecting" -> "aborted"
                  [] k.phase[s] = "open"       -> "closing"
                  [] k.phase[s] = "acked"      -> "draining"
                  [] OTHER                     -> k.phase[s]
<1>1. k \in ClientFields /\ k.phase[s] \in Phases
  BY DEF WellTyped, ClientFields
<1>2. /\ p \in Phases /\ p \notin Live
      /\ k.phase[s] \in {"open", "acked", "closing", "draining", "closed"}
           <=> p \in {"closing", "draining", "closed"}
      /\ p = "unused" <=> k.phase[s] = "unused"
  BY <1>1 DEF Phases, Live, Ended
<1>3. Close(k, s) = [k EXCEPT !.phase[s] = p]
  BY <1>1 DEF Close, ClientFields
<1> HIDE DEF p
<1>4. WellTyped([k EXCEPT !.phase[s] = p])
  BY <1>1, <1>2 DEF WellTyped, ClientFields
<1>5. QED
  BY <1>2, <1>3, <1>4

\* closeSocket leaves the client without a socket and none live.
LEMMA CloseSocketFacts ==
  ASSUME NEW k, WellTyped(k), HoldsLive(k)
  PROVE  \E f \in [Sockets -> Phases] :
           /\ CloseSocket(k) = [k EXCEPT !.socket = None, !.phase = f]
           /\ \A s \in Sockets : /\ f[s] \notin Live
                                 /\ f[s] = "unused" <=> k.phase[s] = "unused"
<1>1. CASE k.socket = None
  <2>1. CloseSocket(k) = [k EXCEPT !.socket = None, !.phase = k.phase]
    BY <1>1 DEF CloseSocket, WellTyped, ClientFields
  <2>2. k.phase \in [Sockets -> Phases] /\ \A s \in Sockets : k.phase[s] \notin Live
    BY <1>1, NoneIsOther DEF HoldsLive, WellTyped, ClientFields
  <2>3. QED
    BY <2>1, <2>2
<1>2. CASE k.socket # None
  <2>1. k.socket \in Sockets
    BY <1>2 DEF WellTyped, ClientFields
  <2>2. PICK p \in Phases : /\ Close(k, k.socket) = [k EXCEPT !.phase[k.socket] = p]
                            /\ p \notin Live
                            /\ p = "unused" <=> k.phase[k.socket] = "unused"
    BY <2>1, CloseFacts
  <2> DEFINE f == [k.phase EXCEPT ![k.socket] = p]
  <2>3. CloseSocket(k) = [k EXCEPT !.socket = None, !.phase = f]
    BY <1>2, <2>1, <2>2 DEF CloseSocket, WellTyped, ClientFields
  <2>4. f \in [Sockets -> Phases]
    BY <2>2 DEF WellTyped, ClientFields
  <2>5. ASSUME NEW s \in Sockets
        PROVE  f[s] \notin Live /\ (f[s] = "unused" <=> k.phase[s] = "unused")
    BY <2>1, <2>2 DEF HoldsLive, WellTyped, ClientFields
  <2>6. QED
    BY <2>3, <2>4, <2>5
<1>3. QED
  BY <1>1, <1>2

\* disconnect leaves a quiet client, from any state in which the client holds
\* the live socket: nothing else need hold before.
LEMMA DisconnectFacts ==
  ASSUME NEW k, WellTyped(k), HoldsLive(k), NEW offline \in BOOLEAN
  PROVE  /\ Sound(Disconnect(k, offline))
         /\ Disconnect(k, offline).config = k.config
         /\ \A s \in Sockets :
              Disconnect(k, offline).phase[s] = "unused" <=> k.phase[s] = "unused"
<1> DEFINE c == ClearTimers(k)
           d == Disconnect(k, offline)
<1>1. /\ WellTyped(c) /\ HoldsLive(c) /\ c.phase = k.phase
      /\ c.config = k.config /\ c.captured = k.captured
      /\ ~c.heartbeatTimer /\ ~c.helloTimer
  BY DEF ClearTimers, WellTyped, ClientFields, HoldsLive
<1>2. PICK f \in [Sockets -> Phases] :
        /\ CloseSocket(c) = [c EXCEPT !.socket = None, !.phase = f]
        /\ \A s \in Sockets : /\ f[s] \notin Live
                              /\ f[s] = "unused" <=> c.phase[s] = "unused"
  BY <1>1, CloseSocketFacts
<1>3. d = [c EXCEPT !.socket = None, !.phase = f,
                    !.manualDisconnect = TRUE, !.reconnectTimer = FALSE,
                    !.state = IF offline THEN "offline" ELSE "disconnected"]
  BY <1>1, <1>2 DEF Disconnect, WellTyped, ClientFields
<1>4. /\ d \in ClientFields /\ d.phase = f /\ d.socket = None
      /\ d.captured = k.captured /\ d.config = k.config
      /\ ~d.reconnectTimer /\ ~d.heartbeatTimer /\ ~d.helloTimer
  BY <1>1, <1>3 DEF WellTyped, ClientFields, States
<1> HIDE DEF c, d
<1>5. \A s \in Sockets : d.phase[s] = "unused" <=> k.phase[s] = "unused"
  BY <1>1, <1>2, <1>4
<1>6. Sound(d)
  BY <1>2, <1>4, <1>5
     DEF Sound, WellTyped, HoldsLive, TimersMatch, TimersRun, HeldIsInUse, IsQuiet
<1>7. QED
  BY <1>4, <1>5, <1>6 DEF d


\* connect keeps the client sound: it opens a socket only when there is none.
LEMMA ConnectFacts ==
  ASSUME NEW k, Sound(k), NEW config \in Configs,
         NEW s \in Sockets, k.phase[s] = "unused"
  PROVE  Sound(Connect(k, config, s))
<1> DEFINE n == Connect(k, config, s)
<1>1. CASE config.offlineMode
  <2> DEFINE d == Disconnect(k, TRUE)
  <2>1. Sound(d)
    BY DisconnectFacts DEF Sound
  <2>2. n = [d EXCEPT !.config = config]
    BY <1>1 DEF Connect
  <2> HIDE DEF d
  <2>3. Sound([d EXCEPT !.config = config])
    BY <2>1 DEF Sound, WellTyped, ClientFields, HoldsLive, TimersMatch, TimersRun, HeldIsInUse,
                InUse, IsQuiet
  <2>4. QED
    BY <2>2, <2>3
<1>2. CASE ~config.offlineMode /\ k.socket # None /\ InUse(k)
  <2>1. n = [k EXCEPT !.config = config]
    BY <1>2 DEF Connect
  <2>2. QED
    BY <2>1 DEF Sound, WellTyped, ClientFields, HoldsLive, TimersMatch, TimersRun, HeldIsInUse,
                InUse, IsQuiet
<1>3. CASE ~config.offlineMode /\ ~(k.socket # None /\ InUse(k))
  <2>1. k.socket = None
    BY <1>3 DEF Sound, HeldIsInUse
  <2>2. ~k.helloTimer /\ ~k.heartbeatTimer /\ k \in ClientFields
    BY <2>1 DEF Sound, TimersMatch, WellTyped
  <2>3. PICK st \in {"connecting", "reconnecting"} :
          n = NewSocket([k EXCEPT !.config = config, !.manualDisconnect = FALSE,
                                  !.reconnectTimer = FALSE, !.state = st], s)
    BY <1>3, <2>1, <2>2 DEF Connect, CloseSocket, ClientFields
  <2> DEFINE b == [k EXCEPT !.config = config, !.manualDisconnect = FALSE,
                            !.reconnectTimer = FALSE, !.state = st]
  <2>4. /\ b \in ClientFields /\ b.config = config /\ b.state = st
        /\ b.phase = k.phase /\ b.captured = k.captured
        /\ ~b.helloTimer /\ ~b.heartbeatTimer /\ ~b.reconnectTimer /\ ~b.manualDisconnect
    BY <2>2 DEF ClientFields, States
  <2>5. n = NewSocket(b, s)
    BY <2>3
  <2> HIDE DEF b, n
  <2>6. /\ n \in ClientFields /\ n.socket = s /\ n.state = st
        /\ n.phase = [k.phase EXCEPT ![s] = "connecting"]
        /\ n.captured = [k.captured EXCEPT ![s] = config]
        /\ ~n.helloTimer /\ ~n.heartbeatTimer /\ ~n.reconnectTimer /\ ~n.manualDisconnect
    BY <2>4, <2>5 DEF NewSocket, ClientFields, Phases, Live
  <2>7. k.phase \in [Sockets -> Phases] /\ k.captured \in [Sockets -> Configs \cup {None}]
    BY <2>2 DEF ClientFields
  <2>8. config # None
    BY ConfigsAreConfigs, NoneIsOther
  <2>9. WellTyped(n)
    BY <2>6, <2>7, <2>8 DEF WellTyped, Sound
  <2>10. HoldsLive(n)
    BY <2>1, <2>6, <2>7, NoneIsOther DEF HoldsLive, Sound
  <2>11. TimersMatch(n)
    BY <2>6 DEF TimersMatch
  <2>12. HeldIsInUse(n) /\ TimersRun(n)
    BY <2>6, <2>7 DEF HeldIsInUse, InUse, TimersRun
  <2>13. QED
    BY <2>6, <2>9, <2>10, <2>11, <2>12 DEF Sound, n
<1>4. QED
  BY <1>1, <1>2, <1>3

----------------------------------------------------------------------------
\* Events

LEMMA OpenSound ==
  ASSUME Sound(client), NEW s \in Sockets, OpenEvent(s)
  PROVE  Sound(client')
<1>1. /\ client.phase[s] = "connecting" /\ client \in ClientFields
      /\ client.socket = s
  BY DEF OpenEvent, Sound, WellTyped, HoldsLive, Live
<1>2. client' = [client EXCEPT !.phase[s] = "open", !.helloTimer = TRUE,
                               !.heartbeatTimer = TRUE]
  BY <1>1, NoneIsOther DEF OpenEvent, SendHello, StartHeartbeat, Opened, ClientFields
<1>3. ~client.reconnectTimer /\ ~client.manualDisconnect /\ InUse(client)
  BY <1>1, NoneIsOther DEF Sound, TimersMatch, IsQuiet, HeldIsInUse
<1>4. client' \in ClientFields
  BY <1>1, <1>2 DEF ClientFields, Phases, Live
<1>5. /\ client'.phase = [client.phase EXCEPT ![s] = "open"] /\ client'.socket = s
      /\ client'.helloTimer /\ client'.heartbeatTimer
      /\ client'.captured = client.captured /\ client'.state = client.state
      /\ ~client'.reconnectTimer /\ ~client'.manualDisconnect
  BY <1>1, <1>2, <1>3 DEF ClientFields
<1>6. client.phase \in [Sockets -> Phases]
  BY <1>1 DEF ClientFields
<1>7. QED
  BY <1>1, <1>3, <1>4, <1>5, <1>6, NoneIsOther
     DEF Sound, WellTyped, HoldsLive, TimersMatch, TimersRun, HeldIsInUse, InUse, Live

LEMMA AckSound ==
  ASSUME Sound(client), NEW s \in Sockets, HelloAckEvent(s)
  PROVE  Sound(client')
<1>1. client \in ClientFields /\ client.phase[s] \in {"open", "closing"}
  BY DEF HelloAckEvent, Sound, WellTyped
<1>2. PICK p \in {"acked", "draining"} :
        /\ client' = [client EXCEPT !.helloTimer = FALSE, !.state = "connected",
                                    !.phase[s] = p]
        /\ p = "acked" => client.phase[s] = "open"
  BY <1>1 DEF HelloAckEvent, ClientFields
<1>3. client' \in ClientFields
  BY <1>1, <1>2 DEF ClientFields, Phases, Live, Ended, States
<1>4. /\ client'.phase = [client.phase EXCEPT ![s] = p]
      /\ client'.socket = client.socket /\ client'.captured = client.captured
      /\ client'.state = "connected" /\ ~client'.helloTimer
      /\ client'.heartbeatTimer = client.heartbeatTimer
      /\ client'.reconnectTimer = client.reconnectTimer
      /\ client'.manualDisconnect = client.manualDisconnect
  BY <1>1, <1>2 DEF ClientFields
<1>5. client.phase \in [Sockets -> Phases]
  BY <1>1 DEF ClientFields
<1>6. WellTyped(client') /\ HoldsLive(client')
  BY <1>1, <1>2, <1>3, <1>4, <1>5 DEF Sound, WellTyped, HoldsLive, Live
<1>7. TimersMatch(client') /\ HeldIsInUse(client')
  BY <1>1, <1>2, <1>4, <1>5 DEF Sound, TimersMatch, HeldIsInUse, InUse
<1>8. TimersRun(client')
  BY <1>1, <1>2, <1>4, <1>5 DEF Sound, TimersRun
<1>9. QED
  BY <1>4, <1>6, <1>7, <1>8 DEF Sound, IsQuiet

LEMMA PeerSound ==
  ASSUME Sound(client), NEW s \in Sockets, PeerCloses(s)
  PROVE  Sound(client')
<1>1. client \in ClientFields /\ client.phase[s] \in Live
  BY DEF PeerCloses, Sound, WellTyped
<1>2. PICK p \in {"aborted", "closed"} :
        /\ client' = [client EXCEPT !.phase[s] = p]
        /\ p = "aborted" <=> client.phase[s] = "connecting"
  BY <1>1 DEF PeerCloses, ClientFields
<1>3. client' \in ClientFields /\ client.phase \in [Sockets -> Phases]
  BY <1>1, <1>2 DEF ClientFields, Phases, Ended
<1>4. client' = [client EXCEPT !.phase = [client.phase EXCEPT ![s] = p]]
  BY <1>1, <1>2 DEF ClientFields
<1>5. TimersRun(client')
  BY <1>1, <1>2, <1>3, <1>4, NoneIsOther DEF Sound, HoldsLive, TimersRun, Live, ClientFields
<1>6. WellTyped(client') /\ HoldsLive(client')
  BY <1>1, <1>2, <1>3, <1>4 DEF Sound, WellTyped, HoldsLive, Live, ClientFields
<1>7. TimersMatch(client') /\ HeldIsInUse(client')
  BY <1>1, <1>2, <1>3, <1>4 DEF Sound, TimersMatch, HeldIsInUse, InUse, Live, ClientFields
<1>8. client'.manualDisconnect => IsQuiet(client')
  BY <1>1, <1>3, <1>4 DEF Sound, IsQuiet, ClientFields
<1>9. QED
  BY <1>5, <1>6, <1>7, <1>8 DEF Sound

\* The close event of any socket leaves the client without one.
LEMMA CloseEventSound ==
  ASSUME Sound(client), NEW s \in Sockets, CloseEvent(s)
  PROVE  Sound(client')
<1> DEFINE c == ClearTimers(client)
<1>1. /\ WellTyped(c) /\ HoldsLive(c)
      /\ c.phase = client.phase /\ c.captured = client.captured
      /\ ~c.heartbeatTimer /\ ~c.helloTimer /\ c.reconnectTimer = client.reconnectTimer
      /\ c.manualDisconnect = client.manualDisconnect
  BY DEF ClearTimers, Sound, WellTyped, ClientFields, HoldsLive
<1>2. PICK f \in [Sockets -> Phases] :
        /\ CloseSocket(c) = [c EXCEPT !.socket = None, !.phase = f]
        /\ \A t \in Sockets : /\ f[t] \notin Live
                              /\ f[t] = "unused" <=> c.phase[t] = "unused"
  BY <1>1, CloseSocketFacts
<1> DEFINE g == [f EXCEPT ![s] = "unused"]
           h == [client.captured EXCEPT ![s] = None]
<1> HIDE DEF c
<1>3. PICK st \in States, r \in BOOLEAN :
        /\ client' = [[CloseSocket(c) EXCEPT !.phase[s] = "unused", !.captured[s] = None]
                        EXCEPT !.state = st, !.reconnectTimer = r]
        /\ client.manualDisconnect => r = client.reconnectTimer
  <2> DEFINE b == [CloseSocket(c) EXCEPT !.phase[s] = "unused", !.captured[s] = None]
  <2>1. b \in ClientFields /\ b.reconnectTimer = client.reconnectTimer
    BY <1>1, <1>2 DEF WellTyped, ClientFields, Phases
  <2>2. CASE client.disposed \/ client.manualDisconnect
    <3>1. client' = [b EXCEPT !.state = IF client.captured[s].offlineMode
                                          THEN "offline" ELSE "disconnected"]
      BY <2>2 DEF CloseEvent, c
    <3>2. client' = [b EXCEPT !.state = IF client.captured[s].offlineMode
                                          THEN "offline" ELSE "disconnected",
                              !.reconnectTimer = client.reconnectTimer]
      BY <2>1, <3>1 DEF ClientFields
    <3>3. client.reconnectTimer \in BOOLEAN
      BY <2>1 DEF ClientFields
    <3>4. QED
      BY <3>2, <3>3 DEF States
  <2>3. CASE ~(client.disposed \/ client.manualDisconnect)
    <3> DEFINE retry == client.captured[s].autoReconnect
               r == \/ b.reconnectTimer
                    \/ retry /\ client.config.autoReconnect /\ ~client.config.offlineMode
    <3>1. client' = [b EXCEPT !.state = IF retry THEN "reconnecting" ELSE "disconnected",
                              !.reconnectTimer = r]
      BY <2>1, <2>3 DEF CloseEvent, c, ClientFields
    <3>2. r \in BOOLEAN
      OBVIOUS
    <3>3. QED
      BY <2>3, <3>1, <3>2 DEF States
  <2>4. QED
    BY <2>2, <2>3
<1>4. client' = [c EXCEPT !.socket = None, !.phase = g, !.captured = h,
                          !.state = st, !.reconnectTimer = r]
  BY <1>1, <1>2, <1>3 DEF WellTyped, ClientFields
<1>5. /\ g \in [Sockets -> Phases]
      /\ h \in [Sockets -> Configs \cup {None}]
  BY <1>1, <1>2 DEF WellTyped, ClientFields, Phases
<1>6. \A t \in Sockets : /\ g[t] \notin Live
                         /\ g[t] = "unused" <=> h[t] = None
  <2>1. \A t \in Sockets : client.phase[t] = "unused" <=> client.captured[t] = None
    BY DEF Sound, WellTyped
  <2>2. client.captured \in [Sockets -> Configs \cup {None}]
    BY DEF Sound, WellTyped, ClientFields
  <2>3. \A t \in Sockets : /\ f[t] \notin Live
                           /\ f[t] = "unused" <=> client.captured[t] = None
    BY <1>1, <1>2, <2>1
  <2>4. "unused" \notin Live
    BY DEF Live
  <2>5. QED
    BY <2>2, <2>3, <2>4
<1> HIDE DEF g, h
<1>7. /\ client' \in ClientFields /\ client'.socket = None
      /\ client'.phase = g /\ client'.captured = h
      /\ ~client'.heartbeatTimer /\ ~client'.helloTimer /\ client'.reconnectTimer = r
      /\ client'.manualDisconnect = client.manualDisconnect
  BY <1>1, <1>4, <1>5 DEF WellTyped, ClientFields
<1>8. /\ WellTyped(client') /\ HoldsLive(client') /\ TimersMatch(client')
      /\ TimersRun(client') /\ HeldIsInUse(client')
  BY <1>6, <1>7 DEF WellTyped, HoldsLive, TimersMatch, TimersRun, HeldIsInUse
<1>9. client'.manualDisconnect => IsQuiet(client')
  BY <1>3, <1>7 DEF Sound, IsQuiet
<1>10. QED
  BY <1>8, <1>9 DEF Sound

\* Closing a socket keeps the client sound.
LEMMA CloseSound ==
  ASSUME NEW k, Sound(k), NEW s \in Sockets
  PROVE  Sound(Close(k, s))
<1>1. PICK p \in Phases :
        /\ Close(k, s) = [k EXCEPT !.phase[s] = p]
        /\ p \notin Live
        /\ k.phase[s] \in {"open", "acked", "closing", "draining", "closed"}
             <=> p \in {"closing", "draining", "closed"}
        /\ p = "unused" <=> k.phase[s] = "unused"
  BY CloseFacts DEF Sound
<1> DEFINE n == Close(k, s)
<1>2. WellTyped(n) /\ k \in ClientFields /\ k.phase \in [Sockets -> Phases]
  BY CloseFacts DEF Sound, WellTyped, ClientFields
<1>3. n = [k EXCEPT !.phase = [k.phase EXCEPT ![s] = p]]
  BY <1>1, <1>2 DEF ClientFields
<1> HIDE DEF n
<1>4. /\ n.phase = [k.phase EXCEPT ![s] = p]
      /\ n.socket = k.socket /\ n.state = k.state /\ n.manualDisconnect = k.manualDisconnect
      /\ n.reconnectTimer = k.reconnectTimer /\ n.heartbeatTimer = k.heartbeatTimer
      /\ n.helloTimer = k.helloTimer
  BY <1>2, <1>3 DEF ClientFields
<1>5. HoldsLive(n)
  BY <1>1, <1>2, <1>4 DEF Sound, HoldsLive
<1>6. TimersMatch(n)
  BY <1>1, <1>2, <1>4 DEF Sound, TimersMatch
<1>7. HeldIsInUse(n) /\ TimersRun(n)
  BY <1>1, <1>2, <1>4 DEF Sound, HeldIsInUse, InUse, TimersRun, Live
<1>8. Sound(n)
  BY <1>2, <1>4, <1>5, <1>6, <1>7 DEF Sound, IsQuiet
<1>9. QED
  BY <1>8 DEF n

\* The timers and pongs that open no socket.
LEMMA TimeoutSound ==
  ASSUME Sound(client), HelloTimeout \/ PongGetsOld \/ HeartbeatTimeout
                          \/ \E s \in Sockets : PongEvent(s)
  PROVE  Sound(client')
<1>1. client \in ClientFields
  BY DEF Sound, WellTyped
<1>2. ASSUME NEW k, Sound(k),
             k.state = "connected" \/ k.socket = None \/ k.phase[k.socket] \notin Live
      PROVE  Sound([k EXCEPT !.helloTimer = FALSE])
  BY <1>2 DEF Sound, WellTyped, ClientFields, HoldsLive, TimersMatch, TimersRun, HeldIsInUse, InUse,
              IsQuiet, Live
<1>3. CASE HelloTimeout
  <2>1. CASE client.state # "connected" /\ client.socket # None
    <3>1. client.socket \in Sockets
      BY <1>1, <2>1 DEF ClientFields
    <3> DEFINE k == Close(client, client.socket)
    <3>2. Sound(k)
      BY <3>1, CloseSound
    <3>3. k.socket = client.socket /\ k.phase[client.socket] \notin Live
      BY <1>1, <3>1, CloseFacts DEF Sound, ClientFields
    <3>4. client' = [k EXCEPT !.helloTimer = FALSE]
      BY <1>3, <2>1 DEF HelloTimeout
    <3> HIDE DEF k
    <3>5. QED
      BY <1>2, <3>2, <3>3, <3>4
  <2>2. CASE ~(client.state # "connected" /\ client.socket # None)
    BY <1>2, <1>3, <2>2 DEF HelloTimeout
  <2>3. QED
    BY <2>1, <2>2
<1>4. CASE HeartbeatTimeout
  <2>1. client.socket \in Sockets /\ client' = Close(client, client.socket)
    BY <1>1, <1>4 DEF HeartbeatTimeout, ClientFields
  <2>2. QED
    BY <2>1, CloseSound
<1>5. CASE PongGetsOld \/ \E s \in Sockets : PongEvent(s)
  <2>1. PICK fresh \in BOOLEAN : client' = [client EXCEPT !.pongIsFresh = fresh]
    BY <1>5 DEF PongGetsOld, PongEvent
  <2>2. QED
    BY <2>1 DEF Sound, WellTyped, ClientFields, HoldsLive, TimersMatch, TimersRun, HeldIsInUse, InUse,
                IsQuiet
<1>6. QED
  BY <1>3, <1>4, <1>5

----------------------------------------------------------------------------
\* The invariant of the connection.  Before initialize there is no
\* configuration, and nothing that could use one: no timer, no update.

Update == [previous : Configs, next : Configs]

UpdatesOK ==
  /\ settings \in Configs
  /\ updates \in Seq(Update) /\ Len(updates) <= MaxUpdates
  /\ lost \in BOOLEAN

UnconfiguredIsIdle ==
  client.config = None =>
    /\ updates = <<>> /\ ~client.reconnectTimer
    /\ \A s \in Sockets : client.phase[s] = "unused"

ClientInv == Sound(client) /\ UpdatesOK /\ UnconfiguredIsIdle

\* Nothing holds in the fresh client that it would have to give up.
LEMMA ClientInit ==
  ASSUME Init
  PROVE  ClientInv
<1>1. Sound(client)
  BY DEF Init, Sound, WellTyped, ClientFields, States, Phases, HoldsLive, Live,
         TimersMatch, TimersRun, HeldIsInUse, IsQuiet
<1>2. UpdatesOK
  <2>1. updates \in Seq(Update) /\ Len(updates) <= MaxUpdates
    BY EmptySeq, BoundIsNatural DEF Init
  <2>2. settings \in Configs /\ lost \in BOOLEAN
    BY DEF Init
  <2>3. QED
    BY <2>1, <2>2 DEF UpdatesOK
<1>3. UnconfiguredIsIdle
  BY DEF Init, UnconfiguredIsIdle
<1>4. QED
  BY <1>1, <1>2, <1>3 DEF ClientInv

\* Setting the configuration keeps the client sound.
LEMMA ConfigureSound ==
  ASSUME NEW k, Sound(k), NEW config \in Configs
  PROVE  /\ Sound([k EXCEPT !.config = config])
         /\ [k EXCEPT !.config = config].phase = k.phase
         /\ [k EXCEPT !.config = config].config = config
BY DEF Sound, WellTyped, ClientFields, HoldsLive, TimersMatch, TimersRun, HeldIsInUse, InUse, IsQuiet

\* The calls of the service, and the reconnect timer.
LEMMA CallSound ==
  ASSUME ClientInv, NEW s \in Sockets,
         Initialize(s) \/ ApplyUpdate(s) \/ ConnectCommand(s) \/ ReconnectTimeout(s)
  PROVE  Sound(client')
<1>1. Sound(client) /\ settings \in Configs
  BY DEF ClientInv, UpdatesOK
<1>2. client.phase[s] = "unused" /\ client \in ClientFields
  BY <1>1 DEF Initialize, ApplyUpdate, ConnectCommand, ReconnectTimeout, Free, Sound,
              WellTyped
<1>3. CASE Initialize(s)
  BY <1>1, <1>2, <1>3, ConfigureSound, ConnectFacts DEF Initialize
<1>4. CASE ConnectCommand(s)
  BY <1>1, <1>2, <1>4, ConnectFacts DEF ConnectCommand
<1>5. CASE ReconnectTimeout(s)
  <2> DEFINE k == [client EXCEPT !.reconnectTimer = FALSE]
  <2>1. Sound(k) /\ k.phase = client.phase
    BY <1>1 DEF Sound, WellTyped, ClientFields, HoldsLive, TimersMatch, TimersRun, HeldIsInUse, InUse,
                IsQuiet
  <2>2. client.config \in Configs
    BY <1>2, <1>5 DEF ReconnectTimeout, ClientInv, UnconfiguredIsIdle, ClientFields
  <2>3. client' = Connect(k, client.config, s)
    BY <1>5 DEF ReconnectTimeout
  <2> HIDE DEF k
  <2>4. QED
    BY <1>2, <2>1, <2>2, <2>3, ConnectFacts
<1>6. CASE ApplyUpdate(s)
  <2> DEFINE previous == Head(updates).previous
             next     == Head(updates).next
             k        == [client EXCEPT !.config = next]
  <2>1. next \in Configs
    <3>1. Head(updates) \in Update
      BY <1>6 DEF ApplyUpdate, ClientInv, UpdatesOK
    <3>2. QED
      BY <3>1 DEF Update
  <2>2. client' = CASE next.offlineMode -> Disconnect(k, TRUE)
                    [] /\ ~next.offlineMode
                       /\ previous.offlineMode \/ previous.identity # next.identity ->
                         Connect(Disconnect(k, FALSE), next, s)
                    [] OTHER -> k
    BY <1>6 DEF ApplyUpdate
  <2> HIDE DEF previous, next
  <2>3. Sound(k) /\ k.phase = client.phase
    BY <1>1, <2>1, ConfigureSound
  <2> HIDE DEF k
  <2>4. Sound(Disconnect(k, TRUE))
    BY <2>3, DisconnectFacts DEF Sound
  <2>5. Sound(Connect(Disconnect(k, FALSE), next, s))
    <3>1. Sound(Disconnect(k, FALSE)) /\ Disconnect(k, FALSE).phase[s] = "unused"
      BY <1>2, <2>3, DisconnectFacts DEF Sound
    <3>2. QED
      BY <2>1, <3>1, ConnectFacts
  <2>6. QED
    BY <2>2, <2>3, <2>4, <2>5
<1>7. QED
  BY <1>3, <1>4, <1>5, <1>6

\* disconnect and dispose.
LEMMA StopSound ==
  ASSUME Sound(client), DisconnectCommand \/ Dispose
  PROVE  Sound(client')
<1>1. CASE DisconnectCommand
  BY <1>1, DisconnectFacts DEF DisconnectCommand, Sound
<1>2. CASE Dispose
  <2> DEFINE k == [client EXCEPT !.disposed = TRUE]
  <2>1. WellTyped(k) /\ HoldsLive(k)
    BY DEF Sound, WellTyped, ClientFields, HoldsLive
  <2>2. client' = Disconnect(k, FALSE)
    BY <1>2 DEF Dispose
  <2> HIDE DEF k
  <2>3. QED
    BY <2>1, <2>2, DisconnectFacts
<1>3. QED
  BY <1>1, <1>2

\* Every step keeps the client sound.
LEMMA SoundStep ==
  ASSUME ClientInv, [Next]_vars
  PROVE  Sound(client')
<1>1. Sound(client)
  BY DEF ClientInv
<1>2. CASE UNCHANGED client
  BY <1>1, <1>2
<1>3. CASE Next
  <2>1. CASE \E s \in Sockets : \/ OpenEvent(s) \/ HelloAckEvent(s)
                                \/ PeerCloses(s) \/ CloseEvent(s)
    BY <1>1, <2>1, OpenSound, AckSound, PeerSound, CloseEventSound
  <2>2. CASE \/ HelloTimeout \/ PongGetsOld \/ HeartbeatTimeout
             \/ \E s \in Sockets : PongEvent(s)
    BY <1>1, <2>2, TimeoutSound
  <2>3. CASE \E s \in Sockets : \/ ReconnectTimeout(s) \/ Initialize(s)
                                \/ ApplyUpdate(s) \/ ConnectCommand(s)
    BY <2>3, CallSound
  <2>4. CASE DisconnectCommand \/ Dispose
    BY <1>1, <2>4, StopSound
  <2>5. CASE FailUpdate \/ \E config \in Configs : ChangeSettings(config)
    BY <1>2, <2>5 DEF FailUpdate, ChangeSettings
  <2>6. QED
    BY <1>3, <2>1, <2>2, <2>3, <2>4, <2>5 DEF Next
<1>4. QED
  BY <1>2, <1>3 DEF vars

\* Updates wait in order and within the bound.
LEMMA UpdatesStep ==
  ASSUME UpdatesOK, [Next]_vars
  PROVE  UpdatesOK'
<1>1. lost' \in BOOLEAN
  BY DEF UpdatesOK, Next, vars, NoteAttempt, OpenEvent, HelloAckEvent, PongEvent, PeerCloses,
         CloseEvent, HelloTimeout, PongGetsOld, HeartbeatTimeout, ReconnectTimeout,
         Initialize, ChangeSettings, ApplyUpdate, FailUpdate, ConnectCommand,
         DisconnectCommand, Dispose
<1>2. CASE UNCHANGED <<settings, updates>>
  BY <1>1, <1>2 DEF UpdatesOK
<1>3. ASSUME NEW config \in Configs, ChangeSettings(config)
      PROVE  UpdatesOK'
  <2>1. [previous |-> settings, next |-> config] \in Update
    BY DEF UpdatesOK, Update
  <2>2. /\ updates' = Append(updates, [previous |-> settings, next |-> config])
        /\ settings' = config /\ Len(updates) < MaxUpdates
    BY <1>3 DEF ChangeSettings
  <2>3. updates' \in Seq(Update) /\ Len(updates') = Len(updates) + 1
    BY <2>1, <2>2, AppendProperties DEF UpdatesOK
  <2>4. QED
    BY <1>1, <2>2, <2>3, LenProperties, BoundIsNatural DEF UpdatesOK
<1>4. CASE FailUpdate \/ \E s \in Sockets : ApplyUpdate(s)
  <2>1. updates # <<>> /\ updates' = Tail(updates) /\ settings' = settings
    BY <1>4 DEF FailUpdate, ApplyUpdate
  <2>2. updates' \in Seq(Update) /\ Len(updates') = Len(updates) - 1
    BY <2>1, HeadTailProperties DEF UpdatesOK
  <2>3. QED
    BY <1>1, <2>1, <2>2, LenProperties, BoundIsNatural DEF UpdatesOK
<1>5. QED
  BY <1>2, <1>3, <1>4
     DEF Next, vars, OpenEvent, HelloAckEvent, PongEvent, PeerCloses, CloseEvent,
         HelloTimeout, PongGetsOld, HeartbeatTimeout, ReconnectTimeout, Initialize,
         ConnectCommand, DisconnectCommand, Dispose

\* connect takes over the configuration, whatever else it does.
LEMMA ConnectConfig ==
  ASSUME NEW k, Sound(k), NEW config \in Configs, NEW s \in Sockets
  PROVE  Connect(k, config, s).config = config
<1>1. CASE config.offlineMode
  <2>1. Sound(Disconnect(k, TRUE))
    BY DisconnectFacts DEF Sound
  <2>2. QED
    BY <1>1, <2>1 DEF Connect, Sound, WellTyped, ClientFields
<1>2. CASE ~config.offlineMode /\ k.socket # None /\ InUse(k)
  BY <1>2 DEF Connect, Sound, WellTyped, ClientFields
<1>3. CASE ~config.offlineMode /\ ~(k.socket # None /\ InUse(k))
  <2>1. CloseSocket(k) = k
    BY <1>3 DEF Sound, HeldIsInUse, CloseSocket
  <2>2. k \in ClientFields
    BY DEF Sound, WellTyped
  <2>3. QED
    BY <1>3, <2>1, <2>2 DEF Connect, NewSocket, ClientFields
<1>4. QED
  BY <1>1, <1>2, <1>3

\* A configuration is never taken away, by connect or by any event.
LEMMA ConfigStays ==
  ASSUME ClientInv, Next, client.config # None
  PROVE  client'.config # None
<1>1. /\ client \in ClientFields /\ client.config \in Configs
      /\ Sound(client) /\ WellTyped(client) /\ HoldsLive(client)
  BY DEF ClientInv, Sound, WellTyped, ClientFields
<1>2. ASSUME NEW config \in Configs PROVE config # None
  BY ConfigsAreConfigs, NoneIsOther
<1>4. CASE \E s \in Sockets : OpenEvent(s) \/ HelloAckEvent(s) \/ PongEvent(s) \/ PeerCloses(s)
  BY <1>1, <1>4 DEF OpenEvent, SendHello, StartHeartbeat, HelloAckEvent, PongEvent, PeerCloses,
                    ClientFields
<1>5. ASSUME NEW s \in Sockets, CloseEvent(s)
      PROVE  client'.config # None
  <2>1. ClearTimers(client) \in ClientFields /\ ClearTimers(client).config = client.config
        /\ WellTyped(ClearTimers(client)) /\ HoldsLive(ClearTimers(client))
    BY <1>1 DEF ClearTimers, ClientFields, WellTyped, HoldsLive
  <2>2. PICK f : CloseSocket(ClearTimers(client)) =
                   [ClearTimers(client) EXCEPT !.socket = None, !.phase = f]
    BY <2>1, CloseSocketFacts
  <2>3. client'.config = client.config
    BY <1>5, <2>1, <2>2 DEF CloseEvent, ClientFields
  <2>4. QED
    BY <1>1, <1>2, <2>3
<1>6. CASE HelloTimeout \/ PongGetsOld \/ HeartbeatTimeout
  BY <1>1, <1>6 DEF HelloTimeout, PongGetsOld, HeartbeatTimeout, Close, ClientFields
<1>7. ASSUME NEW s \in Sockets,
             Initialize(s) \/ ConnectCommand(s) \/ ReconnectTimeout(s) \/ ApplyUpdate(s)
      PROVE  client'.config # None
  <2>0. settings \in Configs
    BY DEF ClientInv, UpdatesOK
  <2>1. CASE Initialize(s) \/ ConnectCommand(s)
    BY <1>1, <1>2, ConfigureSound, ConnectConfig, <2>0, <2>1 DEF Initialize, ConnectCommand
  <2>2. CASE ReconnectTimeout(s)
    <3>1. Sound([client EXCEPT !.reconnectTimer = FALSE])
      BY <1>1 DEF Sound, WellTyped, ClientFields, HoldsLive, TimersMatch, TimersRun, HeldIsInUse, InUse,
                  IsQuiet
    <3>2. QED
      BY <1>1, <1>2, ConnectConfig, <2>2, <3>1 DEF ReconnectTimeout
  <2>3. CASE ApplyUpdate(s)
    <3> DEFINE previous == Head(updates).previous
               next     == Head(updates).next
               k        == [client EXCEPT !.config = next]
    <3>1. next \in Configs
      <4>1. Head(updates) \in Update
        BY <2>3 DEF ApplyUpdate, ClientInv, UpdatesOK
      <4>2. QED
        BY <4>1 DEF Update
    <3>2. client' = CASE next.offlineMode -> Disconnect(k, TRUE)
                      [] /\ ~next.offlineMode
                         /\ previous.offlineMode \/ previous.identity # next.identity ->
                           Connect(Disconnect(k, FALSE), next, s)
                      [] OTHER -> k
      BY <2>3 DEF ApplyUpdate
    <3> HIDE DEF previous, next
    <3>3. Sound(k) /\ k.config = next
      BY <1>1, <3>1, ConfigureSound
    <3> HIDE DEF k
    <3>4. /\ Disconnect(k, TRUE).config = next
          /\ Sound(Disconnect(k, FALSE))
      BY <3>3, DisconnectFacts DEF Sound
    <3>5. Connect(Disconnect(k, FALSE), next, s).config = next
      BY ConnectConfig, <3>1, <3>4
    <3>6. client'.config = next
      BY <3>2, <3>3, <3>4, <3>5
    <3>7. QED
      BY <1>2, <3>1, <3>6
  <2>4. QED
    BY <1>7, <2>1, <2>2, <2>3
<1>8. CASE DisconnectCommand
  BY <1>1, <1>8, DisconnectFacts DEF DisconnectCommand
<1>9. CASE Dispose
  <2> DEFINE k == [client EXCEPT !.disposed = TRUE]
  <2>1. WellTyped(k) /\ HoldsLive(k) /\ k.config = client.config
    BY <1>1 DEF WellTyped, ClientFields, HoldsLive
  <2>2. client' = Disconnect(k, FALSE)
    BY <1>9 DEF Dispose
  <2> HIDE DEF k
  <2>3. client'.config = client.config
    BY <2>1, <2>2, DisconnectFacts
  <2>4. QED
    BY <2>3
<1>10. CASE FailUpdate \/ \E config \in Configs : ChangeSettings(config)
  BY <1>10 DEF FailUpdate, ChangeSettings
<1>11. QED
  BY <1>4, <1>5, <1>6, <1>7, <1>8, <1>9, <1>10 DEF Next

\* Before initialize only initialize does anything.
LEMMA UnconfiguredStep ==
  ASSUME ClientInv, [Next]_vars
  PROVE  UnconfiguredIsIdle'
<1>1. CASE UNCHANGED vars
  BY <1>1 DEF ClientInv, UnconfiguredIsIdle, vars
<1>2. CASE Next /\ client.config # None
  BY <1>2, ConfigStays DEF UnconfiguredIsIdle
<1>3. CASE Next /\ client.config = None
  <2>1. /\ updates = <<>> /\ ~client.reconnectTimer /\ client \in ClientFields
        /\ \A s \in Sockets : client.phase[s] = "unused"
    BY <1>3 DEF ClientInv, UnconfiguredIsIdle, Sound, WellTyped
  <2>2. ~client.helloTimer /\ ~client.heartbeatTimer
    BY <2>1 DEF ClientInv, Sound, HeldIsInUse, TimersMatch, ClientFields
  <2>3. PongGetsOld \/ \E s \in Sockets : Initialize(s)
    BY <1>3, <2>1, <2>2
       DEF Next, OpenEvent, HelloAckEvent, PongEvent, PeerCloses, CloseEvent, HelloTimeout,
           HeartbeatTimeout, ReconnectTimeout, ChangeSettings, ApplyUpdate, FailUpdate,
           ConnectCommand, DisconnectCommand, Dispose, Running, Live, Ended
  <2>4. CASE PongGetsOld
    BY <2>1, <2>4 DEF PongGetsOld, UnconfiguredIsIdle, ClientFields
  <2>5. ASSUME NEW s \in Sockets, Initialize(s)
        PROVE  client'.config # None
    <3> DEFINE k == [client EXCEPT !.config = settings]
    <3>1. Sound(k) /\ k.config = settings /\ settings # None /\ settings \in Configs
      BY ConfigureSound, ConfigsAreConfigs, NoneIsOther DEF ClientInv, UpdatesOK
    <3>2. client' = IF settings.offlineMode THEN k ELSE Connect(k, settings, s)
      BY <2>5 DEF Initialize
    <3> HIDE DEF k
    <3>3. QED
      BY <3>1, <3>2, ConnectConfig
  <2>6. QED
    BY <2>3, <2>4, <2>5 DEF UnconfiguredIsIdle
<1>4. QED
  BY <1>1, <1>2, <1>3

----------------------------------------------------------------------------
\* Theorems

\* The invariant holds initially and is kept by every step.
LEMMA ClientInvInductive ==
  /\ Init => ClientInv
  /\ ClientInv /\ [Next]_vars => ClientInv'
<1>1. Init => ClientInv
  BY ClientInit
<1>2. ASSUME ClientInv, [Next]_vars
      PROVE  ClientInv'
  BY <1>2, SoundStep, UpdatesStep, UnconfiguredStep DEF ClientInv
<1>3. QED
  BY <1>1, <1>2

\* The invariant of the connection, for any number of sockets, any
\* configurations and any number of updates under way.
THEOREM ClientCorrect == Spec => []ClientInv
BY ClientInvInductive, PTL DEF Spec

\* Every reachable state of the client has its type (ChatClient's fields, and
\* the configurations updateConfig holds across its await).
THEOREM ClientTypeOKHolds == Spec => []TypeOK
<1>1. ClientInv => TypeOK
  BY DEF ClientInv, UpdatesOK, Update, UnconfiguredIsIdle, Sound, WellTyped, TypeOK
<1>2. QED
  BY <1>1, ClientCorrect, PTL

\* No socket that is connecting or open is ever forgotten, and there is never
\* more than one (connect, closeSocket and the close handler).
THEOREM OneLiveSocketHolds == Spec => []OneLiveSocket
<1>1. ClientInv => OneLiveSocket
  BY DEF ClientInv, Sound, HoldsLive, OneLiveSocket
<1>2. QED
  BY <1>1, ClientCorrect, PTL

\* No timer outlives the socket it was started for, and a reconnect waits only
\* while there is none (sendHello, startHeartbeat, scheduleReconnect).
THEOREM TimersServeTheSocketHolds == Spec => []TimersServeTheSocket
<1>1. ClientInv => TimersServeTheSocket
  BY DEF ClientInv, Sound, TimersMatch, TimersServeTheSocket
<1>2. QED
  BY <1>1, ClientCorrect, PTL

\* A client that was disconnected stays without socket and timers, whatever
\* late events come (disconnect and the close handler).
THEOREM QuietWhenDisconnectedHolds == Spec => []QuietWhenDisconnected
<1>1. ClientInv => QuietWhenDisconnected
  BY DEF ClientInv, Sound, IsQuiet, QuietWhenDisconnected
<1>2. QED
  BY <1>1, ClientCorrect, PTL

----------------------------------------------------------------------------
(***************************************************************************)
(* The safety halves of the liveness properties.  HelloIsAnswered and       *)
(* SilentPeerIsDropped ask that a timer ends a socket: the timer must run.  *)
(* LossIsRetried asks that a lost socket is replaced: it must report its    *)
(* end with the configuration it was opened with, whatever happens to the   *)
(* client in between, and the reconnect this schedules must not get lost.   *)
(***************************************************************************)

\* Once the client's socket has opened its heartbeat runs until it is let go;
\* the hello timer runs until some socket's hello-ack has come, and never for a
\* socket that is acknowledged itself (sendHello, startHeartbeat, clearHeartbeat,
\* clearHelloTimer, and the late events of old sockets, which act on the timers too).
THEOREM TimersRunHolds == Spec => []TimersRun(client)
<1>1. ClientInv => TimersRun(client)
  BY DEF ClientInv, Sound
<1>2. QED
  BY <1>1, ClientCorrect, PTL

\* Sockets that have ended are neither forgotten nor opened again.
EndedStay(k, n) ==
  \A t \in Sockets : k.phase[t] \in Ended =>
    n.phase[t] \in Ended /\ n.captured[t] = k.captured[t]

LEMMA CloseEnded ==
  ASSUME NEW k, WellTyped(k), NEW s \in Sockets
  PROVE  EndedStay(k, Close(k, s)) /\ Close(k, s).reconnectTimer = k.reconnectTimer
BY DEF Close, EndedStay, WellTyped, ClientFields, Ended

LEMMA DisconnectEnded ==
  ASSUME NEW k, WellTyped(k), NEW offline \in BOOLEAN
  PROVE  EndedStay(k, Disconnect(k, offline)) /\ Disconnect(k, offline).manualDisconnect
<1> DEFINE c == ClearTimers(k)
           l == CloseSocket(c)
<1>1. /\ WellTyped(c) /\ c.phase = k.phase /\ c.captured = k.captured
      /\ c.socket \in Sockets \cup {None}
  BY DEF ClearTimers, WellTyped, ClientFields
<1>2. EndedStay(k, l) /\ l.phase \in [Sockets -> Phases] /\ DOMAIN l = DOMAIN k
  <2>1. CASE c.socket = None
    BY <1>1, <2>1 DEF CloseSocket, EndedStay, ClearTimers, WellTyped, ClientFields
  <2>2. CASE c.socket # None
    <3>1. EndedStay(c, Close(c, c.socket)) /\ WellTyped(Close(c, c.socket))
      BY <1>1, <2>2, CloseEnded, CloseFacts
    <3>2. l = [Close(c, c.socket) EXCEPT !.socket = None]
      BY <2>2 DEF CloseSocket
    <3> HIDE DEF c, l
    <3>3. QED
      BY <1>1, <3>1, <3>2 DEF EndedStay, WellTyped, ClientFields
  <2>3. QED
    BY <2>1, <2>2
<1>3. Disconnect(k, offline) =
        [l EXCEPT !.manualDisconnect = TRUE, !.reconnectTimer = FALSE,
                  !.state = IF offline THEN "offline" ELSE "disconnected"]
  BY DEF Disconnect
<1> HIDE DEF l
<1>4. QED
  BY <1>2, <1>3 DEF EndedStay, WellTyped, ClientFields

\* connect leaves a socket that is connecting, or a client that is disconnected,
\* or it changed nothing but the configuration.
LEMMA ConnectLeaves ==
  ASSUME NEW k, Sound(k), NEW config \in Configs,
         NEW s \in Sockets, k.phase[s] = "unused"
  PROVE  LET n == Connect(k, config, s)
         IN  /\ EndedStay(k, n)
             /\ \/ n.manualDisconnect
                \/ n.socket = s /\ n.phase[s] = "connecting"
                \/ k.socket # None /\ n.reconnectTimer = k.reconnectTimer
<1> DEFINE n == Connect(k, config, s)
<1>1. WellTyped(k) /\ k \in ClientFields /\ k.phase[s] \notin Ended
  BY DEF Sound, WellTyped, Ended
<1>2. CASE config.offlineMode
  <2> DEFINE d == Disconnect(k, TRUE)
  <2>1. EndedStay(k, d) /\ d.manualDisconnect /\ d \in ClientFields
    BY <1>1, DisconnectEnded, DisconnectFacts DEF Sound, WellTyped
  <2>2. n = [d EXCEPT !.config = config]
    BY <1>2 DEF Connect
  <2> HIDE DEF d, n
  <2>3. n.phase = d.phase /\ n.captured = d.captured /\ n.manualDisconnect
    BY <2>1, <2>2 DEF ClientFields
  <2>4. EndedStay(k, n)
    BY <2>1, <2>3 DEF EndedStay
  <2>5. QED
    BY <2>3, <2>4 DEF n
<1>3. CASE ~config.offlineMode /\ k.socket # None /\ InUse(k)
  <2>1. n = [k EXCEPT !.config = config]
    BY <1>3 DEF Connect
  <2>2. QED
    BY <1>1, <1>3, <2>1 DEF EndedStay, ClientFields
<1>4. CASE ~config.offlineMode /\ ~(k.socket # None /\ InUse(k))
  <2>1. CloseSocket(k) = k
    BY <1>4 DEF Sound, HeldIsInUse, CloseSocket
  <2>2. /\ n.phase = [k.phase EXCEPT ![s] = "connecting"] /\ n.socket = s
        /\ n.captured = [k.captured EXCEPT ![s] = config]
    BY <1>1, <1>4, <2>1 DEF Connect, NewSocket, ClientFields
  <2> HIDE DEF n
  <2>3. EndedStay(k, n) /\ n.phase[s] = "connecting"
    BY <1>1, <2>2 DEF EndedStay, ClientFields
  <2>4. QED
    BY <2>2, <2>3 DEF n
<1>5. QED
  BY <1>2, <1>3, <1>4

\* A reconnect is scheduled until it is done or somebody disconnects.
RetryStays(k, n) ==
  k.reconnectTimer => \/ n.reconnectTimer \/ n.manualDisconnect
                      \/ n.socket # None /\ n.phase[n.socket] = "connecting"

\* The end of a socket schedules one, if it is to.
EndIsRetried(s) ==
  (IsToBeOnline /\ client.config.autoReconnect /\ client.captured[s].autoReconnect)
    => client'.reconnectTimer

\* What a step does about sockets that have ended, and about the reconnect.
Retries ==
  /\ \A s \in Sockets :
       client.phase[s] \in Ended =>
         \/ client'.phase[s] \in Ended /\ client'.captured[s] = client.captured[s]
         \/ EndIsRetried(s)
  /\ RetryStays(client, client')

LEMMA EndedStayRetries ==
  ASSUME EndedStay(client, client'), RetryStays(client, client')
  PROVE  Retries
BY DEF Retries, EndedStay

LEMMA EventRetries ==
  ASSUME ClientInv, NEW s \in Sockets,
         OpenEvent(s) \/ HelloAckEvent(s) \/ PongEvent(s) \/ PeerCloses(s)
  PROVE  Retries
<1>1. client \in ClientFields
  BY DEF ClientInv, Sound, WellTyped
<1>2. PICK p : /\ client'.phase = [client.phase EXCEPT ![s] = p]
               /\ client.phase[s] \in Ended => p \in Ended
               /\ client'.captured = client.captured
               /\ client'.reconnectTimer = client.reconnectTimer
  <2>1. CASE OpenEvent(s)
    BY <1>1, <2>1 DEF OpenEvent, SendHello, StartHeartbeat, ClientFields, Ended
  <2>2. CASE HelloAckEvent(s)
    BY <1>1, <2>2 DEF HelloAckEvent, ClientFields, Ended
  <2>3. CASE PongEvent(s)
    <3>1. client.phase = [client.phase EXCEPT ![s] = client.phase[s]]
      BY <1>1 DEF ClientFields
    <3>2. QED
      BY <1>1, <2>3, <3>1 DEF PongEvent, ClientFields
  <2>4. CASE PeerCloses(s)
    BY <1>1, <2>4 DEF PeerCloses, ClientFields, Ended, Live
  <2>5. QED
    BY <2>1, <2>2, <2>3, <2>4
<1>3. EndedStay(client, client')
  BY <1>1, <1>2 DEF EndedStay, ClientFields
<1>4. QED
  BY <1>2, <1>3, EndedStayRetries DEF RetryStays

LEMMA TimeoutRetries ==
  ASSUME ClientInv, HelloTimeout \/ PongGetsOld \/ HeartbeatTimeout
  PROVE  Retries
<1>1. client \in ClientFields /\ WellTyped(client)
  BY DEF ClientInv, Sound, WellTyped
<1>2. client.socket # None => client.socket \in Sockets
  BY <1>1 DEF ClientFields
<1> DEFINE k == Close(client, client.socket)
<1>3. client.socket # None =>
        /\ EndedStay(client, k) /\ k.reconnectTimer = client.reconnectTimer
        /\ k \in ClientFields
  BY <1>1, <1>2, CloseEnded, CloseFacts DEF WellTyped
<1>4. \/ client.socket # None /\ (client' = k \/ client' = [k EXCEPT !.helloTimer = FALSE])
      \/ client' = [client EXCEPT !.helloTimer = FALSE]
      \/ client' = [client EXCEPT !.pongIsFresh = FALSE]
  BY DEF HelloTimeout, PongGetsOld, HeartbeatTimeout
<1> HIDE DEF k
<1>5. EndedStay(client, client') /\ client'.reconnectTimer = client.reconnectTimer
  BY <1>1, <1>3, <1>4 DEF EndedStay, ClientFields
<1>6. QED
  BY <1>5, EndedStayRetries DEF RetryStays

\* The close event of s lets go of the client's socket, which may be another one:
\* that one is closed, and its own close event is still to come.
LEMMA CloseEventRetries ==
  ASSUME ClientInv, NEW s \in Sockets, CloseEvent(s)
  PROVE  Retries
<1> DEFINE c == ClearTimers(client)
           k == CloseSocket(c)
           b == [k EXCEPT !.phase[s] = "unused", !.captured[s] = None]
<1>1. /\ WellTyped(c) /\ c \in ClientFields /\ HoldsLive(c)
      /\ c.phase = client.phase /\ c.captured = client.captured
      /\ c.reconnectTimer = client.reconnectTimer
  BY DEF ClientInv, Sound, ClearTimers, WellTyped, ClientFields, HoldsLive
<1>2. /\ EndedStay(c, k) /\ k.reconnectTimer = c.reconnectTimer
      /\ k \in ClientFields
  <2>1. CASE c.socket = None
    BY <1>1, <2>1 DEF CloseSocket, EndedStay
  <2>2. CASE c.socket # None
    <3>1. c.socket \in Sockets
      BY <1>1, <2>2 DEF ClientFields
    <3>2. /\ EndedStay(c, Close(c, c.socket)) /\ Close(c, c.socket) \in ClientFields
          /\ Close(c, c.socket).reconnectTimer = c.reconnectTimer
      BY <1>1, <3>1, CloseEnded, CloseFacts DEF WellTyped
    <3>3. k = [Close(c, c.socket) EXCEPT !.socket = None]
      BY <2>2 DEF CloseSocket
    <3> HIDE DEF c, k
    <3>4. QED
      BY <3>2, <3>3 DEF EndedStay, ClientFields
  <2>3. QED
    BY <2>1, <2>2
<1>3. /\ b.phase = [k.phase EXCEPT ![s] = "unused"]
      /\ b.captured = [k.captured EXCEPT ![s] = None]
      /\ b.reconnectTimer = client.reconnectTimer /\ DOMAIN b = DOMAIN k
  BY <1>1, <1>2 DEF ClientFields
<1> DEFINE retry == client.captured[s].autoReconnect
           auto  == client.config.autoReconnect /\ ~client.config.offlineMode
<1>4. client' = IF client.disposed \/ client.manualDisconnect
                THEN [b EXCEPT !.state = IF client.captured[s].offlineMode
                                           THEN "offline" ELSE "disconnected"]
                ELSE [b EXCEPT !.state = IF retry THEN "reconnecting" ELSE "disconnected",
                               !.reconnectTimer = @ \/ (retry /\ auto)]
  BY DEF CloseEvent
<1> HIDE DEF b, k, c
<1>5. /\ client'.phase = b.phase /\ client'.captured = b.captured
      /\ client.reconnectTimer => client'.reconnectTimer
      /\ ~client.disposed /\ ~client.manualDisconnect /\ retry /\ auto
           => client'.reconnectTimer
  BY <1>2, <1>3, <1>4 DEF ClientFields
<1>6. EndIsRetried(s)
  BY <1>5 DEF EndIsRetried, IsToBeOnline
<1>7. ASSUME NEW t \in Sockets, t # s, client.phase[t] \in Ended
      PROVE  client'.phase[t] \in Ended /\ client'.captured[t] = client.captured[t]
  BY <1>1, <1>2, <1>3, <1>5, <1>7 DEF EndedStay, ClientFields
<1>8. QED
  BY <1>5, <1>6, <1>7 DEF Retries, RetryStays

\* The calls of the service, and the reconnect timer: the one that fires is
\* replaced by the socket it opens.
LEMMA CallRetries ==
  ASSUME ClientInv, NEW s \in Sockets,
         Initialize(s) \/ ApplyUpdate(s) \/ ConnectCommand(s) \/ ReconnectTimeout(s)
  PROVE  Retries
<1>1. /\ Sound(client) /\ settings \in Configs /\ client.phase[s] = "unused"
      /\ client \in ClientFields
      /\ client.reconnectTimer => client.socket = None /\ client.config \in Configs
  BY DEF ClientInv, UpdatesOK, UnconfiguredIsIdle, Sound, WellTyped, TimersMatch, ClientFields,
         Initialize, ApplyUpdate, ConnectCommand, ReconnectTimeout, Free
\* A client that connects, from one with the same sockets.
<1>2. ASSUME NEW k, Sound(k), NEW config \in Configs, k.phase = client.phase,
             k.captured = client.captured, k.socket = client.socket,
             k.reconnectTimer = client.reconnectTimer \/ client.socket = None,
             client' = Connect(k, config, s)
      PROVE  Retries
  <2>1. /\ EndedStay(k, client')
        /\ \/ client'.manualDisconnect
           \/ client'.socket = s /\ client'.phase[s] = "connecting"
           \/ client.socket # None /\ client'.reconnectTimer = client.reconnectTimer
    BY <1>1, <1>2, ConnectLeaves
  <2>2. EndedStay(client, client') /\ RetryStays(client, client')
    BY <1>1, <1>2, <2>1, NoneIsOther DEF EndedStay, RetryStays
  <2>3. QED
    BY <2>2, EndedStayRetries
<1>3. CASE ConnectCommand(s)
  BY <1>1, <1>2, <1>3 DEF ConnectCommand
<1>4. ASSUME NEW config \in Configs
      PROVE  LET k == [client EXCEPT !.config = config]
             IN  /\ Sound(k) /\ k.phase = client.phase /\ k.captured = client.captured
                 /\ k.socket = client.socket /\ k.reconnectTimer = client.reconnectTimer
  BY <1>1, ConfigureSound DEF ClientFields
<1>5. CASE Initialize(s)
  <2> DEFINE k == [client EXCEPT !.config = settings]
  <2>1. client' = k \/ client' = Connect(k, settings, s)
    BY <1>5 DEF Initialize
  <2>2. /\ Sound(k) /\ k.phase = client.phase /\ k.captured = client.captured
        /\ k.socket = client.socket /\ k.reconnectTimer = client.reconnectTimer
    BY <1>1, <1>4
  <2> HIDE DEF k
  <2>3. CASE client' = k
    BY <2>2, <2>3, EndedStayRetries DEF EndedStay, RetryStays
  <2>4. QED
    BY <1>1, <1>2, <2>1, <2>2, <2>3
<1>6. CASE ReconnectTimeout(s)
  <2> DEFINE k == [client EXCEPT !.reconnectTimer = FALSE]
  <2>1. Sound(k)
    BY <1>1 DEF Sound, WellTyped, ClientFields, HoldsLive, TimersMatch, TimersRun, HeldIsInUse,
                InUse, IsQuiet
  <2>2. k.phase = client.phase /\ k.captured = client.captured /\ k.socket = client.socket
    BY <1>1 DEF ClientFields
  <2>3. client.reconnectTimer /\ client' = Connect(k, client.config, s)
    BY <1>6 DEF ReconnectTimeout
  <2> HIDE DEF k
  <2>4. QED
    BY <1>1, <1>2, <2>1, <2>2, <2>3
<1>7. CASE ApplyUpdate(s)
  <2> DEFINE previous == Head(updates).previous
             next     == Head(updates).next
             k        == [client EXCEPT !.config = next]
             d        == Disconnect(k, FALSE)
  <2>1. next \in Configs
    <3>1. Head(updates) \in Update
      BY <1>7 DEF ApplyUpdate, ClientInv, UpdatesOK
    <3>2. QED
      BY <3>1 DEF Update
  <2>2. \/ client' = Disconnect(k, TRUE)
        \/ client' = Connect(d, next, s) /\ ~next.offlineMode
        \/ client' = k
    BY <1>7 DEF ApplyUpdate
  <2> HIDE DEF previous, next
  <2>3. /\ Sound(k) /\ k.phase = client.phase /\ k.captured = client.captured
        /\ k.reconnectTimer = client.reconnectTimer
    BY <1>4, <2>1
  <2> HIDE DEF k
  <2>4. \A off \in BOOLEAN : /\ EndedStay(k, Disconnect(k, off))
                             /\ Disconnect(k, off).manualDisconnect
    BY <2>3, DisconnectEnded DEF Sound
  <2>5. /\ Sound(d) /\ d.phase[s] = "unused" /\ d.socket = None
    BY <1>1, <2>3, <2>4, DisconnectFacts DEF Sound, IsQuiet
  <2> HIDE DEF d
  <2>6. /\ EndedStay(d, Connect(d, next, s))
        /\ \/ Connect(d, next, s).manualDisconnect
           \/ Connect(d, next, s).socket = s /\ Connect(d, next, s).phase[s] = "connecting"
    BY <2>1, <2>5, ConnectLeaves
  <2>7. EndedStay(k, client')
    <3>1. EndedStay(k, d)
      BY <2>4 DEF d
    <3>2. QED
      BY <2>2, <2>4, <2>6, <3>1 DEF EndedStay
  <2>8. EndedStay(client, client')
    BY <2>3, <2>7 DEF EndedStay
  <2>9. RetryStays(client, client')
    BY <2>2, <2>3, <2>4, <2>6, NoneIsOther DEF RetryStays
  <2>10. QED
    BY <2>8, <2>9, EndedStayRetries
<1>8. QED
  BY <1>3, <1>5, <1>6, <1>7

LEMMA StopRetries ==
  ASSUME ClientInv, DisconnectCommand \/ Dispose
  PROVE  Retries
<1> DEFINE k == [client EXCEPT !.disposed = TRUE]
<1>1. WellTyped(client) /\ WellTyped(k) /\ k.phase = client.phase /\ k.captured = client.captured
  BY DEF ClientInv, Sound, WellTyped, ClientFields
<1>2. client' = Disconnect(client, FALSE) \/ client' = Disconnect(k, FALSE)
  BY DEF DisconnectCommand, Dispose
<1> HIDE DEF k
<1>3. /\ EndedStay(client, client') \/ EndedStay(k, client')
      /\ client'.manualDisconnect
  BY <1>1, <1>2, DisconnectEnded
<1>4. EndedStay(client, client')
  BY <1>1, <1>3 DEF EndedStay
<1>5. QED
  BY <1>3, <1>4, EndedStayRetries DEF RetryStays

\* A socket that has ended keeps its place, and the configuration its close handler
\* decides by, until it reports its end; that schedules a reconnect if the
\* client is still to be online and both configurations want one; and a reconnect
\* that is scheduled stays so until it opens a socket or somebody disconnects
\* (the close handler, scheduleReconnect, connect, disconnect, updateConfig).
\* What LossIsRetried adds is that the close event comes and the timer fires.
RetriesAreKept == [][Retries]_vars

THEOREM RetriesAreKeptHolds == Spec => RetriesAreKept
<1>1. ClientInv /\ [Next]_vars => [Retries]_vars
  <2> SUFFICES ASSUME ClientInv, Next
               PROVE  Retries
    OBVIOUS
  <2>1. CASE FailUpdate \/ \E config \in Configs : ChangeSettings(config)
    <3>1. UNCHANGED client
      BY <2>1 DEF FailUpdate, ChangeSettings
    <3>2. QED
      BY <3>1, EndedStayRetries DEF EndedStay, RetryStays
  <2>2. QED
    BY <2>1, EventRetries, TimeoutRetries, CloseEventRetries, CallRetries, StopRetries DEF Next
<1>2. QED
  BY <1>1, ClientCorrect, PTL DEF Spec, RetriesAreKept

=============================================================================
