---------------------------- MODULE MCChatClient ----------------------------
(***************************************************************************)
(* Small instances of ChatClient for TLC.                                   *)
(***************************************************************************)
EXTENDS ChatClient

CONSTANTS s1, s2, me, other

TwoSockets    == {s1, s2}
OneIdentity   == {me}
TwoIdentities == {me, other}

AnyConfig == Config
\* Online with and without autoReconnect, under another identity, or offline.
FourConfigs ==
  {[offlineMode |-> FALSE, autoReconnect |-> auto, identity |-> me] : auto \in BOOLEAN}
  \cup {[offlineMode |-> FALSE, autoReconnect |-> TRUE, identity |-> other],
        [offlineMode |-> TRUE, autoReconnect |-> TRUE, identity |-> me]}
\* Only offlineMode is changed, and autoReconnect is off.
OfflineToggle == {c \in Config : ~c.autoReconnect}

\* No action reads lost, nor the identity a socket was opened with.
WithoutHistory ==
  <<settings, updates,
    [client EXCEPT !.captured = [s \in Sockets |->
       client.captured[s] # None /\ client.captured[s].autoReconnect]]>>
=============================================================================
