---------------------------- MODULE MCChatService ----------------------------
(***************************************************************************)
(* Small instances of ChatService for TLC.                                  *)
(***************************************************************************)
EXTENDS ChatService, TLC

CONSTANTS u1, g1, v1, m1, m2

OneUser     == {u1}
OneGroup    == {g1}
OneVersion  == {v1}
OneMessage  == {m1}
TwoMessages == {m1, m2}
OneLimit    == {1}
OneOrTwo    == {1, 2}

\* The server names no group: only group messages and deletions are about one.
NoVersion   == {}

\* Messages are interchangeable; used where only safety is checked.
MessageSymmetry == Permutations(MessageIds)

\* No property of service_groups mentions the users, and only UserOffline reads
\* them.  Of a count the actions ask whether there is one.  While the cache is
\* stale nothing asks what was told.
GroupsAndMessages ==
  <<messages, [c \in Convs |-> conversations[c] # None], groups, active, settings, queue,
    [seen EXCEPT !.told = IF seen.stale THEN [g \in Groups |-> None] ELSE @]>>
=============================================================================
