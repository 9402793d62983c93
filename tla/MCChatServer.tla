---------------------------- MODULE MCChatServer ----------------------------
(***************************************************************************)
(* Small instances of ChatServer for TLC.  Empty GroupIds or MessageIds     *)
(* leave the group requests or the messages out of an instance.             *)
(***************************************************************************)
EXTENDS ChatServer, TLC

CONSTANTS u1, u2, c1, c2, g1, m1, n1, n2

TwoUsers   == {u1, u2}
TwoConns   == {c1, c2}
OneGroup   == {g1}
OneMessage == {m1}
OneName    == {n1}
TwoNames   == {n1, n2}
NoIds      == {}

\* The member list of a group request: the second user.
OnlyOther  == {{u2}}

\* Connections are interchangeable; used where only safety is checked.
ConnSymmetry == Permutations(Conns)

\* What a run about messages and handlers tells apart.  No action reads told,
\* and only the queues' presence and groups depend on users and on what a packet
\* says of a user or a group.
MessagesOnly ==
  <<clients, store, sockets, pc, rcpt,
    [c \in Conns |-> IF packet[c] # None /\ packet[c].type \in {"presence", "group"}
                      THEN packet[c].type ELSE packet[c]],
    [c \in Conns |-> <<told[c].acked, told[c].previews, told[c].chats>>]>>
=============================================================================
