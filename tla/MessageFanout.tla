---------------------------- MODULE MessageFanout ----------------------------
(***************************************************************************)
(* What a server that fans messages out promises of each message: whom it   *)
(* is for is settled once, when it is posted; each of them is served once,  *)
(* through one queue of that user or not at all; and nobody else is served. *)
(* Nothing is promised of the order, and a restart forgets what is owed.    *)
(***************************************************************************)
CONSTANTS Users, Queues, Groups, Messages, None

VARIABLES
  sent,    \* the messages ever posted
  owed,    \* the users a message is still to be served to
  reader,  \* whose queue it is
  held,    \* the messages that were put on a queue
  members  \* of each group

vars == <<sent, owed, reader, held, members>>

Init ==
  /\ sent = {} /\ owed = [m \in Messages |-> {}]
  /\ reader = [q \in Queues |-> None] /\ held = [q \in Queues |-> {}]
  /\ members = [g \in Groups |-> {}]

\* For one user, for a group as it is now, or lost at once.
Post(m) ==
  /\ m \notin sent /\ sent' = sent \cup {m}
  /\ \/ \E u \in Users : owed' = [owed EXCEPT ![m] = {u}]
     \/ \E g \in Groups : owed' = [owed EXCEPT ![m] = members[g]]
     \/ owed' = owed
  /\ UNCHANGED <<reader, held, members>>

Serve(m, u) ==
  /\ u \in owed[m] /\ owed' = [owed EXCEPT ![m] = @ \ {u}]
  /\ \/ held' = held
     \/ \E q \in Queues : /\ reader[q] = u /\ m \notin held[q]
                          /\ held' = [held EXCEPT ![q] = @ \cup {m}]
  /\ UNCHANGED <<sent, reader, members>>

Open(q, u) ==
  /\ reader[q] = None /\ held[q] = {}
  /\ reader' = [reader EXCEPT ![q] = u]
  /\ UNCHANGED <<sent, owed, held, members>>

Close(q) ==
  /\ reader' = [reader EXCEPT ![q] = None] /\ held' = [held EXCEPT ![q] = {}]
  /\ UNCHANGED <<sent, owed, members>>

Regroup ==
  /\ members' \in [Groups -> SUBSET Users]
  /\ UNCHANGED <<sent, owed, reader, held>>

Restart ==
  /\ owed' = [m \in Messages |-> {}]
  /\ reader' = [q \in Queues |-> None] /\ held' = [q \in Queues |-> {}]
  /\ members' = [g \in Groups |-> {}]
  /\ UNCHANGED sent

Next ==
  \/ Regroup \/ Restart
  \/ \E m \in Messages : Post(m) \/ \E u \in Users : Serve(m, u)
  \/ \E q \in Queues : Close(q) \/ \E u \in Users : Open(q, u)

Spec == Init /\ [][Next]_vars

\* A message on a queue was posted, and its reader is not served it again.
HeldIsServed ==
  \A q \in Queues : \A m \in held[q] : m \in sent /\ reader[q] \notin owed[m]
=============================================================================
