----------------------------- MODULE MessageLife -----------------------------
(***************************************************************************)
(* What an extension promises of the messages it receives: each goes        *)
(* forward, from waiting to be stored over delivered and read to gone, and  *)
(* comes back from nowhere; and its sender hears of it only once it is read.*)
(***************************************************************************)
CONSTANT Messages

VARIABLES
  phase,    \* how far a message is
  receipts  \* the messages whose senders were sent a receipt

vars == <<phase, receipts>>

After ==
  [unknown   |-> {"unknown", "waiting"},
   waiting   |-> {"waiting", "delivered", "read", "gone"},
   delivered |-> {"delivered", "read", "gone"},
   read      |-> {"read", "gone"},
   gone      |-> {"gone"}]

Init == phase = [m \in Messages |-> "unknown"] /\ receipts = {}

\* Any number of messages go forward at once: a conversation is opened, the
\* history cleared, or the oldest messages dropped.
GoForward ==
  /\ phase' \in [Messages -> DOMAIN After]
  /\ \A m \in Messages : phase'[m] \in After[phase[m]]
  /\ receipts' \in SUBSET Messages /\ receipts \subseteq receipts'
  /\ \A m \in receipts' \ receipts : phase'[m] \in {"read", "gone"}

Spec == Init /\ [][GoForward]_vars

\* No sender is told of a message that is still to be read.
ReceiptsAreForRead == \A m \in receipts : phase[m] \in {"read", "gone"}
=============================================================================
