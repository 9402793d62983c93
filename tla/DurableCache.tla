---------------------------- MODULE DurableCache ----------------------------
(***************************************************************************)
(* What a cache promises that keeps its value in memory and in a file.  A   *)
(* state of the value is named by a number that grows with every change, so *)
(* the promise is about numbers: the file goes forward, never ahead of      *)
(* memory, and a write that was acknowledged survives a restart.            *)
(***************************************************************************)
EXTENDS Naturals

VARIABLES
  memory, \* the state in memory
  file,   \* the state in the file
  acked   \* the latest state whose write was acknowledged

vars == <<memory, file, acked>>

Init == memory = 0 /\ file = 0 /\ acked = 0

Change ==
  /\ memory' \in Nat /\ memory' > memory
  /\ UNCHANGED <<file, acked>>

Write ==
  /\ file' \in file .. memory
  /\ acked' \in acked .. file'
  /\ UNCHANGED memory

\* The process ends or starts: what the file lacks is lost.
Restart == memory' = file /\ UNCHANGED <<file, acked>>

\* The file cannot be read: the cache starts over.
Lose == memory' = 0 /\ file' = 0 /\ acked' = 0

Next == Change \/ Write \/ Restart \/ Lose

Spec == Init /\ [][Next]_vars

\* What was acknowledged is in the file, and the file is not ahead of memory.
AckedIsDurable == acked <= file /\ file <= memory
=============================================================================
