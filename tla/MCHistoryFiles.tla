--------------------------- MODULE MCHistoryFiles ---------------------------
(***************************************************************************)
(* A small instance of HistoryFiles for TLC.                                *)
(***************************************************************************)
EXTENDS HistoryFiles

CONSTANTS m1, m2, c1

TwoMessages == {m1, m2}
OneConv     == {c1}
SameConv    == [m \in TwoMessages |-> c1]
FirstOnly   == {m1}
OneOrTwo    == {1, 2}

\* What a run about the files tells apart.  No action reads gone, and only what it
\* says of migrated messages that were not lost matters to a property.
GoneIfMigrated ==
  <<mode, limit, memory, queue, writing, files, legacy, acked, cleared, unsaved,
    unwritten, lost, IF lost \/ legacy = "absent" THEN {} ELSE gone \cap Legacy>>
=============================================================================
