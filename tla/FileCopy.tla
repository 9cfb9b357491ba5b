------------------------------- MODULE FileCopy --------------------------------
(***************************************************************************)
(* What the command line tool promises: the blocks of the result reach the *)
(* output file one at a time, whole and in order, and the tool does not    *)
(* believe it is finished before the last one has.                         *)
(***************************************************************************)
EXTENDS Sequences, SequencesExt

VARIABLES
  blocks,     \* the blocks of the result
  dstFile,    \* what was written to the output file
  finished    \* whether the tool believes that all of it was written

vars == <<blocks, dstFile, finished>>

Init == dstFile = <<>> /\ finished = FALSE

UpTo(k) == FlattenSeq(SubSeq(blocks, 1, k))

Write(k) ==
  /\ dstFile = UpTo(k - 1)
  /\ dstFile' = dstFile \o blocks[k]
  /\ UNCHANGED <<blocks, finished>>

Finish ==
  /\ dstFile = UpTo(Len(blocks))
  /\ finished' = TRUE
  /\ UNCHANGED <<blocks, dstFile>>

Next == Finish \/ \E k \in DOMAIN blocks : Write(k)

Spec == Init /\ [][Next]_vars
================================================================================
