------------------------------ MODULE FsstCreate -------------------------------
(***************************************************************************)
(* fsst_create (libfsst.cpp): a sample of the strings is taken, and the    *)
(* symbol table of the new encoder is built from it.                       *)
(***************************************************************************)
EXTENDS BuildSymbolTable

Init ==
  /\ SampleInit
  /\ zeroTerminated \in BOOLEAN
  /\ round = 1
  /\ st = EmptyTable(0, FALSE)
  /\ counters = [count1 |-> EmptyBag, count2 |-> EmptyBag]
  /\ bestTable = st
  /\ bestGain = - SampleMaxSize          \* worst case, everything an escape
  /\ bestCounters = EmptyBag
  /\ queue = {}
  /\ trial = <<>>
  /\ built = st

MakeSample ==
  /\ Draw
  /\ UNCHANGED <<zeroTerminated, round, st, counters, best, queue, trial, built>>

BuildTable == Build

Return == pc = "done" /\ UNCHANGED vars

Next == MakeSample \/ BuildTable \/ Return

Spec == Init /\ [][Next]_vars
================================================================================
