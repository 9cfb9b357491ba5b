---------------------------- MODULE AtomicSemaphore ----------------------------
(***************************************************************************)
(* What a binary semaphore promises: wait returns when the value is up and *)
(* takes it down in the same instant, a post puts it up, and posts while   *)
(* it is up are lost.  When the value is up and threads wait, one of them  *)
(* returns.                                                                *)
(***************************************************************************)
CONSTANTS Waiters   \* the threads that wait

VARIABLES
  value,
  waiting           \* the threads that have called wait and not got the value

vars == <<value, waiting>>

Init == value \in BOOLEAN /\ waiting = {}

CallWait(t) ==
  /\ t \notin waiting
  /\ waiting' = waiting \cup {t}
  /\ UNCHANGED value

Take(t) ==
  /\ t \in waiting
  /\ value
  /\ value' = FALSE
  /\ waiting' = waiting \ {t}

Post == value' = TRUE /\ UNCHANGED waiting

Next == Post \/ \E t \in Waiters : CallWait(t) \/ Take(t)

Spec == Init /\ [][Next]_vars /\ WF_vars(\E t \in Waiters : Take(t))
================================================================================
