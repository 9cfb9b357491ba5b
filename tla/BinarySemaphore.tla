---------------------------- MODULE BinarySemaphore ----------------------------
(***************************************************************************)
(* class BinarySemaphore (fsst.cpp): a boolean under a mutex and a         *)
(* condition variable, one step of it at a time.  wait loops around        *)
(* cv.wait, which releases the mutex and falls asleep in one step, wakes   *)
(* up when notified or for no reason, and then takes the mutex again.      *)
(* post notifies after it has released the mutex.                          *)
(***************************************************************************)
EXTENDS Integers

CONSTANTS
  Waiters, Posters,   \* the threads that wait and that post
  NoThread,           \* no thread
  MaxPosts            \* how often each poster posts

Threads == Waiters \cup Posters

ASSUME SemaphoreAssumption ==
  /\ Waiters \cap Posters = {}
  /\ NoThread \notin Threads
  /\ MaxPosts \in Nat

VARIABLES
  value,
  m,        \* the thread that holds the mutex, or NoThread
  asleep,   \* the threads inside cv.wait that nothing has woken
  pc,
  posts     \* how many posts each poster has left (the bound)

semaphore == <<value, m, asleep, pc, posts>>

SemaphoreInit ==
  /\ value \in BOOLEAN
  /\ m = NoThread
  /\ asleep = {}
  /\ pc = [t \in Threads |-> "idle"]
  /\ posts = [t \in Posters |-> MaxPosts]

Go(t, from, to) == pc[t] = from /\ pc' = [pc EXCEPT ![t] = to]

(* Whether the mutex may be taken; mutant: always.                         *)
Free_always == TRUE
Free        == m = NoThread

Lock(t, from, to) ==
  /\ Go(t, from, to)
  /\ Free
  /\ m' = t

Unlock(t, from, to) ==
  /\ Go(t, from, to)
  /\ m' = NoThread

(* wait                                                                    *)
CallWait(t) == Go(t, "idle", "lock") /\ UNCHANGED <<value, m, asleep, posts>>
WaitLock(t) == Lock(t, "lock", "test") /\ UNCHANGED <<value, asleep, posts>>

(* The condition of the loop; mutant: value is tested before the lock is   *)
(* taken, and not again.                                                   *)
Passes_once(t) == TRUE
Passes(t)      == value

WaitTake(t) ==
  /\ Passes(t)
  /\ Go(t, "test", "unlock")
  /\ value' = FALSE
  /\ UNCHANGED <<m, asleep, posts>>

WaitSleep(t) ==
  /\ ~ Passes(t)
  /\ Unlock(t, "test", "sleep")
  /\ asleep' = asleep \cup {t}
  /\ UNCHANGED <<value, posts>>

(* cv.wait returns without a notification.                                 *)
WaitSpurious(t) ==
  /\ t \in asleep
  /\ asleep' = asleep \ {t}
  /\ UNCHANGED <<value, m, pc, posts>>

WaitRelock(t) ==
  /\ t \notin asleep
  /\ Lock(t, "sleep", "test")
  /\ UNCHANGED <<value, asleep, posts>>

WaitUnlock(t) == Unlock(t, "unlock", "idle") /\ UNCHANGED <<value, asleep, posts>>

(* post                                                                    *)
CallPost(t) ==
  /\ posts[t] > 0
  /\ posts' = [posts EXCEPT ![t] = @ - 1]
  /\ Go(t, "idle", "lock")
  /\ UNCHANGED <<value, m, asleep>>

PostLock(t) == Lock(t, "lock", "set") /\ UNCHANGED <<value, asleep, posts>>

PostSet(t) ==
  /\ Go(t, "set", "unlock")
  /\ value' = TRUE
  /\ UNCHANGED <<m, asleep, posts>>

PostUnlock(t) == Unlock(t, "unlock", "notify") /\ UNCHANGED <<value, asleep, posts>>

(* notify_one wakes a sleeper, if there is one.                            *)
Woken == IF asleep = {} THEN {{}} ELSE {asleep \ {s} : s \in asleep}

(* Mutant of PostNotify: nobody is notified.                               *)
PostNotify_silent(t) ==
  Go(t, "notify", "idle") /\ UNCHANGED <<value, m, asleep, posts>>

PostNotify(t) ==
  /\ Go(t, "notify", "idle")
  /\ asleep' \in Woken
  /\ UNCHANGED <<value, m, posts>>

WaitStep(t) ==
  \/ WaitLock(t) \/ WaitTake(t) \/ WaitSleep(t) \/ WaitRelock(t) \/ WaitUnlock(t)

PostStep(t) == PostLock(t) \/ PostSet(t) \/ PostUnlock(t) \/ PostNotify(t)

SemaphoreNext ==
  \/ \E t \in Waiters : CallWait(t) \/ WaitStep(t) \/ WaitSpurious(t)
  \/ \E t \in Posters : CallPost(t) \/ PostStep(t)

(* A thread inside wait or post that can run does run.  Nothing makes      *)
(* threads call wait or post, and nothing wakes a sleeper spuriously.      *)
SemaphoreFairness ==
  /\ \A t \in Waiters : WF_semaphore(WaitStep(t))
  /\ \A t \in Posters : WF_semaphore(PostStep(t))

SemaphoreSpec == SemaphoreInit /\ [][SemaphoreNext]_semaphore /\ SemaphoreFairness

--------------------------------------------------------------------------------
TypeOK ==
  /\ value \in BOOLEAN
  /\ m \in Threads \cup {NoThread}
  /\ \A t \in Threads : pc[t] \in {"test", "set", "unlock"} <=> m = t
  /\ asleep \subseteq Waiters
  /\ pc \in [Threads -> {"idle", "lock", "test", "sleep", "set", "unlock", "notify"}]
  /\ posts \in [Posters -> 0 .. MaxPosts]

Waiting == {t \in Waiters : pc[t] \in {"lock", "test", "sleep"}}

(* A waiter that sleeps although the value is up is about to be woken: a   *)
(* poster has yet to notify, or another waiter is on its way to the test.  *)
(* Notifying after the mutex was released loses no wakeup.                 *)
NoLostWakeup ==
  value /\ asleep # {} =>
    \/ \E t \in Posters : pc[t] \in {"unlock", "notify"}
    \/ \E t \in Waiting : t \notin asleep

(* The class implements the semaphore the pipeline is modelled with.       *)
Atomic == INSTANCE AtomicSemaphore WITH waiting <- Waiting

ImplementsAtomic == Atomic!Spec
================================================================================
