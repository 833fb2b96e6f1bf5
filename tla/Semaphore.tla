------------------------------ MODULE Semaphore ------------------------------
(* The semaphores of os-linux.h, os-mac.h and os-windows.h: the one built   *)
(* from a mutex and a condition variable (Semaphore_CV, and Semaphore on    *)
(* Windows without WINDOWS_SEMAPHORE), the POSIX one (Linux), and those of  *)
(* libdispatch (Mac) and Windows. The condition variable is that of C++:    *)
(* wake-ups may be spurious, and who gets the mutex next is open.           *)
EXTENDS Integers, FiniteSets

CONSTANTS
  Threads, NoThread,
  Kinds,          \* "cv", "posix", "dispatch" or "windows"
  Initials,       \* initialValue
  Programs,       \* sets of the msTimeout that a program passes
  INFINITE,
  NsPerSec,       \* in the unit of msTimeout; tv_nsec is valid below this
  MAXSEMAPHOREVALUE

VARIABLES
  kind, waits,
  value,
  m,              \* owner of the mutex of "cv"
  pc,
  msTimeout, ts,  \* per thread its timeout and, for "posix", its tv_nsec
  res             \* per thread what the last wait returned

vars == <<kind, waits, value, m, pc, msTimeout, ts, res>>
unchanged == <<kind, waits, msTimeout, ts>>

Init ==
  /\ kind \in Kinds /\ waits \in Programs /\ value \in Initials /\ m = NoThread
  /\ pc = [t \in Threads |-> "ready"]
  /\ msTimeout = [t \in Threads |-> INFINITE] /\ ts = [t \in Threads |-> 0]
  /\ res = [t \in Threads |-> "none"]

Goes(t, where) == pc' = [pc EXCEPT ![t] = where]
Returns(t, r) == res' = [res EXCEPT ![t] = r] /\ Goes(t, "ready")

(* wait: for "posix" clock_gettime has read some nanosecond of the second,  *)
(* and the timeout is added to it.                                          *)
Deadline(now, ms) == now + ms
CallWait(t) ==
  /\ pc[t] = "ready" /\ res' = [res EXCEPT ![t] = "none"]
  /\ Goes(t, IF kind = "cv" THEN "lock" ELSE "wait")
  /\ \E ms \in waits, now \in 0 .. NsPerSec - 1 :
       /\ msTimeout' = [msTimeout EXCEPT ![t] = ms]
       /\ ts' = [ts EXCEPT ![t] = IF kind = "posix" /\ ms # INFINITE THEN Deadline(now, ms) ELSE 0]
  /\ UNCHANGED <<kind, waits, value, m>>

(* sem_post, dispatch_semaphore_signal; ReleaseSemaphore fails an assert at *)
(* the largest value, which also bounds the others here.                    *)
CallSignal(t) ==
  /\ pc[t] = "ready" /\ value < MAXSEMAPHOREVALUE
  /\ \/ kind # "cv" /\ value' = value + 1 /\ UNCHANGED pc
     \/ kind = "cv" /\ Goes(t, "lock to signal") /\ UNCHANGED value
  /\ UNCHANGED <<unchanged, m, res>>

(* Semaphore_CV::wait.                                                      *)
Lock(t) ==
  /\ pc[t] \in {"lock", "lock to signal"} /\ m = NoThread
  /\ m' = t /\ Goes(t, IF pc[t] = "lock" THEN "test" ELSE "increment")
  /\ UNCHANGED <<unchanged, value, res>>
Test(t) ==
  /\ pc[t] = "test" /\ m' = NoThread
  /\ \/ value = 0 /\ Goes(t, "asleep") /\ UNCHANGED <<value, res>>
     \/ value # 0 /\ value' = value - 1 /\ Returns(t, "signaled")
  /\ UNCHANGED unchanged
Spurious(t) ==
  /\ pc[t] = "asleep" /\ Goes(t, "woken") /\ UNCHANGED <<unchanged, value, m, res>>
(* wait_for gets the mutex back and then looks at the clock: a thread that  *)
(* was notified may report a timeout all the same.                          *)
Timeout(t) ==
  /\ pc[t] \in {"asleep", "woken"} /\ msTimeout[t] # INFINITE
  /\ m = NoThread /\ Returns(t, "timeout")
  /\ UNCHANGED <<unchanged, value, m>>
Relock(t) ==
  /\ pc[t] = "woken" /\ m = NoThread /\ m' = t /\ Goes(t, "test")
  /\ UNCHANGED <<unchanged, value, res>>

(* Semaphore_CV::signal.                                                    *)
Increment(t) ==
  /\ pc[t] = "increment" /\ value' = value + 1 /\ Goes(t, "notify")
  /\ UNCHANGED <<unchanged, m, res>>
Asleep == {t \in Threads : pc[t] = "asleep"}
NotifiesIfFirst(t) == value = 1
Notifies(t) == TRUE
Notify(t) ==
  /\ pc[t] = "notify" /\ m' = NoThread
  /\ \/ /\ Asleep # {} /\ Notifies(t)
        /\ \E u \in Asleep : pc' = [pc EXCEPT ![t] = "ready", ![u] = "woken"]
     \/ (Asleep = {} \/ ~Notifies(t)) /\ Goes(t, "ready")
  /\ UNCHANGED <<unchanged, value, res>>

(* The semaphores of the systems. An interrupted sem_wait is called again,  *)
(* and so is a sem_timedwait that fails with anything but ETIMEDOUT: EINTR, *)
(* or EINVAL, for a tv_nsec of a second or more when it would have to wait, *)
(* over and over.                                                           *)
Takes(t) ==
  /\ pc[t] = "wait" /\ value > 0
  /\ value' = value - 1 /\ Returns(t, "signaled") /\ UNCHANGED <<unchanged, m>>
TimesOut(t) ==
  /\ pc[t] = "wait" /\ value = 0 /\ msTimeout[t] # INFINITE
  /\ Returns(t, "timeout") /\ UNCHANGED <<unchanged, value, m>>
SemWait(t) == kind = "posix" /\ Takes(t)
SemTimedwait(t) == kind = "posix" /\ ts[t] < NsPerSec /\ TimesOut(t)
DispatchWait(t) == kind = "dispatch" /\ (Takes(t) \/ TimesOut(t))
WaitForSingleObject(t) == kind = "windows" /\ (Takes(t) \/ TimesOut(t))

Waiting(t) == pc[t] \in {"lock", "test", "asleep", "woken", "wait"}

\* Nobody is left to signal.
AllWait ==
  /\ \A t \in Threads : pc[t] \in {"asleep", "wait"}
  /\ UNCHANGED vars

WaitStep(t) ==
  \/ Lock(t) \/ Test(t) \/ Timeout(t) \/ Relock(t) \/ Increment(t) \/ Notify(t)
  \/ SemWait(t) \/ SemTimedwait(t) \/ DispatchWait(t) \/ WaitForSingleObject(t)
Next == AllWait \/ \E t \in Threads : CallWait(t) \/ CallSignal(t) \/ WaitStep(t) \/ Spurious(t)
Spec == Init /\ [][Next]_vars
FairSpec == Spec /\ \A t \in Threads : WF_vars(WaitStep(t))
------------------------------------------------------------------------------
\* Threads that take what was signalled, or wake up somebody who does.
Awake == {t \in Threads : pc[t] \in {"woken", "test", "notify"}}

Types ==
  /\ value \in Nat /\ kind \in Kinds
  /\ pc \in [Threads -> {"ready", "lock", "lock to signal", "test", "asleep", "woken",
                         "increment", "notify", "wait"}]
  /\ msTimeout \in [Threads -> waits \cup {INFINITE}]

(* While threads sleep in wait, the value is at most the number of those    *)
(* that are awake to take it: no signal is given to a thread that is gone,  *)
(* or to nobody. Of waits without timeout, the only ones BoundedQueue has;  *)
(* a timed one may use up the notification that another one needs.          *)
SleepersWoken ==
  kind = "cv" /\ waits = {INFINITE} /\ Asleep # {} =>
    value <= Cardinality(Awake)

(* "returns true if timeout expired, false if semaphore has been signaled": *)
(* a wait with a timeout returns.                                           *)
TimedWaitReturns ==
  \A t \in Threads : Waiting(t) /\ msTimeout[t] # INFINITE ~> ~Waiting(t)
==============================================================================
