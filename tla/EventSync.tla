------------------------------ MODULE EventSync ------------------------------
(* The events of os-linux.h and os-mac.h (EventSyncCV) and of os-windows.h  *)
(* (EventSyncZero to EventSyncFour). Zero, ZeroAlt and Two are events of    *)
(* the system that stay set until they are reset; One is an SRW lock that   *)
(* set releases, Three a semaphore, and each lets one wait pass for a set;  *)
(* CV and Four are a flag, a mutex and a condition variable.                *)
EXTENDS Integers

CONSTANTS
  Threads, NoThread,
  Kinds,         \* "zero", "zeroalt", "one", "two", "three", "four", "cv"
  SemaphoreMax   \* the maximum of the semaphore of "three"

VARIABLES
  kind,
  flag,          \* the state of the event, the count of "three"
  cs,            \* owner of the mutex of "cv" and "four"
  pc,
  timed,         \* per thread whether its wait has a timeout
  res            \* per thread what its last wait returned

vars == <<kind, flag, cs, pc, timed, res>>

Init ==
  /\ kind \in Kinds /\ flag = 0 /\ cs = NoThread
  /\ pc = [t \in Threads |-> "ready"] /\ timed = [t \in Threads |-> FALSE]
  /\ res = [t \in Threads |-> 0]

Goes(t, where) == pc' = [pc EXCEPT ![t] = where]
Returns(t, r) == res' = [res EXCEPT ![t] = r] /\ Goes(t, "ready")
Resettable == {"zero", "zeroalt", "two"}
OneEach == {"one", "three"}
Flags == {"cv", "four"}

CallWait(t) ==
  /\ pc[t] = "ready" /\ Goes(t, IF kind \in Flags THEN "lock" ELSE "waiting")
  /\ \E w \in BOOLEAN :
       /\ w => kind \in Resettable
       /\ timed' = [timed EXCEPT ![t] = w]
  /\ UNCHANGED <<kind, flag, cs, res>>

(* set. The lock of "one" may be released only while it is held; the count  *)
(* of "three" fails an assert at its maximum.                               *)
set(t) ==
  /\ pc[t] = "ready"
  /\ kind = "one" => flag = 0
  /\ kind = "three" => flag < SemaphoreMax
  /\ flag' = IF kind = "three" THEN flag + 1 ELSE 1
  /\ Goes(t, IF kind \in Flags THEN "signal" ELSE "ready")
  /\ UNCHANGED <<kind, cs, timed, res>>
reset(t) ==
  /\ pc[t] = "ready" /\ kind \in Resettable
  /\ flag' = 0 /\ UNCHANGED <<kind, cs, pc, timed, res>>

(* wait for an event that stays set, with or without a timeout.             *)
WaitEvent(t) ==
  /\ pc[t] = "waiting" /\ kind \in Resettable /\ flag = 1
  /\ Returns(t, 0) /\ UNCHANGED <<kind, flag, cs, timed>>
(* The ZeroAlt without timeout waits with a long one again and again.       *)
GivesUpAny(t) == timed[t] \/ kind = "zeroalt"
GivesUp(t) == timed[t]
Timeout(t) ==
  /\ pc[t] = "waiting" /\ kind \in Resettable /\ flag = 0 /\ GivesUp(t)
  /\ Returns(t, 1) /\ UNCHANGED <<kind, flag, cs, timed>>

(* One acquires the lock that set released, Three takes from the semaphore. *)
AcquireExclusive(t) ==
  /\ pc[t] = "waiting" /\ kind = "one" /\ flag = 1
  /\ flag' = 0 /\ Returns(t, 0) /\ UNCHANGED <<kind, cs, timed>>
WaitSemaphore(t) ==
  /\ pc[t] = "waiting" /\ kind = "three" /\ flag > 0
  /\ flag' = flag - 1 /\ Returns(t, 0) /\ UNCHANGED <<kind, cs, timed>>

(* The wait of the others, which keeps the mutex when it returns, and the   *)
(* signal of set, which is sent without it. The critical section of "four"  *)
(* lets its owner in again.                                                 *)
LockCV(t) ==
  /\ pc[t] = "lock"
  /\ cs = NoThread \/ (kind = "four" /\ cs = t)
  /\ cs' = t /\ Goes(t, "test") /\ UNCHANGED <<kind, flag, timed, res>>
Passes(t) == flag = 1
TestCV(t) ==
  /\ pc[t] = "test"
  /\ \/ ~Passes(t) /\ Goes(t, "sleep") /\ UNCHANGED res
     \/ Passes(t) /\ Returns(t, 0)
  /\ UNCHANGED <<kind, flag, cs, timed>>
SleepCV(t) ==
  /\ pc[t] = "sleep" /\ cs' = NoThread /\ Goes(t, "asleep")
  /\ UNCHANGED <<kind, flag, timed, res>>
SpuriousCV(t) ==
  /\ pc[t] = "asleep" /\ Goes(t, "lock") /\ UNCHANGED <<kind, flag, cs, timed, res>>
SignalCV(t) ==
  LET asleep == {u \in Threads : pc[u] = "asleep"}
  IN /\ pc[t] = "signal"
     /\ \/ asleep = {} /\ Goes(t, "ready")
        \/ \E u \in asleep : pc' = [pc EXCEPT ![t] = "ready", ![u] = "lock"]
     /\ UNCHANGED <<kind, flag, cs, timed, res>>

WaitStep(t) ==
  \/ WaitEvent(t) \/ Timeout(t) \/ AcquireExclusive(t) \/ WaitSemaphore(t)
  \/ LockCV(t) \/ TestCV(t) \/ SleepCV(t) \/ SignalCV(t)

\* Nobody is left to set the event, or everybody waits for the mutex.
AllWait ==
  /\ \A t \in Threads : pc[t] \in {"waiting", "asleep", "lock"}
  /\ UNCHANGED vars

Next == AllWait \/ \E t \in Threads : CallWait(t) \/ set(t) \/ reset(t) \/ WaitStep(t) \/ SpuriousCV(t)
Spec == Init /\ [][Next]_vars
FairSpec == Spec /\ \A t \in Threads : WF_vars(WaitStep(t))
------------------------------------------------------------------------------
Inside(t) == pc[t] \notin {"ready", "signal"}

(* "returns 0 if wait satisfied, non-0 otherwise": once the event is set    *)
(* and stays set, every wait returns.                                       *)
SetReleases ==
  \A t \in Threads : flag = 1 /\ Inside(t) ~> flag = 0 \/ ~Inside(t)

\* Only the events with a mutex go through it.
Types ==
  /\ kind \in Kinds /\ flag \in Nat
  /\ pc \in [Threads -> {"ready", "waiting", "lock", "test", "sleep", "asleep", "signal"}]
  /\ timed \in [Threads -> BOOLEAN] /\ res \in [Threads -> {0, 1}]
MutexOfFlags == \A t \in Threads : pc[t] \in {"lock", "test", "sleep", "asleep"} => kind \in Flags

(* No wait returns before the event is set but one whose timeout expires,   *)
(* whatever wakes it up; and One and Three let one wait pass for each set.  *)
NeverEarlyStep ==
  \A t \in Threads :
    Inside(t) /\ pc'[t] = "ready" =>
      \/ flag > 0 /\ res'[t] = 0 /\ (kind \in OneEach => flag' = flag - 1)
      \/ timed[t] /\ res'[t] = 1
==============================================================================
