------------------------------- MODULE RWLock --------------------------------
(* RWLock of os-linux.h, os-mac.h and os-windows.h: a mutex whose readers   *)
(* exclude each other too, or (SYNC_TYPE 1 of os-windows.h) an SRWLOCK that *)
(* readers share. Neither is recursive.                                     *)

CONSTANT NoThread

Open == [writer |-> NoThread, readers |-> {}]

\* AcquireSRWLockExclusive and the lock of the mutexes.
CanLock(l) == l = Open
Locked(l, t) == [l EXCEPT !.writer = t]
unlock(l, t) == [l EXCEPT !.writer = NoThread]

SrwCanLockRead(l) == l.writer = NoThread
SrwLockedRead(l, t) == [l EXCEPT !.readers = @ \cup {t}]
SrwUnlockRead(l, t) == [l EXCEPT !.readers = @ \ {t}]

CanLockRead(l, shared) == IF shared THEN SrwCanLockRead(l) ELSE CanLock(l)
LockedRead(l, t, shared) == IF shared THEN SrwLockedRead(l, t) ELSE Locked(l, t)
unlockRead(l, t, shared) == IF shared THEN SrwUnlockRead(l, t) ELSE unlock(l, t)
==============================================================================
