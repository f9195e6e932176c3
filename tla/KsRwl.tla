------------------------------- MODULE KsRwl -------------------------------
(***************************************************************************)
(* The read-write lock of libks (ks_rwl, ks_mutex.c) over pthread_rwlock_t.*)
(* A writer may lock again: write_locker remembers its thread and wlc how  *)
(* often it came back. Both are plain fields. write_locker is read before  *)
(* the lock is held, written after it is held and cleared before it is     *)
(* released, so each of these is a step of its own.                        *)
(*                                                                         *)
(* Callers do not ask for the lock one way while they have it the other    *)
(* way: pthread_rwlock_rdlock would fail or block, and the status is not   *)
(* looked at. A try-call that fails changes nothing.                       *)
(***************************************************************************)
EXTENDS Integers

CONSTANTS Threads,
          NoThread,         \* write_locker 0, and nobody holds the lock
          MaxDepth          \* bound: how often a thread holds it at once

ASSUME DepthBounded == MaxDepth \in Nat
ASSUME NoThreadIsNone == NoThread \notin Threads

VARIABLES writer,           \* pthread_rwlock_t: who holds it for writing
          reads,            \* and how often each thread holds it for reading
          write_locker,     \* rwlock->write_locker
          wlc,              \* rwlock->wlc
          at,               \* where a thread is in a call
          depth             \* history: write locks granted and not given back

pthreadVars == <<writer, reads>>
rwlVars == <<writer, reads, write_locker, wlc, at, depth>>

RwlInit ==
    /\ writer = NoThread
    /\ reads = [t \in Threads |-> 0]
    /\ write_locker = NoThread
    /\ wlc = 0
    /\ at = [t \in Threads |-> "out"]
    /\ depth = [t \in Threads |-> 0]

-----------------------------------------------------------------------------
(* pthread_rwlock_t                                                        *)

WriteFree == writer = NoThread /\ \A u \in Threads : reads[u] = 0
ReadFree == writer = NoThread

-----------------------------------------------------------------------------
(* ks_rwl_write_lock, ks_rwl_try_write_lock                                *)

Granted(t) == depth' = [depth EXCEPT ![t] = @ + 1]

\* The writer locks again.
WriteLockAgain(t) ==
    /\ at[t] = "out" /\ depth[t] < MaxDepth
    /\ write_locker = t
    /\ wlc' = wlc + 1
    /\ Granted(t)
    /\ UNCHANGED <<pthreadVars, write_locker, at>>

\* Somebody else is the writer, or nobody: the thread has looked and goes to
\* pthread_rwlock_wrlock or pthread_rwlock_trywrlock.
WriteLockLook(t, call) ==
    /\ at[t] = "out" /\ reads[t] = 0 /\ depth[t] < MaxDepth
    /\ write_locker # t
    /\ at' = [at EXCEPT ![t] = call]
    /\ UNCHANGED <<pthreadVars, write_locker, wlc, depth>>

WriteLockGet(t) ==
    /\ at[t] \in {"wrlock", "trywrlock"} /\ WriteFree
    /\ writer' = t
    /\ at' = [at EXCEPT ![t] = "claim"]
    /\ UNCHANGED <<reads, write_locker, wlc, depth>>

\* ks_rwl_try_write_lock returns KS_STATUS_FAIL.
TryWriteLockFails(t) ==
    /\ at[t] = "trywrlock" /\ ~WriteFree
    /\ at' = [at EXCEPT ![t] = "out"]
    /\ UNCHANGED <<pthreadVars, write_locker, wlc, depth>>

\* Mutant: the writer is not remembered.
WriteLockAnonymous(t) ==
    /\ at[t] = "claim"
    /\ at' = [at EXCEPT ![t] = "out"]
    /\ Granted(t)
    /\ UNCHANGED <<pthreadVars, write_locker, wlc>>

WriteLockClaim(t) ==
    /\ at[t] = "claim"
    /\ write_locker' = t
    /\ at' = [at EXCEPT ![t] = "out"]
    /\ Granted(t)
    /\ UNCHANGED <<pthreadVars, wlc>>

-----------------------------------------------------------------------------
(* ks_rwl_write_unlock                                                     *)

GivenBack(t) == depth' = [depth EXCEPT ![t] = @ - 1]

\* Mutant: the inner unlock does not ask whether there is an outer one.
WriteUnlockAlwaysInner(t) ==
    /\ at[t] = "out" /\ depth[t] > 0
    /\ write_locker = t
    /\ wlc' = wlc - 1
    /\ GivenBack(t)
    /\ UNCHANGED <<pthreadVars, write_locker, at>>

WriteUnlockInner(t) ==
    /\ at[t] = "out" /\ depth[t] > 0
    /\ write_locker = t /\ wlc > 0
    /\ wlc' = wlc - 1
    /\ GivenBack(t)
    /\ UNCHANGED <<pthreadVars, write_locker, at>>

\* Mutant: the test of wlc is off by one.
WriteUnlockEarly(t) ==
    /\ at[t] = "out" /\ depth[t] > 0
    /\ ~(write_locker = t /\ wlc > 1)
    /\ write_locker' = NoThread
    /\ at' = [at EXCEPT ![t] = "unlock"]
    /\ GivenBack(t)
    /\ UNCHANGED <<pthreadVars, wlc>>

\* The last one clears write_locker while the lock is still held...
WriteUnlockLast(t) ==
    /\ at[t] = "out" /\ depth[t] > 0
    /\ ~(write_locker = t /\ wlc > 0)
    /\ write_locker' = NoThread
    /\ at' = [at EXCEPT ![t] = "unlock"]
    /\ GivenBack(t)
    /\ UNCHANGED <<pthreadVars, wlc>>

\* ... and then releases it.
WriteUnlockRelease(t) ==
    /\ at[t] = "unlock"
    /\ writer' = NoThread
    /\ at' = [at EXCEPT ![t] = "out"]
    /\ UNCHANGED <<reads, write_locker, wlc, depth>>

-----------------------------------------------------------------------------
(* ks_rwl_read_lock, ks_rwl_try_read_lock, ks_rwl_read_unlock              *)

ReadLock(t) ==
    /\ at[t] = "out" /\ depth[t] = 0 /\ reads[t] < MaxDepth
    /\ ReadFree
    /\ reads' = [reads EXCEPT ![t] = @ + 1]
    /\ UNCHANGED <<writer, write_locker, wlc, at, depth>>

ReadUnlock(t) ==
    /\ at[t] = "out" /\ reads[t] > 0
    /\ reads' = [reads EXCEPT ![t] = @ - 1]
    /\ UNCHANGED <<writer, write_locker, wlc, at, depth>>

-----------------------------------------------------------------------------
RwlNext ==
    \E t \in Threads :
        \/ WriteLockAgain(t) \/ WriteLockLook(t, "wrlock") \/ WriteLockLook(t, "trywrlock")
        \/ WriteLockGet(t) \/ TryWriteLockFails(t) \/ WriteLockClaim(t)
        \/ WriteUnlockInner(t) \/ WriteUnlockLast(t) \/ WriteUnlockRelease(t)
        \/ ReadLock(t) \/ ReadUnlock(t)

RwlSpec == RwlInit /\ [][RwlNext]_rwlVars
-----------------------------------------------------------------------------
(* Properties                                                              *)

\* Every field holds a value of its type.
RwlTypeOK ==
    /\ writer \in Threads \cup {NoThread}
    /\ reads \in [Threads -> Nat]
    /\ write_locker \in Threads \cup {NoThread}
    /\ wlc \in Nat
    /\ at \in [Threads -> {"out", "wrlock", "trywrlock", "claim", "unlock"}]
    /\ depth \in [Threads -> Nat]

\* A thread finds itself in write_locker, which it reads without the lock,
\* exactly when it has the lock for writing, and then wlc, which it changes
\* without any other lock, is the number of times it came back; wlc is zero
\* whenever the lock changes hands.
WriterKnown ==
    /\ \A t \in Threads : write_locker = t <=> depth[t] > 0
    /\ \A t \in Threads : depth[t] > 0 => writer = t /\ wlc = depth[t] - 1
    /\ (\A t \in Threads : depth[t] = 0) => wlc = 0

\* Seen by its callers it is a read-write lock with a recursive writer, although
\* the test for recursion reads write_locker without the lock: a writer gets
\* in only when nobody else is, and nobody else gets in until its last unlock.
Lock == INSTANCE RwLock
LockSpec == Lock!LockSpec
=============================================================================
