------------------------------- MODULE RwLock -------------------------------
(***************************************************************************)
(* What a read-write lock with a recursive writer promises, seen by its    *)
(* callers: how many times each thread has it for writing and for reading. *)
(***************************************************************************)
EXTENDS Naturals

CONSTANT Threads

VARIABLES depth,            \* write locks granted to a thread and not given back
          reads             \* read locks granted to a thread and not given back

LockInit ==
    /\ depth = [t \in Threads |-> 0]
    /\ reads = [t \in Threads |-> 0]

\* A thread that has it for writing gets it again; any other waits until
\* nobody has it.
MayWrite(t) ==
    \/ depth[t] > 0
    \/ \A u \in Threads : depth[u] = 0 /\ reads[u] = 0

GrantWrite(t) ==
    /\ MayWrite(t)
    /\ depth' = [depth EXCEPT ![t] = @ + 1]
    /\ UNCHANGED reads

GrantRead(t) ==
    /\ \A u \in Threads : depth[u] = 0
    /\ reads' = [reads EXCEPT ![t] = @ + 1]
    /\ UNCHANGED depth

GiveBackWrite(t) ==
    /\ depth[t] > 0
    /\ depth' = [depth EXCEPT ![t] = @ - 1]
    /\ UNCHANGED reads

GiveBackRead(t) ==
    /\ reads[t] > 0
    /\ reads' = [reads EXCEPT ![t] = @ - 1]
    /\ UNCHANGED depth

LockNext ==
    \E t \in Threads :
        GrantWrite(t) \/ GrantRead(t) \/ GiveBackWrite(t) \/ GiveBackRead(t)

LockSpec == LockInit /\ [][LockNext]_<<depth, reads>>
=============================================================================
