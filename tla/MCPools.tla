------------------------------ MODULE MCPools -------------------------------
(***************************************************************************)
(* The two pools of libks, of threads and of memory, one beside the other: *)
(* a behaviour is one of them, chosen at the start, with the other at      *)
(* rest.                                                                   *)
(*                                                                         *)
(* Three blocks of one or two bytes are enough for a block whose object    *)
(* owns another that owns a third, for a free in the middle and at both    *)
(* ends of the list, and for a realloc that moves a block.                 *)
(***************************************************************************)
EXTENDS ThreadPool, KsPool

CONSTANTS w1, w2, w3, c

VARIABLE part

MCWorkers == {w1, w2, w3}
MCClients == {c}

\* A pool that grows from one thread to two and one of fixed size.
MCSizes == {<<1, 2>>, <<2, 2>>}

PoolsInit ==
    /\ part \in {"threads", "memory"}
    /\ TpInit /\ (part = "threads" \/ min = max)
    /\ MemInit

PoolsNext ==
    /\ UNCHANGED part
    /\ \/ part = "threads" /\ TpNext /\ UNCHANGED memVars
       \/ part = "memory" /\ MemNext /\ UNCHANGED tpVars

PoolsSpec == PoolsInit /\ [][PoolsNext]_<<part, tpVars, memVars>>
=============================================================================
