------------------------------ MODULE MCQueues ------------------------------
(***************************************************************************)
(* The queue, and a pool of fixed size whose workers live from such a      *)
(* queue, with the fairness of their threads.  A behaviour is one of them, *)
(* chosen at the start, with the other at rest.                            *)
(***************************************************************************)
EXTENDS MCKsQ, ThreadPool

VARIABLE part

\* Two workers, and a client that owns the pool.
MCWorkers == {p1, p2}
MCClients == {c1}
FixedSizes == {<<2, 2>>}

QueuesInit ==
    /\ part \in {"queue", "threads"}
    /\ Init /\ TpInit
    /\ part = "threads" => maxlen = 0 /\ role = CHOOSE r \in Roles : TRUE

QueuesNext ==
    /\ UNCHANGED part
    /\ \/ part = "queue" /\ Next /\ UNCHANGED tpVars
       \/ part = "threads" /\ TpNext /\ UNCHANGED vars

\* A queue at rest has nobody waiting; a pool that does not move is not
\* asked to.
QueuesSpec ==
    /\ QueuesInit /\ [][QueuesNext]_<<part, vars, tpVars>>
    /\ Fairness
    /\ \A a \in Actors : SF_tpVars(part = "threads" /\ GoesOn(a))
=============================================================================
