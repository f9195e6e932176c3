---------------------------- MODULE MCThreadPool ----------------------------
(* A pool that grows from one thread to two, with three thread handles.    *)
EXTENDS ThreadPool

CONSTANTS w1, w2, w3, c

MCWorkers == {w1, w2, w3}
MCClients == {c}
GrowingSizes == {<<1, 2>>}
=============================================================================
