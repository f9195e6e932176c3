------------------------------ MODULE MCKsHash ------------------------------
(* A small instance of KsHash in which two threads insert without a lock.  *)
EXTENDS KsHash

CONSTANTS t1, t2, t3, k1, k2, k3

MCThreads == {t1, t2, t3}
MCKeys == {k1, k2, k3}

\* Two keys that share a bucket of the first table and not of the second,
\* and a third.
MChash == [key \in MCKeys |-> CASE key = k1 -> 2 [] key = k2 -> 4 [] key = k3 -> 5]
MCprimes == <<2, 5>>

Of(x, y, z) == [t \in MCThreads |-> CASE t = t1 -> x [] t = t2 -> y [] t = t3 -> z]

\* Two threads insert as they please while a third searches.
TwoInserters == { Of({"insert"}, {"insert"}, {"lock_search"}) }
=============================================================================
