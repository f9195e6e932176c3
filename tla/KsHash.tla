------------------------------- MODULE KsHash -------------------------------
(***************************************************************************)
(* The hash table of libks (ks_hash.c) with a read-write lock              *)
(* (KS_HASH_FLAG_RWLOCK). The lock is the one RwLock specifies and KsRwl   *)
(* implements; a table with a plain mutex is the case without readers.     *)
(*                                                                         *)
(* A function that takes and leaves the write lock is one action, enabled  *)
(* when its caller may have the lock: nobody sees the table in between.    *)
(* What a function reads before it has the lock is an action of its own:   *)
(* ks_hash_insert_ex and ks_hash_search compute the index of the bucket    *)
(* from h->tablelength before they lock.                                   *)
(*                                                                         *)
(* An entry is an address with the key it holds; values, the hash modes    *)
(* and the destructors are left out.                                       *)
(***************************************************************************)
EXTENDS RwLock, Integers, Sequences, FiniteSets

CONSTANTS Keys,
          hash,             \* the hash value of each key
          primes,           \* the table sizes, in the order they are used
          MaxEntries,       \* bound: entries alive at once
          NoKey, NoEntry,
          Roles             \* who calls what: a set of functions Threads -> SUBSET Ops

\* The calls of a thread: single ones, and the patterns in which the lock is
\* held across several.
Ops == {"insert", "insert_dup_check", "remove", "search", "iterate",
        "lock_insert", "lock_search", "drain", "destroy"}

ASSUME HashValues == hash \in [Keys -> Nat]
ASSUME PrimesGrow ==
    /\ primes \in Seq(Nat \ {0}) /\ primes # <<>>
    /\ \A i \in 1 .. Len(primes) - 1 : primes[i] < primes[i + 1]
ASSUME EntriesBounded == MaxEntries \in Nat
ASSUME NoKeyIsNone == NoKey \notin Keys
ASSUME NoEntryIsNone == NoEntry \notin Nat
ASSUME HashRoles == Roles \subseteq [Threads -> SUBSET Ops]

VARIABLES table,            \* h->table: the chain of entries in each bucket
          entrycount,       \* h->entrycount
          primeindex,       \* h->primeindex, counted from 1
          readers,          \* h->readers
          key_of,           \* the key in each entry; NoKey when it is free
          pc,               \* where each thread is
          k,                \* its argument
          index,            \* the bucket it has computed
          found,            \* what its search returned
          i,                \* its iterator: pos and e
          visited,          \* history: the entries its iterator has been at
          role

lock == <<depth, reads>>
heap == <<table, entrycount, primeindex, key_of>>
mine == <<k, index, found>>
iter == <<i, visited>>
vars == <<lock, heap, readers, pc, mine, iter, role>>

Entries == 1 .. MaxEntries
tablelength == primes[primeindex]
indexFor(length, hashvalue) == hashvalue % length
Bucket(length, key) == indexFor(length, hash[key])

\* ceil(size * max_load_factor), a factor of 0.65.
loadlimit(size) == (65 * size + 99) \div 100

Live == {e \in Entries : key_of[e] # NoKey}

NoIterator == [pos |-> 0, e |-> NoEntry]

Init ==
    /\ LockInit
    /\ primeindex = 1
    /\ table = [b \in 0 .. primes[1] - 1 |-> <<>>]
    /\ entrycount = 0
    /\ readers = 0
    /\ key_of = [e \in Entries |-> NoKey]
    /\ pc = [t \in Threads |-> "idle"]
    /\ k = [t \in Threads |-> NoKey]
    /\ index = [t \in Threads |-> 0]
    /\ found = [t \in Threads |-> FALSE]
    /\ i = [t \in Threads |-> NoIterator]
    /\ visited = [t \in Threads |-> {}]
    /\ role \in Roles

GoTo(t, where) == pc' = [pc EXCEPT ![t] = where]

\* The call returns; what was local to it is gone.
Forget(t) ==
    /\ k' = [k EXCEPT ![t] = NoKey]
    /\ index' = [index EXCEPT ![t] = 0]
    /\ found' = [found EXCEPT ![t] = FALSE]

Calls(t, op) ==
    /\ pc[t] = "idle" /\ op \in role[t]
    /\ \A u \in Threads : pc[u] # "destroyed"

-----------------------------------------------------------------------------
(* Chains and tables                                                       *)

At(chain, key) == {n \in DOMAIN chain : key_of[chain[n]] = key}
FirstAt(chain, key) == CHOOSE n \in At(chain, key) : \A m \in At(chain, key) : n <= m

\* A table, its count and the keys in the entries, as a function on the way
\* to its end has them.
Heap == [tab |-> table, count |-> entrycount, keys |-> key_of]

\* The first entry of the first bucket that has any moves to the front of its
\* bucket in the new table.
MoveOne(m, keys, size) ==
    LET some == {b \in DOMAIN m.from : m.from[b] # <<>>}
        b == CHOOSE b \in some : \A c \in some : b <= c
        e == Head(m.from[b])
    IN  IF some = {} THEN m
        ELSE [from |-> [m.from EXCEPT ![b] = Tail(@)],
              to |-> [m.to EXCEPT ![Bucket(size, keys[e])] = <<e>> \o @]]

\* Every entry moves to a table of the next size, and there are no more than
\* MaxEntries of them.
ks_hash_expand(h, size) ==
    LET moving[n \in 0 .. MaxEntries] ==
          IF n = 0 THEN [from |-> h.tab, to |-> [b \in 0 .. size - 1 |-> <<>>]]
          ELSE MoveOne(moving[n - 1], h.keys, size)
    IN  moving[MaxEntries].to

\* _ks_hash_remove: unlink and free the first entry of the bucket that has
\* the key.
_ks_hash_remove(h, key, b) ==
    IF At(h.tab[b], key) = {} THEN h
    ELSE LET n == FirstAt(h.tab[b], key)
             chain == h.tab[b]
         IN  [tab |-> [h.tab EXCEPT ![b] = SubSeq(chain, 1, n - 1)
                                             \o SubSeq(chain, n + 1, Len(chain))],
              count |-> h.count - 1,
              keys |-> [h.keys EXCEPT ![chain[n]] = NoKey]]

Become(h) == table' = h.tab /\ entrycount' = h.count /\ key_of' = h.keys

-----------------------------------------------------------------------------
(* ks_hash_insert_ex                                                       *)

\* The index is computed before the lock is taken.
InsertIndex(t, op, key) ==
    /\ Calls(t, op)
    /\ Cardinality(Live) < MaxEntries
    /\ k' = [k EXCEPT ![t] = key]
    /\ index' = [index EXCEPT ![t] = Bucket(tablelength, key)]
    /\ GoTo(t, op)
    /\ UNCHANGED <<lock, heap, readers, found, iter, role>>

\* A caller that holds the write lock around ks_hash_insert_ex.
InsertLocked(t, key) ==
    /\ Calls(t, "lock_insert")
    /\ Cardinality(Live) < MaxEntries
    /\ GrantWrite(t)
    /\ k' = [k EXCEPT ![t] = key]
    /\ index' = [index EXCEPT ![t] = Bucket(tablelength, key)]
    /\ GoTo(t, "lock_insert")
    /\ UNCHANGED <<heap, readers, found, iter, role>>

\* Mutant: the index is not computed again after the table has grown.
InsertOldIndex(t, h) ==
    LET grow == h.count + 1 > loadlimit(tablelength) /\ primeindex < Len(primes)
        size == IF grow THEN primes[primeindex + 1] ELSE tablelength
        tab == IF grow THEN ks_hash_expand(h, size) ELSE h.tab
        b == index[t]
        e == CHOOSE x \in Entries : h.keys[x] = NoKey
    IN  /\ primeindex' = IF grow THEN primeindex + 1 ELSE primeindex
        /\ Become([tab |-> [tab EXCEPT ![b] = <<e>> \o @],
                   count |-> h.count + 1,
                   keys |-> [h.keys EXCEPT ![e] = k[t]]])

\* Count the entry, grow if that passes the load limit (then the index is
\* computed again), and put a new entry in front of the bucket.
Insert(t, h) ==
    LET grow == h.count + 1 > loadlimit(tablelength) /\ primeindex < Len(primes)
        size == IF grow THEN primes[primeindex + 1] ELSE tablelength
        tab == IF grow THEN ks_hash_expand(h, size) ELSE h.tab
        b == IF h.count + 1 > loadlimit(tablelength) THEN Bucket(size, k[t]) ELSE index[t]
        e == CHOOSE x \in Entries : h.keys[x] = NoKey
    IN  /\ primeindex' = IF grow THEN primeindex + 1 ELSE primeindex
        /\ Become([tab |-> [tab EXCEPT ![b] = <<e>> \o @],
                   count |-> h.count + 1,
                   keys |-> [h.keys EXCEPT ![e] = k[t]]])

\* Take the lock, insert, leave the lock. KS_HASH_FLAG_DUP_CHECK first
\* removes an entry with the key from the bucket.
InsertDo(t) ==
    /\ pc[t] \in {"insert", "insert_dup_check", "lock_insert"} /\ MayWrite(t)
    /\ Cardinality(Live) < MaxEntries
    /\ Insert(t, IF pc[t] = "insert_dup_check" THEN _ks_hash_remove(Heap, k[t], index[t])
                                               ELSE Heap)
    /\ GoTo(t, IF pc[t] = "lock_insert" THEN "locked" ELSE "idle")
    /\ Forget(t)
    /\ UNCHANGED <<lock, readers, iter, role>>

\* ks_hash_write_unlock by a caller that took the write lock.
WriteUnlock(t) ==
    /\ pc[t] = "locked"
    /\ GiveBackWrite(t)
    /\ GoTo(t, "idle")
    /\ UNCHANGED <<heap, readers, mine, iter, role>>

-----------------------------------------------------------------------------
(* ks_hash_remove, ks_hash_search, ks_hash_read_lock, ks_hash_read_unlock  *)

RemoveEntry(t, key) ==
    /\ Calls(t, "remove") /\ MayWrite(t)
    /\ Become(_ks_hash_remove(Heap, key, Bucket(tablelength, key)))
    /\ UNCHANGED <<lock, primeindex, readers, pc, mine, iter, role>>

\* ks_hash_search with KS_READLOCKED: the index, then the lock and the scan.
SearchIndex(t, key) ==
    /\ Calls(t, "search")
    /\ k' = [k EXCEPT ![t] = key]
    /\ index' = [index EXCEPT ![t] = Bucket(tablelength, key)]
    /\ GoTo(t, "search")
    /\ UNCHANGED <<lock, heap, readers, found, iter, role>>

SearchScan(t) ==
    /\ pc[t] = "search"
    /\ GrantRead(t)
    /\ readers' = readers + 1
    /\ found' = [found EXCEPT ![t] = At(table[index[t]], k[t]) # {}]
    /\ GoTo(t, "searched")
    /\ UNCHANGED <<heap, k, index, iter, role>>

\* ks_hash_read_lock, then ks_hash_search with KS_UNLOCKED.
SearchLocked(t, key) ==
    /\ Calls(t, "lock_search")
    /\ GrantRead(t)
    /\ readers' = readers + 1
    /\ k' = [k EXCEPT ![t] = key]
    /\ found' = [found EXCEPT ![t] = At(table[Bucket(tablelength, key)], key) # {}]
    /\ GoTo(t, "searched_locked")
    /\ UNCHANGED <<heap, index, iter, role>>

ReadUnlock(t) ==
    /\ pc[t] \in {"searched", "searched_locked"}
    /\ readers' = readers - 1
    /\ GiveBackRead(t)
    /\ GoTo(t, "idle")
    /\ Forget(t)
    /\ UNCHANGED <<heap, iter, role>>

-----------------------------------------------------------------------------
(* Iterators                                                               *)

\* The first bucket at or after b that is not empty, in the given table.
From(tab, b) ==
    LET some == {c \in DOMAIN tab : c >= b /\ tab[c] # <<>>}
    IN  IF some = {} THEN NoIterator
        ELSE LET c == CHOOSE c \in some : \A d \in some : c <= d
             IN  [pos |-> c, e |-> tab[c][1]]

\* Mutant: the position is moved once too often at the end of a chain.
ks_hash_next_skips(it) ==
    LET chain == table[it.pos]
        n == CHOOSE n \in DOMAIN chain : chain[n] = it.e
    IN  IF n < Len(chain) THEN [pos |-> it.pos, e |-> chain[n + 1]]
        ELSE From(table, it.pos + 2)

\* ks_hash_next: along the chain of the entry, then on to the next bucket.
ks_hash_next(it) ==
    LET chain == table[it.pos]
        n == CHOOSE n \in DOMAIN chain : chain[n] = it.e
    IN  IF n < Len(chain) THEN [pos |-> it.pos, e |-> chain[n + 1]]
        ELSE From(table, it.pos + 1)

\* The iterator goes where ks_hash_first or ks_hash_next takes it.
MoveTo(t, it) ==
    /\ i' = [i EXCEPT ![t] = it]
    /\ visited' = [visited EXCEPT ![t] = @ \cup ({it.e} \ {NoEntry})]

\* ks_hash_first with KS_READLOCKED. The iterator of an empty table ends at
\* once.
IterateFirst(t) ==
    /\ Calls(t, "iterate")
    /\ GrantRead(t)
    /\ readers' = readers + 1
    /\ MoveTo(t, From(table, 0))
    /\ GoTo(t, IF i'[t] = NoIterator THEN "last" ELSE "iterate")
    /\ UNCHANGED <<heap, mine, role>>

IterateNext(t) ==
    /\ pc[t] = "iterate"
    /\ MoveTo(t, ks_hash_next(i[t]))
    /\ GoTo(t, IF i'[t] = NoIterator THEN "last" ELSE "iterate")
    /\ UNCHANGED <<lock, heap, readers, mine, role>>

\* ks_hash_last, by ks_hash_next at the end or by a caller that stops early.
IterateLast(t) ==
    /\ pc[t] \in {"iterate", "last"}
    /\ readers' = readers - 1
    /\ GiveBackRead(t)
    /\ i' = [i EXCEPT ![t] = NoIterator]
    /\ visited' = [visited EXCEPT ![t] = {}]
    /\ GoTo(t, "idle")
    /\ UNCHANGED <<heap, mine, role>>

-----------------------------------------------------------------------------
(* The loop of tests/testhash.c and ks_thread_pool.c that empties a table: *)
(* under the write lock, step to the next entry, then remove the last one. *)

DrainFirst(t) ==
    /\ Calls(t, "drain")
    /\ GrantWrite(t)
    /\ i' = [i EXCEPT ![t] = From(table, 0)]
    /\ GoTo(t, IF i'[t] = NoIterator THEN "locked" ELSE "drain")
    /\ UNCHANGED <<heap, readers, mine, visited, role>>

\* Mutant: ks_hash_last does not look whether the iterator had the read lock.
DrainStepUnread(t) ==
    LET key == key_of[i[t].e] IN
    /\ pc[t] = "drain"
    /\ i' = [i EXCEPT ![t] = ks_hash_next(i[t])]
    /\ readers' = IF i'[t] = NoIterator THEN readers - 1 ELSE readers
    /\ Become(_ks_hash_remove(Heap, key, Bucket(tablelength, key)))
    /\ GoTo(t, IF i'[t] = NoIterator THEN "locked" ELSE "drain")
    /\ UNCHANGED <<lock, primeindex, mine, visited, role>>

DrainStep(t) ==
    LET key == key_of[i[t].e] IN
    /\ pc[t] = "drain"
    /\ i' = [i EXCEPT ![t] = ks_hash_next(i[t])]
    /\ Become(_ks_hash_remove(Heap, key, Bucket(tablelength, key)))
    /\ GoTo(t, IF i'[t] = NoIterator THEN "locked" ELSE "drain")
    /\ UNCHANGED <<lock, primeindex, readers, mine, visited, role>>

\* ks_hash_destroy, by the owner when nobody else is in a call: free every
\* entry, the table and the locks.
Destroy(t) ==
    /\ Calls(t, "destroy") /\ \A u \in Threads : pc[u] = "idle"
    /\ Become([tab |-> [b \in DOMAIN table |-> <<>>], count |-> 0,
               keys |-> [e \in Entries |->
                            IF \E b \in DOMAIN table : \E n \in DOMAIN table[b] : table[b][n] = e
                            THEN NoKey ELSE key_of[e]]])
    /\ GoTo(t, "destroyed")
    /\ UNCHANGED <<lock, primeindex, readers, mine, iter, role>>

-----------------------------------------------------------------------------
Step(t) ==
    \/ \E key \in Keys :
        \/ InsertIndex(t, "insert", key) \/ InsertIndex(t, "insert_dup_check", key)
        \/ InsertLocked(t, key) \/ RemoveEntry(t, key)
        \/ SearchIndex(t, key) \/ SearchLocked(t, key)
    \/ InsertDo(t) \/ WriteUnlock(t)
    \/ SearchScan(t) \/ ReadUnlock(t)
    \/ IterateFirst(t) \/ IterateNext(t) \/ IterateLast(t)
    \/ DrainFirst(t) \/ DrainStep(t) \/ Destroy(t)

Next == \E t \in Threads : Step(t)

Spec == Init /\ [][Next]_vars
-----------------------------------------------------------------------------
(* Properties                                                              *)

Locations == {"idle", "insert", "insert_dup_check", "lock_insert", "locked", "search",
              "searched", "searched_locked", "iterate", "last", "drain", "destroyed"}

\* Every field holds a value of its type; h->readers, which ks_hash_read_unlock
\* asserts not to be zero, never goes below zero.
TypeOK ==
    /\ primeindex \in 1 .. Len(primes)
    /\ table \in [0 .. tablelength - 1 -> Seq(Entries)]
    /\ entrycount \in Nat /\ readers \in Nat
    /\ key_of \in [Entries -> Keys \cup {NoKey}]
    /\ pc \in [Threads -> Locations]
    /\ k \in [Threads -> Keys \cup {NoKey}]
    /\ index \in [Threads -> Nat]
    /\ found \in [Threads -> BOOLEAN]
    /\ \A t \in Threads : i[t].pos \in Nat /\ i[t].e \in Entries \cup {NoEntry}

InChain(e) == {x \in (DOMAIN table) \X (1 .. MaxEntries) :
                  x[2] \in DOMAIN table[x[1]] /\ table[x[1]][x[2]] = e}

\* When one thread inserts, or every inserter holds the write lock, every
\* entry is in the table exactly once, in the bucket of its key, however
\* the table grows; freed entries are in no bucket, and entrycount counts
\* the rest.
Placed ==
    /\ \A e \in Entries : Cardinality(InChain(e)) = IF e \in Live THEN 1 ELSE 0
    /\ \A b \in DOMAIN table : \A n \in DOMAIN table[b] :
          Bucket(tablelength, key_of[table[b][n]]) = b
    /\ entrycount = Cardinality(Live)

Inserting == {"insert", "insert_dup_check", "lock_insert"}

\* Who inserts without the write lock around it is the only one to insert: the
\* index of a bucket, computed before the lock is taken, is then still right.
SoleInserter(r) ==
    \A t, u \in Threads :
        t # u /\ r[t] \cap {"insert", "insert_dup_check"} # {} => r[u] \cap Inserting = {}

Present(key) == \E e \in Live : key_of[e] = key

\* A search under the read lock finds a key exactly when it is in the table,
\* whatever was inserted, removed or moved by others before.
LockedSearchFinds ==
    \A t \in Threads : pc[t] = "searched_locked" => found[t] = Present(k[t])

\* An iterator, under the read lock or stepping ahead of removals under the
\* write lock, is always at an entry that is alive and in its bucket.
IteratorLive ==
    \A t \in Threads :
        i[t] # NoIterator =>
            \E n \in DOMAIN table[i[t].pos] : table[i[t].pos][n] = i[t].e

\* The table as its callers may rely on it: the three above.
HashSound == Placed /\ LockedSearchFinds /\ IteratorLive

\* An iterator that has come to the end has been at every entry, and the
\* loop that empties the table leaves nothing in it.
IterateAll ==
    [][\A t \in Threads :
        /\ pc[t] = "iterate" /\ pc'[t] = "last" => visited'[t] = Live'
        /\ pc[t] = "drain" /\ pc'[t] = "locked" => Live' = {}]_vars

\* "the value associated with the key, or NULL if none found"
\* (ks_hash.h, ks_hash_search): a search finds a key that is in the table.
SearchFinds ==
    \A t \in Threads :
        pc[t] \in {"searched", "searched_locked"} => (Present(k[t]) => found[t])
=============================================================================
