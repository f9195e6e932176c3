-------------------------- MODULE ThreadPoolProofs --------------------------
(***************************************************************************)
(* Proofs about ThreadPool, for any sets of workers and callers, any sizes *)
(* of the pool and any bounds.                                             *)
(***************************************************************************)
EXTENDS ThreadPool, FiniteSetTheorems, SequenceTheorems, TLAPS

-----------------------------------------------------------------------------
(* The inductive invariant                                                 *)

\* A lock is held exactly in the part of the code that needs it.
LocksHeld ==
    /\ \A a \in Actors : mutex = a <=> at[a] \in {"clean", "reap"}
    /\ \A a \in Actors : state_mutex = a <=> at[a] \in {"giveup", "spawn", "uncount", "record"}
    /\ hash_mutex = Owner <=> at[Owner] = "destroy_join"

\* check_queue has threads to start while it is in its loop, and a thread in
\* its hands where it reaps or records one.
InLoop ==
    \A a \in Actors :
        /\ need[a] <= min + 1
        /\ need[a] > 0 <=> at[a] \in {"create", "giveup", "spawn", "uncount", "record"}
        /\ thread[a] # None <=> at[a] \in {"reap", "record"}

\* A worker calls check_queue from the loop of worker_thread and goes back
\* there, a caller comes from add_job; only the owner comes from
\* ks_thread_pool_create, before the others have the pool.
Returns ==
    /\ \A w \in Workers : at[w] \in CheckAt => ret[w] \in {"busy", "idle"}
    /\ \A c \in Clients : at[c] \in CheckAt => ret[c] \in {"created", "ready"}
    /\ \A c \in Clients : at[c] = "created" \/ (at[c] \in CheckAt /\ ret[c] = "created")
         => c = Owner /\ \A b \in Clients \ {Owner} : at[b] = "none"

\* The pool is down from the first step of destroy on. No thread is started
\* from then on.
Down ==
    /\ state = "DOWN" <=> at[Owner] \in {"destroy_lock", "destroy_join", "destroyed"}
    /\ \A c \in Clients \ {Owner} : at[c] \notin {"destroy_lock", "destroy_join", "destroyed"}
    /\ state = "DOWN" => \A a \in Actors : at[a] \notin {"spawn", "uncount", "record"}

\* A handle that nobody has started, or that destroy has freed.
Ending(w) == at[w] \in {"exiting", "ended"} \/ (at[w] = "none" /\ state = "DOWN")

\* The threads to reap have left worker_thread, and only a worker on its way
\* out has decided to die.
Leaving ==
    /\ \A w \in thread_die_hash : Ending(w)
    /\ \A w \in Workers : die[w] => at[w] = "exit"

\* The thread being reaped has ended and is in thread_die_hash no more.
Reaping ==
    \A a \in Actors : at[a] = "reap" =>
        /\ Ending(thread[a]) /\ at[thread[a]] # "exiting"
        /\ thread[a] \notin thread_die_hash

\* Every thread is in thread_hash or about to be recorded there.
Recorded ==
    /\ \A w \in Workers : at[w] # "none" =>
         w \in thread_hash \/ \E a \in Actors : at[a] = "record" /\ thread[a] = w
    /\ at[Owner] = "destroyed" => thread_hash = {}

\* A worker has a job from the pop to the return of the job's function.
JobsHeld ==
    /\ \A w \in Workers : job[w] # NoJob <=>
         at[w] \in {"busy", "run"} \/ (at[w] \in CheckAt /\ ret[w] = "busy")
    /\ \A i \in DOMAIN q : q[i] <= added

\* TpTypeOK but for the counters, whose types follow from what they count.
PoolTypes ==
    /\ min \in Nat /\ max \in Nat
    /\ state \in {"RUNNING", "DOWN"}
    /\ q \in Seq(1 .. MaxJobs) /\ ran \in Seq(1 .. MaxJobs)
    /\ thread_hash \subseteq Workers /\ thread_die_hash \subseteq Workers
    /\ mutex \in Actors \cup {None} /\ state_mutex \in Actors \cup {None}
    /\ hash_mutex \in {Owner, None}
    /\ \A w \in Workers : at[w] \in WorkerAt
    /\ \A c \in Clients : at[c] \in ClientAt
    /\ ret \in [Actors -> {"none", "created", "ready", "busy", "idle"}]
    /\ need \in [Actors -> Nat]
    /\ thread \in [Actors -> Workers \cup {None}]
    /\ job \in [Workers -> 0 .. MaxJobs]
    /\ idle \in [Workers -> 0 .. IdleTicks]
    /\ die \in [Workers -> BOOLEAN]
    /\ added \in 0 .. MaxJobs /\ failures \in 0 .. MaxFailures
    /\ at \in [Actors -> WorkerAt \cup ClientAt]

\* The counters, which are exact and so never below zero.
Counters ==
    /\ thread_count \in Nat /\ busy_thread_count \in Nat
    /\ running_thread_count \in Nat /\ dying_thread_count \in Nat

\* Where everybody is, which locks they hold and what they have in hand. The
\* counters need it: what is counted depends on it.
Control ==
    /\ PoolTypes /\ LocksHeld /\ InLoop /\ Returns /\ Down /\ Leaving /\ Reaping
    /\ Recorded /\ JobsHeld

-----------------------------------------------------------------------------
(* Control: one lemma per action                                           *)

\* check_queue returns: a worker goes back into worker_thread, the owner into
\* ks_thread_pool_create, a caller out of ks_thread_pool_add_job.
LEMMA ReturnsWhere ==
    ASSUME Control, NEW a \in Actors, at[a] \in CheckAt
    PROVE  /\ a \in Workers => ret[a] \in {"busy", "idle"}
           /\ a \in Clients => ret[a] \in {"created", "ready"}
           /\ ret[a] \notin CheckAt
BY DEF Control, Returns, PoolTypes, Actors, CheckAt, WorkerAt, ClientAt

\* The owner is still the only one with the pool when check_queue returns
\* into ks_thread_pool_create.
LEMMA ReturnsToCaller ==
    ASSUME Control, NEW a \in Actors, at[a] \in CheckAt, at' = [at EXCEPT ![a] = ret[a]],
           UNCHANGED ret
    PROVE  Returns'
<1> USE OwnerIsClient, PoolNames DEF Control, Actors
<1>1. at'[a] = ret[a] /\ \A b \in Actors \ {a} : at'[b] = at[b]
  BY DEF PoolTypes
<1>2. /\ a \in Workers => ret[a] \in {"busy", "idle"}
      /\ a \in Clients => ret[a] \in {"created", "ready"}
      /\ ret[a] \notin CheckAt
  BY ReturnsWhere
<1>3. \A w \in Workers : at'[w] \in CheckAt => ret'[w] \in {"busy", "idle"}
  BY <1>1, <1>2 DEF Returns
<1>4. \A c \in Clients : at'[c] \in CheckAt => ret'[c] \in {"created", "ready"}
  BY <1>1, <1>2 DEF Returns
<1>5. ASSUME NEW c \in Clients, at'[c] = "created" \/ (at'[c] \in CheckAt /\ ret'[c] = "created")
      PROVE  c = Owner /\ \A b \in Clients \ {Owner} : at'[b] = "none"
  <2>1. at[c] = "created" \/ (at[c] \in CheckAt /\ ret[c] = "created")
    BY <1>1, <1>2, <1>5
  <2>2. c = Owner /\ \A b \in Clients \ {Owner} : at[b] = "none"
    BY <2>1 DEF Returns
  <2> QED
    BY <1>1, <2>2 DEF CheckAt
<1> QED
  BY <1>3, <1>4, <1>5 DEF Returns

\* check_queue keeps its way back while nobody enters or leaves it.
LEMMA ReturnsKept ==
    ASSUME Returns, UNCHANGED ret,
           \A a \in Workers \cup Clients : at'[a] \in CheckAt => at[a] \in CheckAt,
           \A c \in Clients : /\ at'[c] = "created" => at[c] = "created"
                              /\ at[c] = "none" => at'[c] = "none"
    PROVE  Returns'
<1>1. \A w \in Workers : at'[w] \in CheckAt => ret'[w] \in {"busy", "idle"}
  BY DEF Returns
<1>2. \A c \in Clients : at'[c] \in CheckAt => ret'[c] \in {"created", "ready"}
  BY DEF Returns
<1>3. ASSUME NEW c \in Clients, at'[c] = "created" \/ (at'[c] \in CheckAt /\ ret'[c] = "created")
      PROVE  c = Owner /\ \A b \in Clients \ {Owner} : at'[b] = "none"
  BY <1>3 DEF Returns
<1> QED
  BY <1>1, <1>2, <1>3 DEF Returns

\* A thread in the hands of its reaper stays as it is while it is neither
\* freed nor started again.
LEMMA ReapingKept ==
    ASSUME Control, thread_die_hash' \subseteq thread_die_hash,
           \A b \in Actors : at'[b] = "reap" => at[b] = "reap" /\ thread'[b] = thread[b],
           \A v \in Workers : Ending(v) /\ at[v] # "exiting" => Ending(v)' /\ at'[v] # "exiting"
    PROVE  Reaping'
<1>1. \A b \in Actors : at[b] = "reap" => thread[b] \in Workers
  BY DEF Control, InLoop, PoolTypes
<1> QED
  BY <1>1 DEF Control, Reaping, Ending

\* Entering check_queue, or leaving it at once when the pool is down.
LEMMA CheckEnterKeeps ==
    ASSUME Control, NEW a \in Actors, CheckEnter(a) PROVE Control'
<1> USE OwnerIsClient, PoolNames, PoolBounds
    DEF Control, Actors, CheckAt, WorkerAt, ClientAt, NoJob,
        sizes, counts, hashes, locks, local, own, hist
<1>1. CASE state = "RUNNING"
  <2>1. /\ at[a] = "check" /\ mutex = None
        /\ at' = [at EXCEPT ![a] = "clean"] /\ mutex' = a
        /\ UNCHANGED <<sizes, state, q, hashes, state_mutex, hash_mutex, local, own, hist>>
    BY <1>1 DEF CheckEnter, MoveTo
  <2>2. PoolTypes'
    BY <1>1, <2>1 DEF PoolTypes
  <2>3. LocksHeld'
    BY <1>1, <2>1 DEF PoolTypes, LocksHeld
  <2>4. InLoop'
    BY <1>1, <2>1 DEF PoolTypes, InLoop
  <2>5. Returns'
    BY <1>1, <2>1 DEF PoolTypes, Returns
  <2>6. Down'
    BY <1>1, <2>1 DEF PoolTypes, Down, Returns
  <2>7. Leaving'
    BY <1>1, <2>1 DEF PoolTypes, Leaving, Ending
  <2>8. Reaping'
    BY <1>1, <2>1 DEF PoolTypes, InLoop, Reaping, Ending
  <2>9. Recorded'
    BY <1>1, <2>1 DEF PoolTypes, Recorded
  <2>10. JobsHeld'
    BY <1>1, <2>1 DEF PoolTypes, JobsHeld
  <2> QED
    BY <2>2, <2>3, <2>4, <2>5, <2>6, <2>7, <2>8, <2>9, <2>10
<1>2. CASE state # "RUNNING"
  <2>1. /\ at[a] = "check" /\ mutex = None
        /\ at' = [at EXCEPT ![a] = ret[a]] /\ mutex' = mutex
        /\ UNCHANGED <<sizes, state, q, hashes, state_mutex, hash_mutex, local, own, hist>>
    BY <1>2 DEF CheckEnter, MoveTo
  <2>2. /\ a \in Workers => ret[a] \in {"busy", "idle"}
        /\ a \in Clients => ret[a] \in {"created", "ready"}
    BY <2>1, ReturnsWhere
  <2>3. PoolTypes'
    BY <1>2, <2>1, <2>2 DEF PoolTypes
  <2>4. LocksHeld'
    BY <1>2, <2>1, <2>2 DEF PoolTypes, LocksHeld
  <2>5. InLoop'
    BY <1>2, <2>1, <2>2 DEF PoolTypes, InLoop
  <2>6. Returns'
    BY <2>1, ReturnsToCaller DEF Returns
  <2>7. Down'
    BY <1>2, <2>1, <2>2 DEF PoolTypes, Down, Returns
  <2>8. Leaving'
    BY <1>2, <2>1, <2>2 DEF PoolTypes, Leaving, Ending
  <2>9. Reaping'
    BY <1>2, <2>1, <2>2 DEF PoolTypes, InLoop, Reaping, Ending
  <2>10. Recorded'
    BY <1>2, <2>1, <2>2 DEF PoolTypes, Recorded
  <2>11. JobsHeld'
    BY <1>2, <2>1, <2>2 DEF PoolTypes, JobsHeld
  <2> QED
    BY <2>3, <2>4, <2>5, <2>6, <2>7, <2>8, <2>9, <2>10, <2>11
<1> QED
  BY <1>1, <1>2

\* Joining a dead thread: tp->mutex makes its reaper the only one.
LEMMA CleanJoinKeeps ==
    ASSUME Control, NEW a \in Actors, NEW w \in Workers, CleanJoin(a, w) PROVE Control'
<1> USE OwnerIsClient, PoolNames, PoolBounds
    DEF Control, Actors, CheckAt, WorkerAt, ClientAt, NoJob,
        sizes, counts, hashes, locks, local, own, hist
<1>1. /\ at[a] = "clean" /\ w \in thread_die_hash /\ at[w] # "exiting"
      /\ thread_die_hash' = thread_die_hash \ {w}
      /\ thread' = [thread EXCEPT ![a] = w] /\ at' = [at EXCEPT ![a] = "reap"]
      /\ UNCHANGED <<sizes, state, q, thread_hash, locks, ret, need, own, hist>>
  BY DEF CleanJoin, MoveTo
<1>2. a # w
  BY <1>1 DEF Leaving, Ending
<1>3. PoolTypes'
  BY <1>1, <1>2 DEF PoolTypes
<1>4. LocksHeld'
  BY <1>1, <1>2 DEF PoolTypes, LocksHeld
<1>5. InLoop'
  BY <1>1, <1>2 DEF PoolTypes, InLoop
<1>6. Returns'
  BY <1>1, <1>2, ZenonT(60) DEF PoolTypes, Returns
<1>7. Down'
  BY <1>1, <1>2 DEF PoolTypes, Down, Returns
<1>8. Leaving'
  BY <1>1, <1>2 DEF PoolTypes, Leaving, Ending
<1>9. Reaping'
  <2>1. \A b \in Actors : at'[b] = "reap" => b = a
    BY <1>1 DEF PoolTypes, LocksHeld
  <2>2. thread'[a] = w /\ at'[w] = at[w] /\ w \notin thread_die_hash' /\ Ending(w)
    BY <1>1, <1>2 DEF PoolTypes, Leaving
  <2> QED
    BY <1>1, <2>1, <2>2 DEF Reaping, Ending
<1>10. Recorded'
  BY <1>1, <1>2 DEF PoolTypes, Recorded
<1>11. JobsHeld'
  BY <1>1, <1>2 DEF PoolTypes, JobsHeld
<1> QED
  BY <1>3, <1>4, <1>5, <1>6, <1>7, <1>8, <1>9, <1>10, <1>11

\* Freeing the joined thread: nobody else had it in hand.
LEMMA CleanReapKeeps ==
    ASSUME Control, NEW a \in Actors, CleanReap(a) PROVE Control'
<1> USE OwnerIsClient, PoolNames, PoolBounds
    DEF Control, Actors, CheckAt, WorkerAt, ClientAt, NoJob,
        sizes, counts, hashes, locks, local, own, hist
<1>1. /\ at[a] = "reap" /\ hash_mutex = None
      /\ thread_hash' = thread_hash \ {thread[a]}
      /\ thread' = [thread EXCEPT ![a] = None]
      /\ UNCHANGED <<sizes, state, q, thread_die_hash, locks, ret, need, own, hist>>
  BY DEF CleanReap
<1>2. PICK w \in Workers : w = thread[a]
  BY <1>1 DEF PoolTypes, InLoop
<1>3. /\ w # a /\ at[w] \in {"ended", "none"} /\ w \notin thread_die_hash
      /\ at' = [at EXCEPT ![w] = "none", ![a] = "clean"]
  BY <1>1, <1>2 DEF CleanReap, Reaping, Ending
<1>4. /\ at'[w] = "none" /\ at'[a] = "clean" /\ thread'[a] = None
      /\ \A b \in Actors \ {a} : thread'[b] = thread[b]
      /\ \A b \in Actors \ {a, w} : at'[b] = at[b]
  BY <1>1, <1>3 DEF PoolTypes
<1>5. PoolTypes'
  BY <1>1, <1>2, <1>3, <1>4 DEF PoolTypes
<1>6. LocksHeld'
  BY <1>1, <1>2, <1>3, <1>4, ZenonT(60) DEF PoolTypes, LocksHeld
<1>7. InLoop'
  BY <1>1, <1>3, <1>4 DEF PoolTypes, InLoop
<1>8. Returns'
  BY <1>1, <1>3, <1>4, ReturnsKept DEF PoolTypes
<1>9. Down'
  BY <1>1, <1>2, <1>3, <1>4 DEF PoolTypes, Down, Returns
<1>10. Leaving'
  <2>1. \A v \in thread_die_hash : v # w /\ v # a
    BY <1>1, <1>3 DEF Leaving, Ending
  <2> QED
    BY <1>1, <1>3, <1>4, <2>1, ZenonT(60) DEF PoolTypes, Leaving, Ending
<1>11. Reaping'
  BY <1>1, <1>3, <1>4, ZenonT(60) DEF LocksHeld, Reaping
<1>12. Recorded'
  <2>1. SUFFICES ASSUME NEW v \in Workers, at'[v] # "none", v \notin thread_hash'
                 PROVE  \E b \in Actors : at'[b] = "record" /\ thread'[b] = v
    BY <1>1, <1>3, <1>4 DEF Recorded
  <2>2. PICK b \in Actors : at[b] = "record" /\ thread[b] = v
    BY <1>1, <1>2, <1>3, <1>4, <2>1 DEF Recorded
  <2> QED
    BY <1>1, <1>3, <1>4, <2>2
<1>13. JobsHeld'
  BY <1>1, <1>2, <1>3, <1>4, ZenonT(60) DEF PoolTypes, JobsHeld
<1> QED
  BY <1>5, <1>6, <1>7, <1>8, <1>9, <1>10, <1>11, <1>12, <1>13

\* Deciding how many threads to start, and leaving tp->mutex.
LEMMA CheckCountKeeps ==
    ASSUME Control, Counters, NEW a \in Actors, CheckCount(a) PROVE Control'
<1> USE OwnerIsClient, PoolNames, PoolBounds
    DEF Control, Actors, CheckAt, WorkerAt, ClientAt, NoJob,
        sizes, counts, hashes, locks, local, own, hist
<1> DEFINE n == Missing(ret[a] = "ready")
<1>n. n \in Nat /\ n <= min + 1
  BY DEF Missing, PoolTypes, Counters
<1>m. /\ at[a] = "clean" /\ thread_die_hash = {}
      /\ need' = [need EXCEPT ![a] = n] /\ mutex' = None
      /\ at' = [at EXCEPT ![a] = IF n > 0 THEN "create" ELSE ret[a]]
      /\ UNCHANGED <<sizes, state, q, hashes, state_mutex, hash_mutex, ret, thread, own, hist>>
  BY DEF CheckCount, MoveTo
<1> HIDE DEF n
<1>1. CASE n > 0
  <2>1. /\ at[a] = "clean" /\ thread_die_hash = {} /\ n \in Nat /\ n <= min + 1
        /\ need' = [need EXCEPT ![a] = n] /\ mutex' = None
        /\ at' = [at EXCEPT ![a] = "create"]
        /\ UNCHANGED <<sizes, state, q, hashes, state_mutex, hash_mutex, ret, thread, own, hist>>
    BY <1>1, <1>n, <1>m
  <2>2. PoolTypes'
    BY <1>1, <2>1 DEF PoolTypes
  <2>3. LocksHeld'
    BY <1>1, <2>1 DEF PoolTypes, LocksHeld
  <2>4. InLoop'
    BY <1>1, <2>1 DEF PoolTypes, InLoop
  <2>5. Returns'
    BY <1>1, <2>1, SMTT(40) DEF PoolTypes, Returns
  <2>6. Down'
    BY <1>1, <2>1 DEF PoolTypes, Down, Returns
  <2>7. Leaving'
    BY <1>1, <2>1 DEF PoolTypes, Leaving, Ending
  <2>8. Reaping'
    BY <1>1, <2>1 DEF PoolTypes, InLoop, Reaping, Ending
  <2>9. Recorded'
    BY <1>1, <2>1 DEF PoolTypes, Recorded
  <2>10. JobsHeld'
    BY <1>1, <2>1 DEF PoolTypes, JobsHeld
  <2> QED
    BY <2>2, <2>3, <2>4, <2>5, <2>6, <2>7, <2>8, <2>9, <2>10
<1>2. CASE n = 0
  <2>1. /\ at[a] = "clean" /\ thread_die_hash = {}
        /\ need' = [need EXCEPT ![a] = 0] /\ mutex' = None
        /\ at' = [at EXCEPT ![a] = ret[a]]
        /\ UNCHANGED <<sizes, state, q, hashes, state_mutex, hash_mutex, ret, thread, own, hist>>
    BY <1>2, <1>n, <1>m
  <2>2. /\ a \in Workers => ret[a] \in {"busy", "idle"}
        /\ a \in Clients => ret[a] \in {"created", "ready"}
    BY <2>1, ReturnsWhere
  <2>3. PoolTypes'
    BY <1>2, <2>1, <2>2 DEF PoolTypes
  <2>4. LocksHeld'
    BY <1>2, <2>1, <2>2 DEF PoolTypes, LocksHeld
  <2>5. InLoop'
    <3>1. /\ at'[a] = ret[a] /\ need'[a] = 0
        /\ \A b \in Actors \ {a} : at'[b] = at[b] /\ need'[b] = need[b]
      BY <2>1 DEF PoolTypes
    <3>2. min' = min /\ min \in Nat /\ \A b \in Actors : need[b] \in Nat
      BY <2>1 DEF PoolTypes
    <3> QED
      BY <2>1, <2>2, <3>1, <3>2 DEF InLoop
  <2>6. Returns'
    BY <2>1, ReturnsToCaller DEF Returns
  <2>7. Down'
    BY <1>2, <2>1, <2>2 DEF PoolTypes, Down, Returns
  <2>8. Leaving'
    BY <1>2, <2>1, <2>2 DEF PoolTypes, Leaving, Ending
  <2>9. Reaping'
    BY <1>2, <2>1, <2>2, ZenonT(60) DEF PoolTypes, InLoop, Reaping, Ending
  <2>10. Recorded'
    BY <1>2, <2>1, <2>2 DEF PoolTypes, Recorded
  <2>11. JobsHeld'
    BY <1>2, <2>1, <2>2 DEF PoolTypes, JobsHeld
  <2> QED
    BY <2>3, <2>4, <2>5, <2>6, <2>7, <2>8, <2>9, <2>10, <2>11
<1> QED
  BY <1>1, <1>2, <1>n

\* Taking tp->state_mutex to start a thread or to give up.
LEMMA CreateEnterKeeps ==
    ASSUME Control, NEW a \in Actors, CreateEnter(a) PROVE Control'
<1> USE OwnerIsClient, PoolNames, PoolBounds
    DEF Control, Actors, CheckAt, WorkerAt, ClientAt, NoJob,
        sizes, counts, hashes, locks, local, own, hist
<1>1. CASE state = "RUNNING"
  <2>1. /\ at[a] = "create" /\ state_mutex = None
        /\ at' = [at EXCEPT ![a] = "spawn"] /\ state_mutex' = a
        /\ UNCHANGED <<sizes, state, q, hashes, mutex, hash_mutex, local, own, hist>>
    BY <1>1 DEF CreateEnter, MoveTo
  <2>2. PoolTypes'
    BY <1>1, <2>1 DEF PoolTypes
  <2>3. LocksHeld'
    BY <1>1, <2>1 DEF PoolTypes, LocksHeld
  <2>4. InLoop'
    BY <1>1, <2>1 DEF PoolTypes, InLoop
  <2>5. Returns'
    BY <1>1, <2>1 DEF PoolTypes, Returns
  <2>6. Down'
    BY <1>1, <2>1 DEF PoolTypes, Down, Returns
  <2>7. Leaving'
    BY <1>1, <2>1 DEF PoolTypes, Leaving, Ending
  <2>8. Reaping'
    BY <1>1, <2>1 DEF PoolTypes, InLoop, Reaping, Ending
  <2>9. Recorded'
    BY <1>1, <2>1 DEF PoolTypes, Recorded
  <2>10. JobsHeld'
    BY <1>1, <2>1 DEF PoolTypes, JobsHeld
  <2> QED
    BY <2>2, <2>3, <2>4, <2>5, <2>6, <2>7, <2>8, <2>9, <2>10
<1>2. CASE state # "RUNNING"
  <2>1. /\ at[a] = "create" /\ state_mutex = None
        /\ at' = [at EXCEPT ![a] = "giveup"] /\ state_mutex' = a
        /\ UNCHANGED <<sizes, state, q, hashes, mutex, hash_mutex, local, own, hist>>
    BY <1>2 DEF CreateEnter, MoveTo
  <2>2. PoolTypes'
    BY <1>2, <2>1 DEF PoolTypes
  <2>3. LocksHeld'
    BY <1>2, <2>1 DEF PoolTypes, LocksHeld
  <2>4. InLoop'
    BY <1>2, <2>1 DEF PoolTypes, InLoop
  <2>5. Returns'
    BY <1>2, <2>1 DEF PoolTypes, Returns
  <2>6. Down'
    BY <1>2, <2>1 DEF PoolTypes, Down, Returns
  <2>7. Leaving'
    BY <1>2, <2>1 DEF PoolTypes, Leaving, Ending
  <2>8. Reaping'
    BY <1>2, <2>1 DEF PoolTypes, InLoop, Reaping, Ending
  <2>9. Recorded'
    BY <1>2, <2>1 DEF PoolTypes, Recorded
  <2>10. JobsHeld'
    BY <1>2, <2>1 DEF PoolTypes, JobsHeld
  <2> QED
    BY <2>2, <2>3, <2>4, <2>5, <2>6, <2>7, <2>8, <2>9, <2>10
<1> QED
  BY <1>1, <1>2

\* Giving up because the pool went down.
LEMMA CreateGiveUpKeeps ==
    ASSUME Control, NEW a \in Actors, CreateGiveUp(a) PROVE Control'
<1> USE OwnerIsClient, PoolNames, PoolBounds
    DEF Control, Actors, CheckAt, WorkerAt, ClientAt, NoJob,
        sizes, counts, hashes, locks, local, own, hist
<1>1. /\ at[a] = "giveup" /\ mutex = None
      /\ at' = [at EXCEPT ![a] = ret[a]] /\ need' = [need EXCEPT ![a] = 0]
      /\ state_mutex' = None
      /\ UNCHANGED <<sizes, state, q, hashes, mutex, hash_mutex, ret, thread, own, hist>>
  BY DEF CreateGiveUp, MoveTo
<1>2. /\ a \in Workers => ret[a] \in {"busy", "idle"}
      /\ a \in Clients => ret[a] \in {"created", "ready"}
  BY <1>1, ReturnsWhere
<1>3. PoolTypes'
  BY <1>1, <1>2 DEF PoolTypes
<1>4. LocksHeld'
  BY <1>1, <1>2 DEF PoolTypes, LocksHeld
<1>5. InLoop'
  BY <1>1, <1>2, SMTT(40) DEF PoolTypes, InLoop
<1>6. Returns'
  BY <1>1, ReturnsToCaller DEF Returns
<1>7. Down'
  BY <1>1, <1>2 DEF PoolTypes, Down, Returns
<1>8. Leaving'
  BY <1>1, <1>2 DEF PoolTypes, Leaving, Ending
<1>9. Reaping'
  BY <1>1, <1>2, SMTT(40) DEF PoolTypes, InLoop, Reaping, Ending
<1>10. Recorded'
  BY <1>1, <1>2 DEF PoolTypes, Recorded
<1>11. JobsHeld'
  BY <1>1, <1>2 DEF PoolTypes, JobsHeld
<1> QED
  BY <1>3, <1>4, <1>5, <1>6, <1>7, <1>8, <1>9, <1>10, <1>11

\* Starting a worker on a handle that nobody uses.
LEMMA SpawnKeeps ==
    ASSUME Control, NEW a \in Actors, NEW w \in Workers, Spawn(a, w) PROVE Control'
<1> USE OwnerIsClient, PoolNames, PoolBounds
    DEF Control, Actors, CheckAt, WorkerAt, ClientAt, NoJob,
        sizes, counts, hashes, locks, local, own, hist
<1>1. /\ at[a] = "spawn" /\ at[w] = "none" /\ a # w
      /\ at' = [at EXCEPT ![w] = "start", ![a] = "record"] /\ thread' = [thread EXCEPT ![a] = w]
      /\ UNCHANGED <<sizes, state, q, hashes, locks, ret, need, own, hist>>
  BY DEF Spawn
<1>2. /\ at'[w] = "start" /\ at'[a] = "record" /\ thread'[a] = w
      /\ \A b \in Actors \ {a} : thread'[b] = thread[b]
      /\ \A b \in Actors \ {a, w} : at'[b] = at[b]
  BY <1>1 DEF PoolTypes
<1>3. state # "DOWN" /\ w \notin thread_die_hash /\ a \notin thread_die_hash
  BY <1>1 DEF Down, Leaving, Ending
<1>4. PoolTypes'
  BY <1>1 DEF PoolTypes
<1>5. LocksHeld'
  BY <1>1, <1>2, <1>3, ZenonT(60) DEF PoolTypes, LocksHeld
<1>6. InLoop'
  BY <1>1, <1>2, ZenonT(60) DEF PoolTypes, InLoop
<1>7. Returns'
  BY <1>1, <1>2, ReturnsKept
<1>8. Down'
  BY <1>1, <1>2, <1>3 DEF PoolTypes, Down, Returns
<1>9. Leaving'
  BY <1>1, <1>2, <1>3, ZenonT(60) DEF PoolTypes, Leaving, Ending
<1>10. Reaping'
  BY <1>1, <1>2, <1>3, ReapingKept DEF Ending
<1>11. Recorded'
  BY <1>1, <1>2, <1>3 DEF PoolTypes, Recorded
<1>12. JobsHeld'
  BY <1>1, <1>2, <1>3, ZenonT(60) DEF PoolTypes, JobsHeld
<1> QED
  BY <1>4, <1>5, <1>6, <1>7, <1>8, <1>9, <1>10, <1>11, <1>12

\* The system refuses to start a thread.
LEMMA SpawnFailsKeeps ==
    ASSUME Control, NEW a \in Actors, SpawnFails(a) PROVE Control'
<1> USE OwnerIsClient, PoolNames, PoolBounds
    DEF Control, Actors, CheckAt, WorkerAt, ClientAt, NoJob,
        sizes, counts, hashes, locks, local, own, hist
<1>1. /\ at[a] = "spawn" /\ failures < MaxFailures
      /\ at' = [at EXCEPT ![a] = "uncount"] /\ failures' = failures + 1
      /\ UNCHANGED <<sizes, state, q, hashes, locks, local, own, added, ran>>
  BY DEF SpawnFails, MoveTo
<1>2. PoolTypes'
  BY <1>1, SMTT(40) DEF PoolTypes
<1>3. LocksHeld'
  BY <1>1 DEF PoolTypes, LocksHeld
<1>4. InLoop'
  BY <1>1 DEF PoolTypes, InLoop
<1>5. Returns'
  BY <1>1 DEF PoolTypes, Returns
<1>6. Down'
  BY <1>1 DEF PoolTypes, Down, Returns
<1>7. Leaving'
  BY <1>1 DEF PoolTypes, Leaving, Ending
<1>8. Reaping'
  BY <1>1, ZenonT(60) DEF PoolTypes, InLoop, Reaping, Ending
<1>9. Recorded'
  BY <1>1 DEF PoolTypes, Recorded
<1>10. JobsHeld'
  BY <1>1 DEF PoolTypes, JobsHeld
<1> QED
  BY <1>2, <1>3, <1>4, <1>5, <1>6, <1>7, <1>8, <1>9, <1>10

\* Taking a thread that was not started out of the count.
LEMMA UncountKeeps ==
    ASSUME Control, NEW a \in Actors, Uncount(a) PROVE Control'
<1> USE OwnerIsClient, PoolNames, PoolBounds
    DEF Control, Actors, CheckAt, WorkerAt, ClientAt, NoJob,
        sizes, counts, hashes, locks, local, own, hist
<1>1. CASE need[a] > 1
  <2>1. /\ at[a] = "uncount" /\ mutex = None
        /\ state_mutex' = None /\ need' = [need EXCEPT ![a] = @ - 1] /\ at' = [at EXCEPT ![a] = "create"]
        /\ UNCHANGED <<sizes, state, q, hashes, mutex, hash_mutex, ret, thread, own, hist>>
    BY <1>1 DEF Uncount, NextCreate, MoveTo
  <2>2. PoolTypes'
    BY <1>1, <2>1, SMTT(40) DEF PoolTypes
  <2>3. LocksHeld'
    BY <1>1, <2>1 DEF PoolTypes, LocksHeld
  <2>4. InLoop'
    BY <1>1, <2>1, SMTT(40) DEF PoolTypes, InLoop
  <2>5. Returns'
    BY <1>1, <2>1, SMTT(40) DEF PoolTypes, Returns
  <2>6. Down'
    BY <1>1, <2>1 DEF PoolTypes, Down, Returns
  <2>7. Leaving'
    BY <1>1, <2>1 DEF PoolTypes, Leaving, Ending
  <2>8. Reaping'
    BY <1>1, <2>1 DEF PoolTypes, InLoop, Reaping, Ending
  <2>9. Recorded'
    BY <1>1, <2>1 DEF PoolTypes, Recorded
  <2>10. JobsHeld'
    BY <1>1, <2>1 DEF PoolTypes, JobsHeld
  <2> QED
    BY <2>2, <2>3, <2>4, <2>5, <2>6, <2>7, <2>8, <2>9, <2>10
<1>2. CASE ~(need[a] > 1)
  <2>1. /\ at[a] = "uncount" /\ mutex = None
        /\ state_mutex' = None /\ need' = [need EXCEPT ![a] = @ - 1] /\ at' = [at EXCEPT ![a] = ret[a]]
        /\ UNCHANGED <<sizes, state, q, hashes, mutex, hash_mutex, ret, thread, own, hist>>
    BY <1>2 DEF Uncount, NextCreate, MoveTo
  <2>2. /\ a \in Workers => ret[a] \in {"busy", "idle"}
        /\ a \in Clients => ret[a] \in {"created", "ready"}
    BY <2>1, ReturnsWhere
  <2>3. need[a] = 1
    BY <1>2, <2>1 DEF InLoop, PoolTypes
  <2>4. PoolTypes'
    BY <1>2, <2>1, <2>2, <2>3, SMTT(40) DEF PoolTypes
  <2>5. LocksHeld'
    BY <1>2, <2>1, <2>2, <2>3 DEF PoolTypes, LocksHeld
  <2>6. InLoop'
    BY <1>2, <2>1, <2>2, <2>3, SMTT(40) DEF PoolTypes, InLoop
  <2>7. Returns'
    BY <2>1, ReturnsToCaller DEF Returns
  <2>8. Down'
    BY <1>2, <2>1, <2>2, <2>3 DEF PoolTypes, Down, Returns
  <2>9. Leaving'
    BY <1>2, <2>1, <2>2, <2>3 DEF PoolTypes, Leaving, Ending
  <2>10. Reaping'
    BY <1>2, <2>1, <2>2, <2>3, SMTT(40) DEF PoolTypes, InLoop, Reaping, Ending
  <2>11. Recorded'
    BY <1>2, <2>1, <2>2, <2>3 DEF PoolTypes, Recorded
  <2>12. JobsHeld'
    BY <1>2, <2>1, <2>2, <2>3 DEF PoolTypes, JobsHeld
  <2> QED
    BY <2>4, <2>5, <2>6, <2>7, <2>8, <2>9, <2>10, <2>11, <2>12
<1> QED
  BY <1>1, <1>2

\* Putting the started thread into thread_hash.
LEMMA RecordKeeps ==
    ASSUME Control, NEW a \in Actors, Record(a) PROVE Control'
<1> USE OwnerIsClient, PoolNames, PoolBounds
    DEF Control, Actors, CheckAt, WorkerAt, ClientAt, NoJob,
        sizes, counts, hashes, locks, local, own, hist
<1>1. CASE need[a] > 1
  <2>1. /\ at[a] = "record" /\ hash_mutex = None
        /\ thread_hash' = thread_hash \cup {thread[a]} /\ state_mutex' = None
        /\ UNCHANGED <<sizes, state, q, thread_die_hash, mutex, hash_mutex, ret, own, hist>>
    BY <1>1 DEF Record, NextCreate, MoveTo
  <2>2. /\ thread' = [thread EXCEPT ![a] = None] /\ need' = [need EXCEPT ![a] = @ - 1]
        /\ at' = [at EXCEPT ![a] = "create"]
    BY <1>1 DEF Record, NextCreate, MoveTo
  <2>3. /\ at'[a] = "create" /\ thread'[a] = None /\ need'[a] = need[a] - 1
        /\ \A b \in Actors \ {a} : at'[b] = at[b] /\ thread'[b] = thread[b] /\ need'[b] = need[b]
    BY <2>2 DEF PoolTypes
  <2>4. thread[a] \in Workers
    BY <2>1 DEF InLoop, PoolTypes
  <2>5. need[a] \in Nat /\ need[a] > 1
    BY <1>1, <2>1 DEF InLoop, PoolTypes
  <2>6. PoolTypes'
    <3>1. at' \in [Actors -> WorkerAt \cup ClientAt]
      BY <2>2 DEF PoolTypes
    <3>2. (\A v \in Workers : at'[v] \in WorkerAt) /\ (\A c \in Clients : at'[c] \in ClientAt)
      BY <2>3 DEF PoolTypes
    <3>3. need' \in [Actors -> Nat]
      BY <2>2, <2>5, SMTT(40) DEF PoolTypes
    <3>4. thread' \in [Actors -> Workers \cup {None}] /\ thread_hash' \subseteq Workers
      BY <2>1, <2>2, <2>4 DEF PoolTypes
    <3> QED
      BY <2>1, <3>1, <3>2, <3>3, <3>4 DEF PoolTypes
  <2>7. LocksHeld'
    BY <2>1, <2>3 DEF LocksHeld
  <2>8. InLoop'
    <3>1. min' = min /\ min \in Nat /\ \A b \in Actors : need[b] \in Nat
      BY <2>1 DEF PoolTypes
    <3> QED
      BY <2>1, <2>3, <2>5, <3>1 DEF InLoop
  <2>9. Returns'
    BY <2>1, <2>3, ReturnsKept
  <2>10. Down'
    BY <2>1, <2>3, <2>4 DEF PoolTypes, Down, Returns
  <2>11. Leaving'
    BY <2>1, <2>3, <2>4, ZenonT(60) DEF PoolTypes, Leaving, Ending
  <2>12. Reaping'
    BY <2>1, <2>3, ReapingKept DEF Ending
  <2>13. Recorded'
    <3>1. \A v \in Workers : at'[v] # "none" => at[v] # "none"
      BY <2>1, <2>3
    <3>2. \A b \in Actors : at[b] = "record" /\ b # a => at'[b] = "record" /\ thread'[b] = thread[b]
      BY <2>3
    <3>3. at'[Owner] # "destroyed"
      BY <2>1, <2>3 DEF Recorded, Down
    <3> QED
      BY <2>1, <3>1, <3>2, <3>3 DEF Recorded
  <2>14. JobsHeld'
    BY <2>1, <2>3, <2>4 DEF PoolTypes, JobsHeld
  <2> QED
    BY <2>6, <2>7, <2>8, <2>9, <2>10, <2>11, <2>12, <2>13, <2>14
<1>2. CASE ~(need[a] > 1)
  <2>1. /\ at[a] = "record" /\ hash_mutex = None
        /\ thread_hash' = thread_hash \cup {thread[a]} /\ state_mutex' = None
        /\ UNCHANGED <<sizes, state, q, thread_die_hash, mutex, hash_mutex, ret, own, hist>>
    BY <1>2 DEF Record, NextCreate, MoveTo
  <2>2. /\ thread' = [thread EXCEPT ![a] = None] /\ need' = [need EXCEPT ![a] = @ - 1]
        /\ at' = [at EXCEPT ![a] = ret[a]]
    BY <1>2 DEF Record, NextCreate, MoveTo
  <2>3. /\ at'[a] = ret[a] /\ thread'[a] = None /\ need'[a] = need[a] - 1
        /\ \A b \in Actors \ {a} : at'[b] = at[b] /\ thread'[b] = thread[b] /\ need'[b] = need[b]
    BY <2>2 DEF PoolTypes
  <2>4. thread[a] \in Workers
    BY <2>1 DEF InLoop, PoolTypes
  <2>5. need[a] \in Nat /\ need[a] = 1
    BY <1>2, <2>1 DEF InLoop, PoolTypes
  <2>6. /\ a \in Workers => ret[a] \in {"busy", "idle"}
        /\ a \in Clients => ret[a] \in {"created", "ready"}
    BY <2>1, ReturnsWhere
  <2>7. PoolTypes'
    <3>1. at' \in [Actors -> WorkerAt \cup ClientAt]
      BY <2>2, <2>6 DEF PoolTypes
    <3>2. (\A v \in Workers : at'[v] \in WorkerAt) /\ (\A c \in Clients : at'[c] \in ClientAt)
      BY <2>3, <2>6, ZenonT(60) DEF PoolTypes
    <3>3. need' \in [Actors -> Nat]
      BY <2>2, <2>5 DEF PoolTypes
    <3>4. thread' \in [Actors -> Workers \cup {None}] /\ thread_hash' \subseteq Workers
      BY <2>1, <2>2, <2>4 DEF PoolTypes
    <3> QED
      BY <2>1, <3>1, <3>2, <3>3, <3>4 DEF PoolTypes
  <2>8. LocksHeld'
    BY <2>1, <2>3, <2>6 DEF LocksHeld
  <2>9. InLoop'
    <3>1. min' = min /\ min \in Nat /\ \A b \in Actors : need[b] \in Nat
      BY <2>1 DEF PoolTypes
    <3> QED
      BY <2>1, <2>3, <2>5, <2>6, <3>1 DEF InLoop
  <2>10. Returns'
    BY <2>1, <2>2, ReturnsToCaller
  <2>11. Down'
    BY <2>1, <2>3, <2>4, <2>6 DEF PoolTypes, Down, Returns
  <2>12. Leaving'
    BY <2>1, <2>3, <2>4, <2>6, ZenonT(60) DEF PoolTypes, Leaving, Ending
  <2>13. Reaping'
    BY <2>1, <2>3, <2>6, ReapingKept DEF Ending
  <2>14. Recorded'
    <3>1. \A v \in Workers : at'[v] # "none" => at[v] # "none"
      BY <2>1, <2>3
    <3>2. \A b \in Actors : at[b] = "record" /\ b # a => at'[b] = "record" /\ thread'[b] = thread[b]
      BY <2>3
    <3>3. at'[Owner] # "destroyed"
      BY <2>1, <2>3, <2>6 DEF Recorded, Down
    <3> QED
      BY <2>1, <3>1, <3>2, <3>3 DEF Recorded
  <2>15. JobsHeld'
    BY <2>1, <2>3, <2>4, <2>6, ZenonT(60) DEF PoolTypes, JobsHeld
  <2> QED
    BY <2>7, <2>8, <2>9, <2>10, <2>11, <2>12, <2>13, <2>14, <2>15
<1> QED
  BY <1>1, <1>2

\* A worker that moves on within worker_thread, outside check_queue, and
\* touches neither the locks nor the hashes leaves the rest in order.
LEMMA MovesKeep ==
    ASSUME Control, NEW w \in Workers,
           NEW to \in {"loop", "pop", "popwait", "maydie", "run", "exit"},
           at[w] \in {"start", "loop", "pop", "popwait", "idle", "maydie", "busy", "unbusy"},
           to = "run" <=> at[w] = "busy",
           at' = [at EXCEPT ![w] = to],
           idle' \in [Workers -> 0 .. IdleTicks], die' \in [Workers -> BOOLEAN],
           \A v \in Workers : die'[v] => die[v] \/ (v = w /\ to = "exit"),
           UNCHANGED <<sizes, state, q, hashes, locks, local, job, hist>>
    PROVE  Control'
<1> USE OwnerIsClient, PoolNames, PoolBounds
    DEF Control, Actors, CheckAt, WorkerAt, ClientAt, NoJob,
        sizes, counts, hashes, locks, local, own, hist
<1>p. at'[w] = to /\ \A b \in Actors \ {w} : at'[b] = at[b]
  BY DEF PoolTypes
<1>1. PoolTypes'
  <2>1. at' \in [Actors -> WorkerAt \cup ClientAt]
    BY DEF PoolTypes
  <2>2. \A v \in Workers : at'[v] \in WorkerAt
    BY <1>p DEF PoolTypes
  <2>3. \A c \in Clients : at'[c] \in ClientAt
    BY <1>p DEF PoolTypes
  <2> QED
    BY <2>1, <2>2, <2>3 DEF PoolTypes
<1>2. LocksHeld'
  BY DEF PoolTypes, LocksHeld
<1>3. InLoop'
  BY DEF PoolTypes, InLoop
<1>4. Returns'
  BY ZenonT(60) DEF PoolTypes, Returns
<1>5. Down'
  BY DEF PoolTypes, Down
<1>6. Leaving'
  BY DEF PoolTypes, Leaving, Ending
<1>7. Reaping'
  BY <1>p, ReapingKept DEF Ending
<1>8. Recorded'
  BY DEF PoolTypes, Recorded
<1>9. JobsHeld'
  BY ZenonT(60) DEF PoolTypes, JobsHeld
<1> QED
  BY <1>1, <1>2, <1>3, <1>4, <1>5, <1>6, <1>7, <1>8, <1>9

\* The steps of worker_thread that only move on.
LEMMA WorkerMovesKeep ==
    ASSUME Control, NEW w \in Workers,
           \/ Start(w) \/ Loop(w) \/ PopSleep(w) \/ PopBreak(w)
           \/ IdleTick(w) \/ MayDie(w) \/ Busy(w) \/ Unbusy(w)
    PROVE  Control'
<1>t. /\ idle \in [Workers -> 0 .. IdleTicks] /\ die \in [Workers -> BOOLEAN]
      /\ IdleTicks \in Nat
  BY PoolBounds DEF Control, PoolTypes
<1> USE DEF MoveTo, sizes, counts, hashes, locks, local, own, hist
<1>1. CASE Start(w)
  BY <1>1, <1>t, MovesKeep DEF Start
<1>2. CASE Loop(w)
  BY <1>2, <1>t, MovesKeep DEF Loop
<1>3. CASE PopSleep(w)
  BY <1>3, <1>t, MovesKeep DEF PopSleep
<1>4. CASE PopBreak(w)
  BY <1>4, <1>t, MovesKeep DEF PopBreak
<1>5. CASE IdleTick(w)
  <2>1. idle' \in [Workers -> 0 .. IdleTicks]
    BY <1>5, <1>t, MovesKeep DEF IdleTick
  <2>2. PICK to \in {"loop", "maydie"} : at' = [at EXCEPT ![w] = to]
    BY <1>5 DEF IdleTick
  <2> QED
    BY <1>5, <1>t, MovesKeep, <2>1, <2>2 DEF IdleTick
<1>6. CASE MayDie(w)
  <2>1. /\ at[w] = "maydie" /\ UNCHANGED <<sizes, state, q, hashes, locks, local, job, idle, hist>>
        /\ \/ die' = [die EXCEPT ![w] = TRUE] /\ at' = [at EXCEPT ![w] = "exit"]
           \/ die' = die /\ at' = [at EXCEPT ![w] = "loop"]
    BY <1>6 DEF MayDie
  <2>2. CASE die' = [die EXCEPT ![w] = TRUE] /\ at' = [at EXCEPT ![w] = "exit"]
    BY <1>t, <2>1, MovesKeep, <2>2
  <2>3. CASE die' = die /\ at' = [at EXCEPT ![w] = "loop"]
    BY <1>t, <2>1, MovesKeep, <2>3
  <2> QED
    BY <2>1, <2>2, <2>3
<1>7. CASE Busy(w)
  <2>1. idle' \in [Workers -> 0 .. IdleTicks]
    BY <1>7, <1>t DEF Busy
  <2> QED
    BY <1>7, <1>t, MovesKeep, <2>1 DEF Busy
<1>8. CASE Unbusy(w)
  BY <1>8, <1>t, MovesKeep DEF Unbusy
<1> QED
  BY <1>1, <1>2, <1>3, <1>4, <1>5, <1>6, <1>7, <1>8

\* Taking a job from the queue.
LEMMA PopKeeps ==
    ASSUME Control, NEW w \in Workers, Pop(w) PROVE Control'
<1> USE OwnerIsClient, PoolNames, PoolBounds
    DEF Control, Actors, CheckAt, WorkerAt, ClientAt, NoJob,
        sizes, counts, hashes, locks, local, own, hist
<1>1. /\ at[w] \in {"pop", "popwait"}
      /\ at' = [at EXCEPT ![w] = "check"] /\ ret' = [ret EXCEPT ![w] = "busy"]
      /\ UNCHANGED <<sizes, state, hashes, locks, need, thread, idle, die, hist>>
  BY DEF Pop, CallCheck, MoveTo
<1>2. q # <<>> /\ q' = Tail(q) /\ job' = [job EXCEPT ![w] = Head(q)]
  BY DEF Pop
<1>3. Head(q) \in 1 .. MaxJobs /\ q' \in Seq(1 .. MaxJobs)
      /\ \A i \in DOMAIN q' : i + 1 \in DOMAIN q /\ q'[i] = q[i + 1]
  BY <1>2, SMTT(40) DEF PoolTypes
<1>4. /\ job' \in [Workers -> 0 .. MaxJobs] /\ job'[w] # NoJob
      /\ \A v \in Workers \ {w} : job'[v] = job[v]
  BY <1>2, <1>3, SMTT(40) DEF PoolTypes
<1>5. PoolTypes'
  BY <1>1, <1>3, <1>4 DEF PoolTypes
<1>6. LocksHeld'
  BY <1>1 DEF PoolTypes, LocksHeld
<1>7. InLoop'
  BY <1>1 DEF PoolTypes, InLoop
<1>8. Returns'
  BY <1>1 DEF PoolTypes, Returns
<1>9. Down'
  BY <1>1 DEF PoolTypes, Down, Returns
<1>10. Leaving'
  BY <1>1 DEF PoolTypes, Leaving, Ending
<1>11. Reaping'
  BY <1>1, ZenonT(60) DEF PoolTypes, InLoop, Reaping, Ending
<1>12. Recorded'
  BY <1>1 DEF PoolTypes, Recorded
<1>13. JobsHeld'
  BY <1>1, <1>3, <1>4, ZenonT(60) DEF PoolTypes, JobsHeld
<1> QED
  BY <1>5, <1>6, <1>7, <1>8, <1>9, <1>10, <1>11, <1>12, <1>13

\* Timing out on the queue.
LEMMA PopTimeoutKeeps ==
    ASSUME Control, NEW w \in Workers, PopTimeout(w) PROVE Control'
<1> USE OwnerIsClient, PoolNames, PoolBounds
    DEF Control, Actors, CheckAt, WorkerAt, ClientAt, NoJob,
        sizes, counts, hashes, locks, local, own, hist
<1>1. /\ at[w] = "popwait"
      /\ at' = [at EXCEPT ![w] = "check"] /\ ret' = [ret EXCEPT ![w] = "idle"]
      /\ UNCHANGED <<sizes, state, q, hashes, locks, need, thread, own, hist>>
  BY DEF PopTimeout, CallCheck, MoveTo
<1>2. PoolTypes'
  BY <1>1 DEF PoolTypes
<1>3. LocksHeld'
  BY <1>1 DEF PoolTypes, LocksHeld
<1>4. InLoop'
  BY <1>1 DEF PoolTypes, InLoop
<1>5. Returns'
  BY <1>1, SMTT(40) DEF PoolTypes, Returns
<1>6. Down'
  BY <1>1 DEF PoolTypes, Down, Returns
<1>7. Leaving'
  BY <1>1 DEF PoolTypes, Leaving, Ending
<1>8. Reaping'
  BY <1>1 DEF PoolTypes, InLoop, Reaping, Ending
<1>9. Recorded'
  BY <1>1 DEF PoolTypes, Recorded
<1>10. JobsHeld'
  BY <1>1 DEF PoolTypes, JobsHeld
<1> QED
  BY <1>2, <1>3, <1>4, <1>5, <1>6, <1>7, <1>8, <1>9, <1>10

\* The job's function returns.
LEMMA RunKeeps ==
    ASSUME Control, NEW w \in Workers, Run(w) PROVE Control'
<1> USE OwnerIsClient, PoolNames, PoolBounds
    DEF Control, Actors, CheckAt, WorkerAt, ClientAt, NoJob,
        sizes, counts, hashes, locks, local, own, hist
<1>1. /\ at[w] = "run" /\ at' = [at EXCEPT ![w] = "unbusy"]
      /\ job' = [job EXCEPT ![w] = NoJob]
      /\ UNCHANGED <<sizes, state, q, hashes, locks, local, idle, die, added, failures>>
  BY DEF Run, MoveTo
<1>2. job[w] \in 1 .. MaxJobs
  BY <1>1 DEF PoolTypes, JobsHeld
<1>3. ran' \in Seq(1 .. MaxJobs)
  BY <1>2, AppendProperties DEF PoolTypes, Run
<1>4. PoolTypes'
  BY <1>1, <1>2, <1>3, SMTT(40) DEF PoolTypes
<1>5. LocksHeld'
  BY <1>1 DEF PoolTypes, LocksHeld
<1>6. InLoop'
  BY <1>1 DEF PoolTypes, InLoop
<1>7. Returns'
  BY <1>1 DEF PoolTypes, Returns
<1>8. Down'
  BY <1>1 DEF PoolTypes, Down, Returns
<1>9. Leaving'
  BY <1>1 DEF PoolTypes, Leaving, Ending
<1>10. Reaping'
  BY <1>1 DEF PoolTypes, InLoop, Reaping, Ending
<1>11. Recorded'
  BY <1>1 DEF PoolTypes, Recorded
<1>12. JobsHeld'
  BY <1>1 DEF PoolTypes, JobsHeld
<1> QED
  BY <1>4, <1>5, <1>6, <1>7, <1>8, <1>9, <1>10, <1>11, <1>12

\* Leaving worker_thread for thread_die_hash.
LEMMA ExitKeeps ==
    ASSUME Control, NEW w \in Workers, Exit(w) PROVE Control'
<1> USE OwnerIsClient, PoolNames, PoolBounds
    DEF Control, Actors, CheckAt, WorkerAt, ClientAt, NoJob,
        sizes, counts, hashes, locks, local, own, hist
<1>1. /\ at[w] = "exit" /\ mutex = None /\ at' = [at EXCEPT ![w] = "exiting"]
      /\ thread_die_hash' = thread_die_hash \cup {w}
      /\ die' = [die EXCEPT ![w] = FALSE] /\ idle' = [idle EXCEPT ![w] = 0]
      /\ UNCHANGED <<sizes, state, q, thread_hash, locks, local, job, hist>>
  BY DEF Exit, MoveTo
<1>2. PoolTypes'
  BY <1>1 DEF PoolTypes
<1>3. LocksHeld'
  BY <1>1 DEF PoolTypes, LocksHeld
<1>4. InLoop'
  BY <1>1 DEF PoolTypes, InLoop
<1>5. Returns'
  BY <1>1 DEF PoolTypes, Returns
<1>6. Down'
  BY <1>1 DEF PoolTypes, Down, Returns
<1>7. Leaving'
  BY <1>1 DEF PoolTypes, Leaving, Ending
<1>8. Reaping'
  BY <1>1, ZenonT(60) DEF PoolTypes, InLoop, Reaping, Ending
<1>9. Recorded'
  BY <1>1 DEF PoolTypes, Recorded
<1>10. JobsHeld'
  BY <1>1 DEF PoolTypes, JobsHeld
<1> QED
  BY <1>2, <1>3, <1>4, <1>5, <1>6, <1>7, <1>8, <1>9, <1>10

\* The thread ends and can be joined.
LEMMA EndedKeeps ==
    ASSUME Control, NEW w \in Workers, Ended(w) PROVE Control'
<1> USE OwnerIsClient, PoolNames, PoolBounds
    DEF Control, Actors, CheckAt, WorkerAt, ClientAt, NoJob,
        sizes, counts, hashes, locks, local, own, hist
<1>1. /\ at[w] = "exiting" /\ at' = [at EXCEPT ![w] = "ended"]
      /\ UNCHANGED <<sizes, state, q, hashes, locks, local, own, hist>>
  BY DEF Ended, MoveTo
<1>2. PoolTypes'
  BY <1>1 DEF PoolTypes
<1>3. LocksHeld'
  BY <1>1 DEF PoolTypes, LocksHeld
<1>4. InLoop'
  BY <1>1 DEF PoolTypes, InLoop
<1>5. Returns'
  BY <1>1 DEF PoolTypes, Returns
<1>6. Down'
  BY <1>1 DEF PoolTypes, Down, Returns
<1>7. Leaving'
  BY <1>1 DEF PoolTypes, Leaving, Ending
<1>8. Reaping'
  BY <1>1 DEF PoolTypes, InLoop, Reaping, Ending
<1>9. Recorded'
  BY <1>1 DEF PoolTypes, Recorded
<1>10. JobsHeld'
  BY <1>1 DEF PoolTypes, JobsHeld
<1> QED
  BY <1>2, <1>3, <1>4, <1>5, <1>6, <1>7, <1>8, <1>9, <1>10

\* ks_thread_pool_create returns.
LEMMA CreatedKeeps ==
    ASSUME Control, Created PROVE Control'
<1> USE OwnerIsClient, PoolNames, PoolBounds
    DEF Control, Actors, CheckAt, WorkerAt, ClientAt, NoJob,
        sizes, counts, hashes, locks, local, own, hist
<1>1. /\ at[Owner] = "created"
      /\ UNCHANGED <<sizes, state, q, hashes, locks, local, own, hist>>
  BY DEF Created
<1>2. at' = [a \in Actors |-> IF a \in Clients THEN "ready" ELSE at[a]]
  BY DEF Created
<1>3. \A c \in Clients : at[c] \in {"none", "created"}
  BY <1>1 DEF Returns, PoolTypes
<1>4. /\ \A c \in Clients : at'[c] = "ready"
      /\ \A w \in Workers : at'[w] = at[w]
  BY <1>2
<1>5. PoolTypes'
  BY <1>1, <1>2, <1>3, <1>4 DEF PoolTypes
<1>6. LocksHeld'
  BY <1>1, <1>3, <1>4 DEF PoolTypes, LocksHeld
<1>7. InLoop'
  BY <1>1, <1>3, <1>4 DEF PoolTypes, InLoop
<1>8. Returns'
  BY <1>1, <1>3, <1>4 DEF PoolTypes, Returns
<1>9. Down'
  BY <1>1, <1>3, <1>4 DEF PoolTypes, Down, Returns
<1>10. Leaving'
  BY <1>1, <1>3, <1>4 DEF PoolTypes, Leaving, Ending
<1>11. Reaping'
  BY <1>1, <1>3, <1>4, SMTT(40) DEF PoolTypes, InLoop, Reaping, Ending
<1>12. Recorded'
  <2>1. \A b \in Actors : at[b] = "record" => at'[b] = "record"
    BY <1>3, <1>4
  <2> QED
    BY <1>1, <1>4, <2>1 DEF Recorded
<1>13. JobsHeld'
  BY <1>1, <1>3, <1>4 DEF PoolTypes, JobsHeld
<1> QED
  BY <1>5, <1>6, <1>7, <1>8, <1>9, <1>10, <1>11, <1>12, <1>13

\* ks_thread_pool_add_job queues a job and calls check_queue.
LEMMA AddJobKeeps ==
    ASSUME Control, NEW c \in Clients, AddJob(c) PROVE Control'
<1> USE OwnerIsClient, PoolNames, PoolBounds
    DEF Control, Actors, CheckAt, WorkerAt, ClientAt, NoJob,
        sizes, counts, hashes, locks, local, own, hist
<1>1. /\ at[c] = "ready" /\ state = "RUNNING" /\ added < MaxJobs
      /\ at' = [at EXCEPT ![c] = "check"] /\ ret' = [ret EXCEPT ![c] = "ready"]
      /\ UNCHANGED <<sizes, state, hashes, locks, need, thread, own, ran, failures>>
  BY DEF AddJob, CallCheck, MoveTo
<1>2. added' = added + 1 /\ q' = Append(q, added + 1)
  BY DEF AddJob
<1>3. /\ q' \in Seq(1 .. MaxJobs) /\ added' \in 0 .. MaxJobs
      /\ \A i \in DOMAIN q' : q'[i] <= added'
  <2>1. /\ q \in Seq(1 .. MaxJobs) /\ added + 1 \in 1 .. MaxJobs
      /\ added \in Nat /\ added' = added + 1
    BY <1>1, <1>2 DEF PoolTypes
  <2>2. \A i \in DOMAIN q' : (i \in DOMAIN q /\ q'[i] = q[i]) \/ q'[i] = added + 1
    BY <1>2, <2>1, AppendProperties
  <2>3. \A i \in DOMAIN q : q[i] \in Int /\ q[i] <= added
    BY <2>1 DEF JobsHeld
  <2>4. ASSUME NEW i \in DOMAIN q' PROVE q'[i] <= added'
    <3>1. CASE i \in DOMAIN q /\ q'[i] = q[i]
      BY <2>1, <2>3, <3>1
    <3>2. CASE q'[i] = added + 1
      BY <2>1, <3>2
    <3> QED
      BY <2>2, <3>1, <3>2
  <2> QED
    BY <1>2, <2>1, <2>4, AppendProperties
<1>4. PoolTypes'
  BY <1>1, <1>3 DEF PoolTypes
<1>5. LocksHeld'
  BY <1>1 DEF PoolTypes, LocksHeld
<1>6. InLoop'
  BY <1>1 DEF PoolTypes, InLoop
<1>7. Returns'
  BY <1>1 DEF PoolTypes, Returns
<1>8. Down'
  BY <1>1 DEF PoolTypes, Down, Returns
<1>9. Leaving'
  BY <1>1 DEF PoolTypes, Leaving, Ending
<1>10. Reaping'
  BY <1>1 DEF PoolTypes, InLoop, Reaping, Ending
<1>11. Recorded'
  BY <1>1 DEF PoolTypes, Recorded
<1>12. JobsHeld'
  BY <1>1, <1>3 DEF PoolTypes, JobsHeld
<1> QED
  BY <1>4, <1>5, <1>6, <1>7, <1>8, <1>9, <1>10, <1>11, <1>12

\* ks_thread_pool_destroy takes the pool down under tp->state_mutex, when
\* nobody is starting a thread.
LEMMA DestroyDownKeeps ==
    ASSUME Control, DestroyDown PROVE Control'
<1> USE OwnerIsClient, PoolNames, PoolBounds
    DEF Control, Actors, CheckAt, WorkerAt, ClientAt, NoJob,
        sizes, counts, hashes, locks, local, own, hist
<1>1. /\ \A c \in Clients : at[c] = "ready"
      /\ state = "RUNNING" /\ state_mutex = None
      /\ state' = "DOWN" /\ at' = [at EXCEPT ![Owner] = "destroy_lock"]
      /\ UNCHANGED <<sizes, q, hashes, locks, local, own, hist>>
  BY DEF DestroyDown, MoveTo
<1>2. PoolTypes'
  BY <1>1 DEF PoolTypes
<1>3. LocksHeld'
  BY <1>1 DEF PoolTypes, LocksHeld
<1>4. InLoop'
  BY <1>1 DEF PoolTypes, InLoop
<1>5. Returns'
  BY <1>1 DEF PoolTypes, Returns
<1>6. Down'
  BY <1>1 DEF PoolTypes, Down, LocksHeld
<1>7. Leaving'
  BY <1>1 DEF PoolTypes, Leaving, Ending
<1>8. Reaping'
  BY <1>1 DEF PoolTypes, InLoop, Reaping, Ending
<1>9. Recorded'
  BY <1>1 DEF PoolTypes, Recorded
<1>10. JobsHeld'
  BY <1>1 DEF PoolTypes, JobsHeld
<1> QED
  BY <1>2, <1>3, <1>4, <1>5, <1>6, <1>7, <1>8, <1>9, <1>10

\* Destroy takes the lock of thread_hash.
LEMMA DestroyLockKeeps ==
    ASSUME Control, DestroyLock PROVE Control'
<1> USE OwnerIsClient, PoolNames, PoolBounds
    DEF Control, Actors, CheckAt, WorkerAt, ClientAt, NoJob,
        sizes, counts, hashes, locks, local, own, hist
<1>1. /\ at[Owner] = "destroy_lock" /\ hash_mutex = None
      /\ hash_mutex' = Owner /\ at' = [at EXCEPT ![Owner] = "destroy_join"]
      /\ UNCHANGED <<sizes, state, q, hashes, mutex, state_mutex, local, own, hist>>
  BY DEF DestroyLock, MoveTo
<1>2. PoolTypes'
  BY <1>1 DEF PoolTypes
<1>3. LocksHeld'
  BY <1>1 DEF PoolTypes, LocksHeld
<1>4. InLoop'
  BY <1>1 DEF PoolTypes, InLoop
<1>5. Returns'
  BY <1>1 DEF PoolTypes, Returns
<1>6. Down'
  BY <1>1 DEF PoolTypes, Down, Returns
<1>7. Leaving'
  BY <1>1 DEF PoolTypes, Leaving, Ending
<1>8. Reaping'
  BY <1>1 DEF PoolTypes, InLoop, Reaping, Ending
<1>9. Recorded'
  BY <1>1 DEF PoolTypes, Recorded
<1>10. JobsHeld'
  BY <1>1 DEF PoolTypes, JobsHeld
<1> QED
  BY <1>2, <1>3, <1>4, <1>5, <1>6, <1>7, <1>8, <1>9, <1>10

\* Destroy joins and frees a recorded thread.
LEMMA DestroyJoinKeeps ==
    ASSUME Control, NEW w \in Workers, DestroyJoin(w) PROVE Control'
<1> USE OwnerIsClient, PoolNames, PoolBounds
    DEF Control, Actors, CheckAt, WorkerAt, ClientAt, NoJob,
        sizes, counts, hashes, locks, local, own, hist
<1>1. /\ at[Owner] = "destroy_join" /\ w \in thread_hash /\ at[w] \in {"ended", "none"}
      /\ thread_hash' = thread_hash \ {w} /\ at' = [at EXCEPT ![w] = "none"]
      /\ UNCHANGED <<sizes, state, q, thread_die_hash, locks, local, own, hist>>
  BY DEF DestroyJoin, MoveTo
<1>2. state = "DOWN"
  BY <1>1 DEF Down
<1>3. PoolTypes'
  BY <1>1 DEF PoolTypes
<1>4. LocksHeld'
  BY <1>1 DEF PoolTypes, LocksHeld
<1>5. InLoop'
  BY <1>1 DEF PoolTypes, InLoop
<1>6. Returns'
  BY <1>1 DEF PoolTypes, Returns
<1>7. Down'
  BY <1>1 DEF PoolTypes, Down, Returns
<1>8. Leaving'
  BY <1>1, <1>2 DEF PoolTypes, Leaving, Ending
<1>9. Reaping'
  BY <1>1, <1>2 DEF PoolTypes, InLoop, Reaping, Ending
<1>10. Recorded'
  BY <1>1 DEF PoolTypes, Recorded
<1>11. JobsHeld'
  BY <1>1 DEF PoolTypes, JobsHeld
<1> QED
  BY <1>3, <1>4, <1>5, <1>6, <1>7, <1>8, <1>9, <1>10, <1>11

\* Destroy frees the pool: thread_hash is empty.
LEMMA DestroyFreeKeeps ==
    ASSUME Control, DestroyPool PROVE Control'
<1> USE OwnerIsClient, PoolNames, PoolBounds
    DEF Control, Actors, CheckAt, WorkerAt, ClientAt, NoJob,
        sizes, counts, hashes, locks, local, own, hist
<1>1. /\ at[Owner] = "destroy_join" /\ thread_hash = {}
      /\ hash_mutex' = None /\ at' = [at EXCEPT ![Owner] = "destroyed"]
      /\ UNCHANGED <<sizes, state, q, hashes, mutex, state_mutex, local, own, hist>>
  BY DEF DestroyPool, MoveTo
<1>2. PoolTypes'
  BY <1>1 DEF PoolTypes
<1>3. LocksHeld'
  BY <1>1 DEF PoolTypes, LocksHeld
<1>4. InLoop'
  BY <1>1 DEF PoolTypes, InLoop
<1>5. Returns'
  BY <1>1 DEF PoolTypes, Returns
<1>6. Down'
  BY <1>1 DEF PoolTypes, Down, Returns
<1>7. Leaving'
  BY <1>1 DEF PoolTypes, Leaving, Ending
<1>8. Reaping'
  BY <1>1 DEF PoolTypes, InLoop, Reaping, Ending
<1>9. Recorded'
  BY <1>1 DEF PoolTypes, Recorded
<1>10. JobsHeld'
  BY <1>1 DEF PoolTypes, JobsHeld
<1> QED
  BY <1>2, <1>3, <1>4, <1>5, <1>6, <1>7, <1>8, <1>9, <1>10

-----------------------------------------------------------------------------
(* The counters                                                            *)

\* Numbered slots: when the slots of one element of S change from f[a] to
\* g[a] of n, the number of used slots changes by the difference.
LEMMA SlotsCount ==
    ASSUME NEW S, IsFiniteSet(S), NEW n \in Nat, NEW a \in S,
           NEW f \in [S -> 0 .. n], NEW g \in [S -> 0 .. n],
           \A b \in S \ {a} : g[b] = f[b]
    PROVE  /\ Cardinality({x \in S \X (1 .. n) : x[2] <= f[x[1]]}) \in Nat
           /\ Cardinality({x \in S \X (1 .. n) : x[2] <= g[x[1]]})
                = Cardinality({x \in S \X (1 .. n) : x[2] <= f[x[1]]}) + g[a] - f[a]
<1> DEFINE Used(h) == {x \in S \X (1 .. n) : x[2] <= h[x[1]]}
           Rest == {x \in (S \ {a}) \X (1 .. n) : x[2] <= f[x[1]]}
           Own(k) == {a} \X (1 .. k)
<1>1. IsFiniteSet(Rest)
  <2>1. IsFiniteSet(S \ {a}) /\ IsFiniteSet(1 .. n)
    BY FS_Difference, FS_Interval, FS_Subset
  <2>2. IsFiniteSet((S \ {a}) \X (1 .. n))
    BY <2>1, FS_Product
  <2> QED
    BY <2>2, FS_Subset
<1>2. \A k \in 0 .. n : IsFiniteSet(Own(k)) /\ Cardinality(Own(k)) = k
  <2> SUFFICES ASSUME NEW k \in 0 .. n PROVE IsFiniteSet(Own(k)) /\ Cardinality(Own(k)) = k
    OBVIOUS
  <2>1. IsFiniteSet({a}) /\ Cardinality({a}) = 1
    BY FS_Singleton
  <2>2. IsFiniteSet(1 .. k) /\ Cardinality(1 .. k) = k
    <3>1. /\ IsFiniteSet(1 .. k)
          /\ Cardinality(1 .. k) = IF 1 > k THEN 0 ELSE k - 1 + 1
      <4>1. 1 \in Int /\ k \in Int
        OBVIOUS
      <4> QED
        BY <4>1, FS_Interval, Zenon
    <3> QED
      BY <3>1
  <2>3. /\ IsFiniteSet({a} \X (1 .. k))
        /\ Cardinality({a} \X (1 .. k)) = Cardinality({a}) * Cardinality(1 .. k)
    BY <2>1, <2>2, FS_Product, Zenon
  <2> QED
    BY <2>1, <2>2, <2>3
<1>3. Used(f) = Rest \cup Own(f[a]) /\ Used(g) = Rest \cup Own(g[a])
  OBVIOUS
<1>4. Rest \cap Own(f[a]) = {} /\ Rest \cap Own(g[a]) = {}
  OBVIOUS
<1>5. f[a] \in 0 .. n /\ g[a] \in 0 .. n
  OBVIOUS
<1>6. Cardinality(Rest) \in Nat
  BY <1>1, FS_CardinalityType
<1> HIDE DEF Rest, Own
<1>7. /\ Cardinality(Rest \cup Own(f[a])) = Cardinality(Rest) + f[a]
      /\ Cardinality(Rest \cup Own(g[a])) = Cardinality(Rest) + g[a]
  <2>1. IsFiniteSet(Own(f[a])) /\ Cardinality(Own(f[a])) = f[a]
    BY <1>2, <1>5
  <2>2. IsFiniteSet(Own(g[a])) /\ Cardinality(Own(g[a])) = g[a]
    BY <1>2, <1>5
  <2>3. /\ Cardinality(Rest \cup Own(f[a]))
             = Cardinality(Rest) + Cardinality(Own(f[a])) - Cardinality(Rest \cap Own(f[a]))
        /\ Cardinality(Rest \cup Own(g[a]))
             = Cardinality(Rest) + Cardinality(Own(g[a])) - Cardinality(Rest \cap Own(g[a]))
    BY <1>1, <2>1, <2>2, FS_Union
  <2>4. Cardinality({}) = 0
    BY FS_EmptySet
  <2>5. /\ Cardinality(Rest \cup Own(f[a])) = Cardinality(Rest) + f[a] - 0
        /\ Cardinality(Rest \cup Own(g[a])) = Cardinality(Rest) + g[a] - 0
    BY <1>4, <2>1, <2>2, <2>3, <2>4
  <2> QED
    BY <1>5, <1>6, <2>5
<1>8. Cardinality(Used(f)) = Cardinality(Rest) + f[a] /\ Cardinality(Used(g)) = Cardinality(Rest) + g[a]
  BY <1>3, <1>7
<1> HIDE DEF Used
<1>9. /\ Cardinality(Used(f)) \in Nat
      /\ Cardinality(Used(g)) = Cardinality(Used(f)) + g[a] - f[a]
  BY <1>5, <1>6, <1>8
<1> QED
  BY <1>9 DEF Used

BusyWorkers == {w \in Workers : at[w] \in {"run", "unbusy"}}
Dying == {w \in Workers : die[w]}

\* What is counted is finite, so that the counts are natural numbers.
LEMMA CountedFinite ==
    /\ IsFiniteSet(Alive) /\ Cardinality(Alive) \in Nat
    /\ IsFiniteSet(Running) /\ Cardinality(Running) \in Nat
    /\ IsFiniteSet(BusyWorkers) /\ Cardinality(BusyWorkers) \in Nat
    /\ IsFiniteSet(Dying) /\ Cardinality(Dying) \in Nat
    /\ IsFiniteSet(Held) /\ Cardinality(Held) \in Nat
<1>1. /\ Alive \subseteq Workers /\ Running \subseteq Workers /\ BusyWorkers \subseteq Workers
      /\ Dying \subseteq Workers /\ Held \subseteq Workers
  BY DEF Alive, Running, BusyWorkers, Dying, Held
<1> QED
  BY <1>1, PoolFinite, FS_Subset, FS_CardinalityType

\* When one actor's reserve changes, the number of reserved threads changes
\* with it.
LEMMA ReservedChange ==
    ASSUME Control, Control', min' = min, NEW a \in Actors,
           \A b \in Actors \ {a} : Owed(b)' = Owed(b)
    PROVE  /\ Cardinality(Reserved) \in Nat /\ Owed(a) \in Nat /\ Owed(a)' \in Nat
           /\ Cardinality(Reserved') = Cardinality(Reserved) + Owed(a)' - Owed(a)
<1> DEFINE f == [b \in Actors |-> Owed(b)]
           g == [b \in Actors |-> Owed(b)']
<1>1. \A b \in Actors : Owed(b) \in 0 .. min + 1 /\ Owed(b)' \in 0 .. min + 1
  <2>1. \A b \in Actors : /\ min \in Nat /\ need[b] \in Nat /\ need[b] <= min + 1
                          /\ at[b] = "record" => need[b] > 0
    BY DEF Control, PoolTypes, InLoop
  <2>2. \A b \in Actors : /\ need'[b] \in Nat /\ need'[b] <= min + 1
                          /\ at'[b] = "record" => need'[b] > 0
    BY DEF Control, PoolTypes, InLoop, Actors
  <2> QED
    BY <2>1, <2>2 DEF Owed
<1>2. IsFiniteSet(Actors)
  BY PoolFinite, FS_Union DEF Actors
<1>3. min + 1 \in Nat
  BY DEF Control, PoolTypes
<1>4. f \in [Actors -> 0 .. min + 1] /\ g \in [Actors -> 0 .. min + 1]
  BY <1>1
<1>5. \A b \in Actors \ {a} : g[b] = f[b]
  OBVIOUS
<1>6. /\ Reserved = {x \in Actors \X (1 .. min + 1) : x[2] <= f[x[1]]}
      /\ Reserved' = {x \in Actors \X (1 .. min + 1) : x[2] <= g[x[1]]}
  BY DEF Reserved, Actors
<1>7. f[a] = Owed(a) /\ g[a] = Owed(a)'
  OBVIOUS
<1>8. Owed(a) \in Nat /\ Owed(a)' \in Nat
  BY <1>1, <1>3
<1> HIDE DEF f, g
<1>9. /\ Cardinality({x \in Actors \X (1 .. min + 1) : x[2] <= f[x[1]]}) \in Nat
      /\ Cardinality({x \in Actors \X (1 .. min + 1) : x[2] <= g[x[1]]})
           = Cardinality({x \in Actors \X (1 .. min + 1) : x[2] <= f[x[1]]}) + g[a] - f[a]
  BY <1>2, <1>3, <1>4, <1>5, SlotsCount
<1> QED
  BY <1>6, <1>7, <1>8, <1>9

\* A step that moves no worker from one counted set to another.
CountedAlike(w) ==
    /\ at'[w] \in {"none", "exiting", "ended"} <=> at[w] \in {"none", "exiting", "ended"}
    /\ at'[w] = "start" <=> at[w] = "start"
    /\ at'[w] \in {"run", "unbusy"} <=> at[w] \in {"run", "unbusy"}

\* The counted sets stay the same then.
LEMMA CountedKept ==
    ASSUME \A w \in Workers : CountedAlike(w)
    PROVE  Alive' = Alive /\ Running' = Running /\ BusyWorkers' = BusyWorkers
BY DEF CountedAlike, Alive, Running, BusyWorkers

\* The counters stay exact when neither they nor what they count changes.
LEMMA CountsKept ==
    ASSUME Control, Control', CountsExact, UNCHANGED <<counts, min, die>>,
           \A w \in Workers : CountedAlike(w),
           \A a \in Actors : Owed(a)' = Owed(a)
    PROVE  CountsExact'
<1>1. Alive' = Alive /\ Running' = Running /\ BusyWorkers' = BusyWorkers
  BY CountedKept
<1>2. Reserved' = Reserved
  BY DEF Reserved, Actors
<1> QED
  BY <1>1, <1>2 DEF CountsExact, BusyWorkers, counts

\* The steps that count nothing.
LEMMA UncountedSteps ==
    ASSUME Control, Control', CountsExact,
           \/ \E a \in Actors : \/ CheckEnter(a) \/ CleanReap(a) \/ CreateEnter(a)
                                \/ SpawnFails(a) \/ Record(a)
                                \/ \E w \in Workers : CleanJoin(a, w)
           \/ \E w \in Workers : \/ Loop(w) \/ Pop(w) \/ PopSleep(w) \/ PopBreak(w) \/ PopTimeout(w)
                                 \/ IdleTick(w) \/ Run(w) \/ Ended(w) \/ DestroyJoin(w)
           \/ \E c \in Clients : AddJob(c)
           \/ Created \/ DestroyDown \/ DestroyLock \/ DestroyPool
    PROVE  CountsExact'
<1> USE OwnerIsClient, PoolNames
    DEF Actors, CheckAt, sizes, counts, hashes, locks, local, own, hist
<1>t. /\ at \in [Actors -> WorkerAt \cup ClientAt] /\ need \in [Actors -> Nat]
      /\ ret \in [Actors -> {"none", "created", "ready", "busy", "idle"}]
  BY DEF Control, PoolTypes
<1>1. ASSUME NEW a \in Actors, CheckEnter(a) PROVE CountsExact'
  <2>1. a \in Workers => ret[a] \in {"busy", "idle"}
    BY <1>1, ReturnsWhere DEF CheckEnter
  <2>2. \A w \in Workers : CountedAlike(w)
    BY <1>1, <1>t, <2>1 DEF CheckEnter, MoveTo, CountedAlike
  <2>3. \A b \in Actors : Owed(b)' = Owed(b)
    BY <1>1, <1>t DEF CheckEnter, MoveTo, Owed
  <2> QED
    BY <1>1, <2>2, <2>3, CountsKept DEF CheckEnter
<1>2. ASSUME NEW a \in Actors, CleanReap(a) PROVE CountsExact'
  <2>1. PICK w \in Workers : w = thread[a] /\ w # a /\ at[w] \in {"ended", "none"}
    BY <1>2, SMTT(40) DEF CleanReap, Control, PoolTypes, InLoop, Reaping, Ending
  <2>2. /\ at[a] = "reap" /\ at'[a] = "clean" /\ at'[w] = "none"
        /\ \A b \in Actors \ {a, w} : at'[b] = at[b]
        /\ UNCHANGED <<sizes, counts, need, own>>
    BY <1>2, <1>t, <2>1 DEF CleanReap
  <2>3. \A v \in Workers : CountedAlike(v)
    BY <2>1, <2>2 DEF CountedAlike
  <2>4. \A b \in Actors : Owed(b)' = Owed(b)
    BY <2>1, <2>2 DEF Owed
  <2> QED
    BY <2>2, <2>3, <2>4, CountsKept
<1>3. ASSUME NEW a \in Actors, CreateEnter(a) PROVE CountsExact'
  BY <1>3, <1>t, CountsKept DEF CreateEnter, MoveTo, CountedAlike, Owed
<1>4. ASSUME NEW a \in Actors, SpawnFails(a) PROVE CountsExact'
  BY <1>4, <1>t, CountsKept DEF SpawnFails, MoveTo, CountedAlike, Owed
<1>5. ASSUME NEW a \in Actors, Record(a) PROVE CountsExact'
  <2>1. /\ a \in Workers => ret[a] \in {"busy", "idle"}
        /\ ret[a] \notin CheckAt
    BY <1>5, ReturnsWhere DEF Record
  <2>2. /\ at[a] = "record" /\ at'[a] \in {"create", ret[a]} /\ need'[a] = need[a] - 1
        /\ \A b \in Actors \ {a} : at'[b] = at[b] /\ need'[b] = need[b]
        /\ UNCHANGED <<sizes, counts, own>>
    BY <1>5, <1>t DEF Record, NextCreate, MoveTo
  <2>3. \A w \in Workers : CountedAlike(w)
    BY <2>1, <2>2 DEF CountedAlike
  <2>4. \A b \in Actors : Owed(b)' = Owed(b)
    BY <2>1, <2>2 DEF Owed
  <2> QED
    BY <2>2, <2>3, <2>4, CountsKept
<1>6. ASSUME NEW a \in Actors, NEW w \in Workers, CleanJoin(a, w) PROVE CountsExact'
  BY <1>6, <1>t, CountsKept DEF CleanJoin, MoveTo, CountedAlike, Owed
<1>7. ASSUME NEW w \in Workers, Loop(w) PROVE CountsExact'
  BY <1>7, <1>t, CountsKept DEF Loop, MoveTo, CountedAlike, Owed
<1>8. ASSUME NEW w \in Workers, Pop(w) PROVE CountsExact'
  BY <1>8, <1>t, CountsKept DEF Pop, CallCheck, MoveTo, CountedAlike, Owed
<1>9. ASSUME NEW w \in Workers, PopSleep(w) PROVE CountsExact'
  BY <1>9, <1>t, CountsKept DEF PopSleep, MoveTo, CountedAlike, Owed
<1>10. ASSUME NEW w \in Workers, PopBreak(w) PROVE CountsExact'
  BY <1>10, <1>t, CountsKept DEF PopBreak, MoveTo, CountedAlike, Owed
<1>11. ASSUME NEW w \in Workers, PopTimeout(w) PROVE CountsExact'
  BY <1>11, <1>t, CountsKept DEF PopTimeout, CallCheck, MoveTo, CountedAlike, Owed
<1>12. ASSUME NEW w \in Workers, IdleTick(w) PROVE CountsExact'
  BY <1>12, <1>t, CountsKept DEF IdleTick, MoveTo, CountedAlike, Owed
<1>13. ASSUME NEW w \in Workers, Run(w) PROVE CountsExact'
  BY <1>13, <1>t, CountsKept DEF Run, MoveTo, CountedAlike, Owed
<1>14. ASSUME NEW w \in Workers, Ended(w) PROVE CountsExact'
  BY <1>14, <1>t, CountsKept DEF Ended, MoveTo, CountedAlike, Owed
<1>15. ASSUME NEW w \in Workers, DestroyJoin(w) PROVE CountsExact'
  BY <1>15, <1>t, CountsKept DEF DestroyJoin, MoveTo, CountedAlike, Owed
<1>16. ASSUME NEW c \in Clients, AddJob(c) PROVE CountsExact'
  BY <1>16, <1>t, CountsKept DEF AddJob, CallCheck, MoveTo, CountedAlike, Owed
<1>17. CASE Created
  <2>1. \A c \in Clients : at[c] \in {"none", "created"}
    BY <1>17 DEF Created, Control, Returns, PoolTypes, ClientAt
  <2> QED
    BY <1>17, <1>t, <2>1, CountsKept DEF Created, CountedAlike, Owed
<1>18. CASE DestroyDown
  BY <1>18, <1>t, CountsKept DEF DestroyDown, MoveTo, CountedAlike, Owed
<1>19. CASE DestroyLock
  BY <1>19, <1>t, CountsKept DEF DestroyLock, MoveTo, CountedAlike, Owed
<1>20. CASE DestroyPool
  BY <1>20, <1>t, CountsKept DEF DestroyPool, MoveTo, CountedAlike, Owed
<1> QED
  BY <1>1, <1>2, <1>3, <1>4, <1>5, <1>6, <1>7, <1>8, <1>9, <1>10, <1>11, <1>12, <1>13, <1>14,
     <1>15, <1>16, <1>17, <1>18, <1>19, <1>20

\* One worker more or less in a set of workers.
LEMMA OneMore ==
    ASSUME NEW S, IsFiniteSet(S), NEW w PROVE
    /\ w \notin S => Cardinality(S \cup {w}) = Cardinality(S) + 1
    /\ w \in S => Cardinality(S \ {w}) = Cardinality(S) - 1
BY FS_AddElement, FS_RemoveElement

\* Whoever is cleaning up has not counted yet what it will start.
LEMMA NothingOwed ==
    ASSUME Control, NEW a \in Actors, at[a] = "clean" PROVE need[a] = 0
<1>1. need[a] \in Nat
  BY DEF Control, PoolTypes
<1>2. ~(need[a] > 0)
  BY DEF Control, InLoop
<1> QED
  BY <1>1, <1>2

\* The steps that count: each changes its counters as it changes the sets.
LEMMA CheckCountCounts ==
    ASSUME Control, Control', CountsExact, Counters, NEW a \in Actors, CheckCount(a)
    PROVE  CountsExact'
<1> USE OwnerIsClient, PoolNames DEF Actors, CheckAt, sizes, counts, own
<1> DEFINE n == Missing(ret[a] = "ready")
<1>1. n \in Nat
  BY DEF Missing, Control, PoolTypes, Counters
<1>2. /\ at[a] = "clean" /\ need' = [need EXCEPT ![a] = n] /\ thread_count' = thread_count + n
      /\ at' = [at EXCEPT ![a] = IF n > 0 THEN "create" ELSE ret[a]]
      /\ UNCHANGED <<sizes, busy_thread_count, running_thread_count, dying_thread_count, own>>
  BY DEF CheckCount, MoveTo
<1> HIDE DEF n
<1>3. /\ a \in Workers => ret[a] \in {"busy", "idle"}
      /\ ret[a] \notin CheckAt
  BY <1>2, ReturnsWhere
<1>4. /\ at'[a] \in {"create", ret[a]} /\ need'[a] = n /\ need[a] = 0
      /\ \A b \in Actors \ {a} : at'[b] = at[b] /\ need'[b] = need[b]
  <2>1. need[a] = 0
    BY <1>2, NothingOwed
  <2> QED
    BY <1>2, <2>1 DEF Control, PoolTypes
<1>5. \A w \in Workers : CountedAlike(w)
  BY <1>2, <1>3, <1>4 DEF CountedAlike
<1>6. Owed(a) = 0 /\ Owed(a)' = n /\ \A b \in Actors \ {a} : Owed(b)' = Owed(b)
  BY <1>2, <1>3, <1>4 DEF Owed
<1>7. /\ Cardinality(Reserved) \in Nat
      /\ Cardinality(Reserved') = Cardinality(Reserved) + Owed(a)' - Owed(a)
  BY <1>2, <1>6, ReservedChange
<1>8. Alive' = Alive /\ Running' = Running /\ BusyWorkers' = BusyWorkers
  BY <1>5, CountedKept
<1>9. thread_count' = Cardinality(Alive') + Cardinality(Reserved')
  <2>1. Cardinality(Alive) \in Nat
    BY CountedFinite
  <2> QED
    BY <1>1, <1>2, <1>6, <1>7, <1>8, <2>1 DEF CountsExact
<1> QED
  BY <1>2, <1>8, <1>9 DEF CountsExact, BusyWorkers

\* The threads that will not be started leave thread_count and the reserve.
LEMMA CreateGiveUpCounts ==
    ASSUME Control, Control', CountsExact, NEW a \in Actors, CreateGiveUp(a)
    PROVE  CountsExact'
<1> USE OwnerIsClient, PoolNames DEF Actors, CheckAt, sizes, counts, own
<1>1. /\ at[a] = "giveup" /\ need' = [need EXCEPT ![a] = 0]
      /\ thread_count' = thread_count - need[a]
      /\ at' = [at EXCEPT ![a] = ret[a]]
      /\ UNCHANGED <<sizes, busy_thread_count, running_thread_count, dying_thread_count, own>>
  BY DEF CreateGiveUp, MoveTo
<1>2. /\ a \in Workers => ret[a] \in {"busy", "idle"}
      /\ ret[a] \notin CheckAt
  BY <1>1, ReturnsWhere
<1>3. /\ at'[a] = ret[a] /\ need'[a] = 0 /\ need[a] \in Nat
      /\ \A b \in Actors \ {a} : at'[b] = at[b] /\ need'[b] = need[b]
  BY <1>1 DEF Control, PoolTypes
<1>4. \A w \in Workers : CountedAlike(w)
  BY <1>1, <1>2, <1>3 DEF CountedAlike
<1>5. Owed(a) = need[a] /\ Owed(a)' = 0 /\ \A b \in Actors \ {a} : Owed(b)' = Owed(b)
  BY <1>1, <1>2, <1>3 DEF Owed
<1>6. /\ Cardinality(Reserved) \in Nat
      /\ Cardinality(Reserved') = Cardinality(Reserved) + Owed(a)' - Owed(a)
  BY <1>1, <1>5, ReservedChange
<1>7. Alive' = Alive /\ Running' = Running /\ BusyWorkers' = BusyWorkers
  BY <1>4, CountedKept
<1>8. thread_count' = Cardinality(Alive') + Cardinality(Reserved')
  <2>1. Cardinality(Alive) \in Nat
    BY CountedFinite
  <2> QED
    BY <1>1, <1>3, <1>5, <1>6, <1>7, <2>1 DEF CountsExact
<1> QED
  BY <1>1, <1>7, <1>8 DEF CountsExact, BusyWorkers

\* A reserved thread becomes a live one.
LEMMA SpawnCounts ==
    ASSUME Control, Control', CountsExact, NEW a \in Actors, NEW w \in Workers, Spawn(a, w)
    PROVE  CountsExact'
<1> USE OwnerIsClient, PoolNames DEF Actors, CheckAt, sizes, counts, own
<1>1. /\ at[a] = "spawn" /\ at[w] = "none" /\ a # w
      /\ at'[w] = "start" /\ at'[a] = "record"
      /\ \A b \in Actors \ {a, w} : at'[b] = at[b]
      /\ UNCHANGED <<sizes, counts, need, own>>
  BY DEF Spawn, Control, PoolTypes
<1>2. w \notin Alive /\ Alive' = Alive \cup {w}
  BY <1>1 DEF Alive
<1>3. Running' = Running /\ BusyWorkers' = BusyWorkers
  BY <1>1 DEF Running, Alive, BusyWorkers
<1>4. /\ need[a] \in Nat /\ Owed(a) = need[a] /\ Owed(a)' = need[a] - 1
      /\ \A b \in Actors \ {a} : Owed(b)' = Owed(b)
  BY <1>1 DEF Owed, Control, PoolTypes
<1>5. /\ Cardinality(Reserved) \in Nat
      /\ Cardinality(Reserved') = Cardinality(Reserved) + Owed(a)' - Owed(a)
  BY <1>1, <1>4, ReservedChange
<1>6. thread_count' = Cardinality(Alive') + Cardinality(Reserved')
  <2>1. Cardinality(Alive) \in Nat /\ IsFiniteSet(Alive)
    BY CountedFinite
  <2>2. Cardinality(Alive') = Cardinality(Alive) + 1
    BY <1>2, <2>1, OneMore
  <2> QED
    BY <1>1, <1>4, <1>5, <2>1, <2>2 DEF CountsExact
<1> QED
  BY <1>1, <1>3, <1>6 DEF CountsExact, BusyWorkers

\* A thread that could not be started leaves thread_count and the reserve.
LEMMA UncountCounts ==
    ASSUME Control, Control', CountsExact, NEW a \in Actors, Uncount(a)
    PROVE  CountsExact'
<1> USE OwnerIsClient, PoolNames DEF Actors, CheckAt, sizes, counts, own
<1>1. /\ at[a] = "uncount" /\ thread_count' = thread_count - 1
      /\ UNCHANGED <<sizes, busy_thread_count, running_thread_count, dying_thread_count, own>>
  BY DEF Uncount
<1>2. /\ a \in Workers => ret[a] \in {"busy", "idle"}
      /\ ret[a] \notin CheckAt
  BY <1>1, ReturnsWhere
<1>3. /\ at'[a] \in {"create", ret[a]} /\ need'[a] = need[a] - 1 /\ need[a] \in Nat
      /\ \A b \in Actors \ {a} : at'[b] = at[b] /\ need'[b] = need[b]
  BY DEF Uncount, NextCreate, MoveTo, Control, PoolTypes
<1>4. \A w \in Workers : CountedAlike(w)
  BY <1>1, <1>2, <1>3 DEF CountedAlike
<1>5. Owed(a) = need[a] /\ Owed(a)' = need[a] - 1 /\ \A b \in Actors \ {a} : Owed(b)' = Owed(b)
  BY <1>1, <1>2, <1>3 DEF Owed
<1>6. /\ Cardinality(Reserved) \in Nat
      /\ Cardinality(Reserved') = Cardinality(Reserved) + Owed(a)' - Owed(a)
  BY <1>1, <1>5, ReservedChange
<1>7. Alive' = Alive /\ Running' = Running /\ BusyWorkers' = BusyWorkers
  BY <1>4, CountedKept
<1>8. thread_count' = Cardinality(Alive') + Cardinality(Reserved')
  <2>1. Cardinality(Alive) \in Nat
    BY CountedFinite
  <2> QED
    BY <1>1, <1>3, <1>5, <1>6, <1>7, <2>1 DEF CountsExact
<1> QED
  BY <1>1, <1>7, <1>8 DEF CountsExact, BusyWorkers

\* The steps of a worker that count it in or out.
LEMMA WorkerCounts ==
    ASSUME Control, Control', CountsExact, NEW w \in Workers,
           Start(w) \/ MayDie(w) \/ Busy(w) \/ Unbusy(w) \/ Exit(w)
    PROVE  CountsExact'
<1> USE PoolNames DEF Actors, sizes, counts, local, own
<1>t. /\ at \in [Actors -> WorkerAt \cup ClientAt] /\ die \in [Workers -> BOOLEAN]
  BY DEF Control, PoolTypes
<1>f. /\ IsFiniteSet(Alive) /\ Cardinality(Alive) \in Nat
      /\ IsFiniteSet(Running) /\ Cardinality(Running) \in Nat
      /\ IsFiniteSet(BusyWorkers) /\ Cardinality(BusyWorkers) \in Nat
      /\ IsFiniteSet(Dying) /\ Cardinality(Dying) \in Nat
  BY CountedFinite
<1>c. /\ thread_count = Cardinality(Alive) + Cardinality(Reserved)
      /\ running_thread_count = Cardinality(Running)
      /\ busy_thread_count = Cardinality(BusyWorkers)
      /\ dying_thread_count = Cardinality(Dying)
  BY DEF CountsExact, BusyWorkers, Dying
<1>g. SUFFICES /\ thread_count' = Cardinality(Alive') + Cardinality(Reserved')
               /\ running_thread_count' = Cardinality(Running')
               /\ busy_thread_count' = Cardinality(BusyWorkers')
               /\ dying_thread_count' = Cardinality(Dying')
  BY DEF CountsExact, BusyWorkers, Dying
<1>r. Reserved' = Reserved /\ Cardinality(Reserved) \in Nat
  <2>1. min' = min /\ \A a \in Actors : Owed(a)' = Owed(a)
    BY <1>t DEF Start, MayDie, Busy, Unbusy, Exit, MoveTo, Owed
  <2>2. Cardinality(Reserved) \in Nat
    BY <2>1, ReservedChange
  <2> QED
    BY <2>1, <2>2 DEF Reserved
<1>1. CASE Start(w)
  <2>1. /\ at[w] = "start" /\ at' = [at EXCEPT ![w] = "loop"] /\ die' = die
        /\ running_thread_count' = running_thread_count + 1
        /\ UNCHANGED <<thread_count, busy_thread_count, dying_thread_count>>
    BY <1>1 DEF Start, MoveTo
  <2>2. /\ Alive' = Alive /\ BusyWorkers' = BusyWorkers /\ Dying' = Dying
        /\ w \notin Running /\ Running' = Running \cup {w}
    BY <1>t, <2>1 DEF Alive, Running, BusyWorkers, Dying
  <2>3. Cardinality(Running') = Cardinality(Running) + 1
    BY <1>f, <2>2, OneMore
  <2> QED
    BY <1>c, <1>r, <2>1, <2>2, <2>3
<1>2. CASE MayDie(w)
  <2>1. /\ at[w] = "maydie"
        /\ \/ /\ at' = [at EXCEPT ![w] = "exit"] /\ die' = [die EXCEPT ![w] = TRUE]
              /\ dying_thread_count' = dying_thread_count + 1
           \/ /\ at' = [at EXCEPT ![w] = "loop"] /\ die' = die
              /\ dying_thread_count' = dying_thread_count
        /\ UNCHANGED <<thread_count, busy_thread_count, running_thread_count>>
    BY <1>2 DEF MayDie, MoveTo
  <2>2. Alive' = Alive /\ Running' = Running /\ BusyWorkers' = BusyWorkers
    BY <1>t, <2>1 DEF Alive, Running, BusyWorkers
  <2>3. ~die[w]
    BY <2>1 DEF Control, Leaving
  <2>4. dying_thread_count' = Cardinality(Dying')
    <3>1. CASE die' = [die EXCEPT ![w] = TRUE] /\ dying_thread_count' = dying_thread_count + 1
      <4>1. w \notin Dying /\ Dying' = Dying \cup {w}
        BY <1>t, <2>3, <3>1, Zenon DEF Dying
      <4>2. Cardinality(Dying') = Cardinality(Dying) + 1
        BY <1>f, <4>1, OneMore
      <4> QED
        BY <1>c, <3>1, <4>2
    <3>2. CASE die' = die /\ dying_thread_count' = dying_thread_count
      BY <1>c, <3>2 DEF Dying
    <3> QED
      BY <2>1, <3>1, <3>2
  <2> QED
    BY <1>c, <1>r, <2>1, <2>2, <2>4
<1>3. CASE Busy(w)
  <2>1. /\ at[w] = "busy" /\ at' = [at EXCEPT ![w] = "run"] /\ die' = die
        /\ busy_thread_count' = busy_thread_count + 1
        /\ UNCHANGED <<thread_count, running_thread_count, dying_thread_count>>
    BY <1>3 DEF Busy, MoveTo
  <2>2. /\ Alive' = Alive /\ Running' = Running /\ Dying' = Dying
        /\ w \notin BusyWorkers /\ BusyWorkers' = BusyWorkers \cup {w}
    BY <1>t, <2>1 DEF Alive, Running, BusyWorkers, Dying
  <2>3. Cardinality(BusyWorkers') = Cardinality(BusyWorkers) + 1
    BY <1>f, <2>2, OneMore
  <2> QED
    BY <1>c, <1>r, <2>1, <2>2, <2>3
<1>4. CASE Unbusy(w)
  <2>1. /\ at[w] = "unbusy" /\ at' = [at EXCEPT ![w] = "loop"] /\ die' = die
        /\ busy_thread_count' = busy_thread_count - 1
        /\ UNCHANGED <<thread_count, running_thread_count, dying_thread_count>>
    BY <1>4 DEF Unbusy, MoveTo
  <2>2. /\ Alive' = Alive /\ Running' = Running /\ Dying' = Dying
        /\ w \in BusyWorkers /\ BusyWorkers' = BusyWorkers \ {w}
    BY <1>t, <2>1 DEF Alive, Running, BusyWorkers, Dying
  <2>3. Cardinality(BusyWorkers') = Cardinality(BusyWorkers) - 1
    BY <1>f, <2>2, OneMore
  <2> QED
    BY <1>c, <1>r, <2>1, <2>2, <2>3
<1>5. CASE Exit(w)
  <2>1. /\ at[w] = "exit" /\ at' = [at EXCEPT ![w] = "exiting"]
        /\ die' = [die EXCEPT ![w] = FALSE]
        /\ running_thread_count' = running_thread_count - 1 /\ thread_count' = thread_count - 1
        /\ dying_thread_count' = dying_thread_count - (IF die[w] THEN 1 ELSE 0)
        /\ busy_thread_count' = busy_thread_count
    BY <1>5 DEF Exit, MoveTo
  <2>2. /\ BusyWorkers' = BusyWorkers
        /\ w \in Alive /\ Alive' = Alive \ {w} /\ w \in Running /\ Running' = Running \ {w}
    BY <1>t, <2>1 DEF Alive, Running, BusyWorkers
  <2>3. /\ Cardinality(Alive') = Cardinality(Alive) - 1
        /\ Cardinality(Running') = Cardinality(Running) - 1
    BY <1>f, <2>2, OneMore
  <2>4. dying_thread_count' = Cardinality(Dying')
    <3>0. Dying' = Dying \ {w}
      BY <1>t, <2>1, Zenon DEF Dying
    <3>1. CASE die[w]
      <4>1. w \in Dying
        BY <3>1 DEF Dying
      <4>2. Cardinality(Dying') = Cardinality(Dying) - 1
        BY <1>f, <3>0, <4>1, OneMore
      <4> QED
        BY <1>c, <1>f, <2>1, <3>1, <4>2
    <3>2. CASE ~die[w]
      <4>1. Dying' = Dying
        BY <3>0, <3>2 DEF Dying
      <4> QED
        BY <1>c, <1>f, <2>1, <3>2, <4>1
    <3> QED
      BY <3>1, <3>2
  <2>5. thread_count' = Cardinality(Alive') + Cardinality(Reserved')
    BY <1>c, <1>f, <1>r, <2>1, <2>3
  <2> QED
    BY <1>c, <1>f, <2>1, <2>2, <2>3, <2>4, <2>5
<1> QED
  BY <1>1, <1>2, <1>3, <1>4, <1>5

-----------------------------------------------------------------------------
(* The size and the jobs                                                   *)

\* Each decision to start a thread keeps the size within max, and every
\* other step lowers the difference or leaves it.
LEMMA SizeKept ==
    ASSUME Control, Counters, WithinMax, [TpNext]_tpVars PROVE WithinMax'
<1> USE DEF sizes, counts, WithinMax
<1>t. /\ min \in Nat /\ max \in Nat /\ thread_count \in Nat /\ dying_thread_count \in Nat
      /\ \A a \in Actors : need[a] \in Nat
  BY DEF Control, PoolTypes, Counters
<1>1. ASSUME NEW a \in Actors, CheckCount(a) PROVE WithinMax'
  BY <1>1, <1>t DEF CheckCount, Missing
<1>2. ASSUME NEW a \in Actors, CreateGiveUp(a) \/ Uncount(a) PROVE WithinMax'
  BY <1>2, <1>t DEF CreateGiveUp, Uncount
<1>3. ASSUME NEW w \in Workers, MayDie(w) PROVE WithinMax'
  BY <1>3, <1>t DEF MayDie
<1>4. ASSUME NEW w \in Workers, Exit(w) PROVE WithinMax'
  BY <1>4, <1>t DEF Exit
<1>5. ASSUME UNCHANGED <<min, max, thread_count, dying_thread_count>> PROVE WithinMax'
  BY <1>5
<1>6. ASSUME NEW a \in Actors, CheckQueue(a) PROVE WithinMax'
  BY <1>1, <1>2, <1>5, <1>6 DEF CheckQueue, CheckEnter, CleanReap, CreateEnter, SpawnFails, Record,
     CleanJoin, Spawn
<1>7. ASSUME NEW w \in Workers, Worker(w) PROVE WithinMax'
  BY <1>3, <1>4, <1>5, <1>7 DEF Worker, Start, Loop, Pop, PopSleep, PopBreak, PopTimeout, IdleTick,
     Busy, Run, Unbusy, Ended
<1>8. CASE (\E c \in Clients : AddJob(c)) \/ Created \/ DestroyDown \/ Destroy \/ UNCHANGED tpVars
  BY <1>5, <1>8 DEF AddJob, Created, DestroyDown, Destroy, DestroyLock, DestroyPool, DestroyJoin,
     tpVars
<1> QED
  BY <1>6, <1>7, <1>8 DEF TpNext

\* Only the pop, the return of a job's function and add_job move a job.
LEMMA JobsKept ==
    ASSUME JobsAccounted, UNCHANGED <<q, job, added, ran>> PROVE JobsAccounted'
BY DEF JobsAccounted, Held

\* The first job goes from the queue to one worker.
LEMMA PopJobs ==
    ASSUME Control, JobsAccounted, NEW w \in Workers, Pop(w) PROVE JobsAccounted'
<1>1. /\ at[w] \in {"pop", "popwait"} /\ q # <<>> /\ q' = Tail(q)
      /\ job' = [job EXCEPT ![w] = Head(q)] /\ added' = added /\ ran' = ran
  BY DEF Pop, hist
<1>t. /\ q \in Seq(1 .. MaxJobs) /\ ran \in Seq(1 .. MaxJobs) /\ added \in Nat
      /\ job \in [Workers -> 0 .. MaxJobs]
  BY PoolBounds DEF Control, PoolTypes
<1>2. /\ Head(q) \in 1 .. MaxJobs /\ Head(q) = q[1]
      /\ Len(q) \in Nat /\ Len(q) > 0 /\ DOMAIN q = 1 .. Len(q)
      /\ Len(q') = Len(q) - 1 /\ DOMAIN q' = 1 .. Len(q) - 1
      /\ \A i \in 1 .. Len(q) - 1 : q'[i] = q[i + 1]
  <2>1. Len(q) \in Nat /\ Len(q) > 0 /\ DOMAIN q = 1 .. Len(q)
    BY <1>1, <1>t
  <2>2. /\ Head(q) \in 1 .. MaxJobs /\ Tail(q) \in Seq(1 .. MaxJobs) /\ Len(Tail(q)) = Len(q) - 1
        /\ \A i \in 1 .. Len(Tail(q)) : Tail(q)[i] = q[i + 1]
    BY <1>1, <1>t, HeadTailProperties
  <2> QED
    BY <1>1, <1>t, <2>1, <2>2
<1>3. job[w] = NoJob
  BY <1>1 DEF Control, JobsHeld, CheckAt
<1>4. /\ job'[w] = q[1] /\ q[1] # NoJob
      /\ \A v \in Workers \ {w} : job'[v] = job[v]
  BY <1>1, <1>t, <1>2 DEF NoJob
<1>5. w \notin Held /\ Held' = Held \cup {w}
  BY <1>3, <1>4 DEF Held
<1>6. added' = Len(q') + Cardinality(Held') + Len(ran')
  <2>1. IsFiniteSet(Held) /\ Cardinality(Held) \in Nat
    BY CountedFinite
  <2>2. Cardinality(Held') = Cardinality(Held) + 1
    BY <1>5, <2>1, OneMore
  <2>3. Len(ran) \in Nat
    BY <1>t
  <2> QED
    BY <1>1, <1>2, <2>1, <2>2, <2>3 DEF JobsAccounted
<1>7. ASSUME NEW j \in 1 .. added'
      PROVE  \/ \E i \in DOMAIN q' : q'[i] = j
             \/ \E v \in Held' : job'[v] = j
             \/ \E i \in DOMAIN ran' : ran'[i] = j
  <2>1. CASE \E i \in DOMAIN q : q[i] = j
    <3>1. PICK i \in 1 .. Len(q) : q[i] = j
      BY <1>2, <2>1
    <3>2. CASE i = 1
      BY <1>4, <1>5, <3>1, <3>2
    <3>3. CASE i # 1
      <4>1. i - 1 \in DOMAIN q' /\ q'[i - 1] = q[i]
        BY <1>2, <3>3
      <4> QED
        BY <3>1, <4>1
    <3> QED
      BY <3>2, <3>3
  <2>2. CASE \E v \in Held : job[v] = j
    BY <1>4, <1>5, <2>2 DEF Held
  <2>3. CASE \E i \in DOMAIN ran : ran[i] = j
    BY <1>1, <2>3
  <2> QED
    BY <1>1, <2>1, <2>2, <2>3 DEF JobsAccounted
<1>8. \A i, k \in DOMAIN q' : i < k => q'[i] < q'[k]
  <2>1. \A i \in DOMAIN q' : i + 1 \in DOMAIN q /\ q'[i] = q[i + 1] /\ i \in Nat
    BY <1>2
  <2> QED
    BY <2>1 DEF JobsAccounted
<1> QED
  BY <1>6, <1>7, <1>8 DEF JobsAccounted

\* A job goes from its worker to the jobs that were run.
LEMMA RunJobs ==
    ASSUME Control, JobsAccounted, NEW w \in Workers, Run(w) PROVE JobsAccounted'
<1>1. /\ at[w] = "run" /\ ran' = Append(ran, job[w])
      /\ job' = [job EXCEPT ![w] = NoJob] /\ added' = added /\ q' = q
  BY DEF Run
<1>t. /\ q \in Seq(1 .. MaxJobs) /\ ran \in Seq(1 .. MaxJobs) /\ added \in Nat
      /\ job \in [Workers -> 0 .. MaxJobs]
  BY PoolBounds DEF Control, PoolTypes
<1>2. job[w] # NoJob /\ job'[w] = NoJob /\ \A v \in Workers \ {w} : job'[v] = job[v]
  BY <1>1, <1>t DEF Control, JobsHeld
<1>3. w \in Held /\ Held' = Held \ {w}
  BY <1>2 DEF Held
<1>4. /\ Len(ran) \in Nat /\ Len(ran') = Len(ran) + 1
      /\ DOMAIN ran = 1 .. Len(ran) /\ DOMAIN ran' = 1 .. Len(ran) + 1
      /\ ran'[Len(ran) + 1] = job[w] /\ \A i \in 1 .. Len(ran) : ran'[i] = ran[i]
  <2>1. job[w] \in 1 .. MaxJobs
    BY <1>t, <1>2 DEF NoJob
  <2> QED
    BY <1>1, <1>t, <2>1, AppendProperties
<1>5. added' = Len(q') + Cardinality(Held') + Len(ran')
  <2>1. IsFiniteSet(Held) /\ Cardinality(Held) \in Nat
    BY CountedFinite
  <2>2. Cardinality(Held') = Cardinality(Held) - 1
    BY <1>3, <2>1, OneMore
  <2>3. Len(q) \in Nat
    BY <1>t
  <2> QED
    BY <1>1, <1>4, <2>1, <2>2, <2>3 DEF JobsAccounted
<1>6. ASSUME NEW j \in 1 .. added'
      PROVE  \/ \E i \in DOMAIN q' : q'[i] = j
             \/ \E v \in Held' : job'[v] = j
             \/ \E i \in DOMAIN ran' : ran'[i] = j
  <2>1. CASE \E i \in DOMAIN q : q[i] = j
    BY <1>1, <2>1
  <2>2. CASE \E v \in Held : job[v] = j
    <3>1. PICK v \in Held : job[v] = j
      BY <2>2
    <3>2. CASE v = w
      BY <1>4, <3>1, <3>2
    <3>3. CASE v # w
      BY <1>2, <1>3, <3>1, <3>3 DEF Held
    <3> QED
      BY <3>2, <3>3
  <2>3. CASE \E i \in DOMAIN ran : ran[i] = j
    BY <1>4, <2>3
  <2> QED
    BY <1>1, <2>1, <2>2, <2>3 DEF JobsAccounted
<1>7. \A i, k \in DOMAIN q' : i < k => q'[i] < q'[k]
  BY <1>1 DEF JobsAccounted
<1> QED
  BY <1>5, <1>6, <1>7 DEF JobsAccounted

\* A new job goes to the end of the queue.
LEMMA AddJobJobs ==
    ASSUME Control, JobsAccounted, NEW c \in Clients, AddJob(c) PROVE JobsAccounted'
<1>1. /\ added' = added + 1 /\ q' = Append(q, added + 1) /\ job' = job /\ ran' = ran
      /\ added < MaxJobs
  BY DEF AddJob, own
<1>t. /\ q \in Seq(1 .. MaxJobs) /\ ran \in Seq(1 .. MaxJobs) /\ added \in Nat
      /\ added + 1 \in 1 .. MaxJobs
  BY <1>1, PoolBounds DEF Control, PoolTypes
<1>2. /\ Len(q) \in Nat /\ Len(q') = Len(q) + 1
      /\ DOMAIN q = 1 .. Len(q) /\ DOMAIN q' = 1 .. Len(q) + 1
      /\ q'[Len(q) + 1] = added + 1 /\ \A i \in 1 .. Len(q) : q'[i] = q[i]
  BY <1>1, <1>t, AppendProperties
<1>3. Held' = Held
  BY <1>1 DEF Held
<1>4. added' = Len(q') + Cardinality(Held') + Len(ran')
  <2>1. Cardinality(Held) \in Nat /\ Len(ran) \in Nat
    BY <1>t, CountedFinite
  <2> QED
    BY <1>1, <1>2, <1>3, <2>1 DEF JobsAccounted
<1>5. ASSUME NEW j \in 1 .. added'
      PROVE  \/ \E i \in DOMAIN q' : q'[i] = j
             \/ \E v \in Held' : job'[v] = j
             \/ \E i \in DOMAIN ran' : ran'[i] = j
  <2>1. CASE j = added + 1
    BY <1>2, <2>1
  <2>2. CASE j # added + 1
    <3>1. j \in 1 .. added
      BY <1>1, <1>t, <2>2
    <3> QED
      BY <1>1, <1>2, <1>3, <3>1 DEF JobsAccounted
  <2> QED
    BY <2>1, <2>2
<1>6. ASSUME NEW i \in DOMAIN q', NEW k \in DOMAIN q', i < k PROVE q'[i] < q'[k]
  <2>1. i \in 1 .. Len(q) /\ q'[i] = q[i] /\ q[i] \in Nat /\ q[i] <= added
    <3>1. i \in 1 .. Len(q) /\ q'[i] = q[i]
      BY <1>2, <1>6
    <3>2. q[i] \in 1 .. MaxJobs
      BY <1>t, <3>1, ElementOfSeq
    <3> QED
      BY <1>2, <3>1, <3>2 DEF Control, JobsHeld
  <2>2. CASE k = Len(q) + 1
    BY <1>2, <1>t, <2>1, <2>2
  <2>3. CASE k # Len(q) + 1
    BY <1>2, <1>6, <2>1, <2>3 DEF JobsAccounted
  <2> QED
    BY <2>2, <2>3
<1> QED
  BY <1>4, <1>5, <1>6 DEF JobsAccounted

-----------------------------------------------------------------------------
(* The theorems                                                            *)

IInv == Control /\ CountsExact /\ WithinMax /\ JobsAccounted

\* What is reserved is finite.
LEMMA ReservedType ==
    ASSUME Control PROVE Cardinality(Reserved) \in Nat
<1>1. IsFiniteSet(Actors) /\ min + 1 \in Int /\ 1 \in Int
  <2>1. IsFiniteSet(Actors)
    BY PoolFinite, FS_Union DEF Actors
  <2> QED
    BY <2>1 DEF Control, PoolTypes
<1>2. IsFiniteSet(1 .. min + 1)
  BY <1>1, FS_Interval, Zenon
<1>3. IsFiniteSet(Actors \X (1 .. min + 1))
  BY <1>1, <1>2, FS_Product
<1> QED
  BY <1>3, FS_Subset, FS_CardinalityType DEF Reserved

\* Counters that are exact are natural numbers.
LEMMA CountersType ==
    ASSUME Control, CountsExact PROVE Counters
<1>1. /\ Cardinality(Alive) \in Nat /\ Cardinality(Running) \in Nat
      /\ Cardinality(BusyWorkers) \in Nat /\ Cardinality(Dying) \in Nat
  BY CountedFinite
<1>2. Cardinality(Reserved) \in Nat
  BY ReservedType
<1> QED
  BY <1>1, <1>2 DEF CountsExact, Counters, BusyWorkers, Dying

\* ks_thread_pool_create starts from an empty pool.
LEMMA InitControl == TpInit => Control
<1> SUFFICES ASSUME TpInit PROVE Control
  OBVIOUS
<1> USE OwnerIsClient, PoolNames, PoolBounds, PoolSizes
    DEF TpInit, Actors, CheckAt, WorkerAt, ClientAt, NoJob
<1>1. PoolTypes
  <2>1. min \in Nat /\ max \in Nat
    OBVIOUS
  <2>2. q \in Seq(1 .. MaxJobs) /\ ran \in Seq(1 .. MaxJobs)
    OBVIOUS
  <2> QED
    BY <2>1, <2>2 DEF PoolTypes
<1>2. LocksHeld
  BY DEF LocksHeld
<1>3. InLoop
  BY DEF InLoop
<1>4. Returns
  BY DEF Returns
<1>5. Down
  BY DEF Down
<1>6. Leaving /\ Reaping
  BY DEF Leaving, Reaping
<1>7. Recorded
  BY DEF Recorded
<1>8. JobsHeld
  BY DEF JobsHeld
<1> QED
  BY <1>1, <1>2, <1>3, <1>4, <1>5, <1>6, <1>7, <1>8 DEF Control

\* The inductive invariant holds at the start.
LEMMA InitIInv == TpInit => IInv
<1> SUFFICES ASSUME TpInit PROVE IInv
  OBVIOUS
<1>1. Control
  BY InitControl
<1>e. Cardinality({}) = 0
  BY FS_EmptySet
<1>2. CountsExact
  <2>1. Alive = {} /\ Running = {} /\ BusyWorkers = {} /\ Dying = {}
    BY OwnerIsClient, PoolNames DEF TpInit, Alive, Running, BusyWorkers, Dying, Actors
  <2>2. Reserved = {}
    <3>1. \A a \in Actors : Owed(a) = 0
      BY DEF TpInit, Owed
    <3> QED
      BY <1>1, <3>1 DEF Reserved, Control, PoolTypes
  <2>3. /\ thread_count = 0 /\ busy_thread_count = 0
        /\ running_thread_count = 0 /\ dying_thread_count = 0
    BY DEF TpInit
  <2>4. /\ thread_count = Cardinality(Alive) + Cardinality(Reserved)
        /\ running_thread_count = Cardinality(Running)
        /\ busy_thread_count = Cardinality(BusyWorkers)
        /\ dying_thread_count = Cardinality(Dying)
    BY <1>e, <2>1, <2>2, <2>3
  <2> QED
    BY <2>4 DEF CountsExact, BusyWorkers, Dying
<1>3. WithinMax
  BY <1>1 DEF TpInit, WithinMax, Control, PoolTypes
<1>4. JobsAccounted
  <2>1. Held = {}
    BY DEF TpInit, Held
  <2> QED
    BY <1>e, <2>1 DEF TpInit, JobsAccounted
<1> QED
  BY <1>1, <1>2, <1>3, <1>4 DEF IInv

\* Every step keeps the control part.
LEMMA NextControl ==
    ASSUME Control, Counters, [TpNext]_tpVars PROVE Control'
<1>1. ASSUME NEW a \in Actors, CheckQueue(a) PROVE Control'
  BY <1>1, CheckEnterKeeps, CleanJoinKeeps, CleanReapKeeps, CheckCountKeeps, CreateEnterKeeps,
     CreateGiveUpKeeps, SpawnKeeps, SpawnFailsKeeps, UncountKeeps, RecordKeeps DEF CheckQueue
<1>2. ASSUME NEW w \in Workers, Worker(w) PROVE Control'
  BY <1>2, WorkerMovesKeep, PopKeeps, PopTimeoutKeeps, RunKeeps, ExitKeeps, EndedKeeps DEF Worker
<1>3. ASSUME NEW c \in Clients, AddJob(c) PROVE Control'
  BY <1>3, AddJobKeeps
<1>4. CASE Created \/ DestroyDown \/ Destroy
  BY <1>4, CreatedKeeps, DestroyDownKeeps, DestroyLockKeeps, DestroyJoinKeeps, DestroyFreeKeeps
     DEF Destroy
<1>5. CASE UNCHANGED tpVars
  <2> USE <1>5 DEF tpVars, sizes, counts, hashes, locks, local, own, hist
  <2>1. PoolTypes' /\ LocksHeld' /\ InLoop' /\ Returns' /\ Down'
    BY DEF Control, PoolTypes, LocksHeld, InLoop, Returns, Down
  <2>2. Leaving' /\ Reaping' /\ Recorded' /\ JobsHeld'
    BY DEF Control, Leaving, Reaping, Ending, Recorded, JobsHeld
  <2> QED
    BY <2>1, <2>2 DEF Control
<1> QED
  BY <1>1, <1>2, <1>3, <1>4, <1>5 DEF TpNext

\* Every step keeps the counters exact.
LEMMA NextCounts ==
    ASSUME Control, Control', Counters, CountsExact, [TpNext]_tpVars PROVE CountsExact'
<1>1. ASSUME NEW a \in Actors, CheckQueue(a) PROVE CountsExact'
  BY <1>1, UncountedSteps, CheckCountCounts, CreateGiveUpCounts, SpawnCounts, UncountCounts
     DEF CheckQueue
<1>2. ASSUME NEW w \in Workers, Worker(w) PROVE CountsExact'
  BY <1>2, UncountedSteps, WorkerCounts DEF Worker
<1>3. CASE (\E c \in Clients : AddJob(c)) \/ Created \/ DestroyDown \/ Destroy
  BY <1>3, UncountedSteps DEF Destroy
<1>4. CASE UNCHANGED tpVars
  BY <1>4 DEF tpVars, sizes, counts, local, own, CountsExact, Alive, Running, Reserved, Owed
<1> QED
  BY <1>1, <1>2, <1>3, <1>4 DEF TpNext

\* Every step keeps the jobs accounted for.
LEMMA NextJobs ==
    ASSUME Control, JobsAccounted, [TpNext]_tpVars PROVE JobsAccounted'
<1> USE DEF sizes, own, hist
<1>1. ASSUME NEW a \in Actors, CheckQueue(a) PROVE JobsAccounted'
  BY <1>1, JobsKept DEF CheckQueue, CheckEnter, CheckCount, CleanReap, CreateEnter, CreateGiveUp,
     SpawnFails, Uncount, Record, CleanJoin, Spawn
<1>2. ASSUME NEW w \in Workers, Worker(w) PROVE JobsAccounted'
  BY <1>2, JobsKept, PopJobs, RunJobs DEF Worker, Start, Loop, PopSleep, PopBreak, PopTimeout,
     IdleTick, MayDie, Busy, Unbusy, Exit, Ended
<1>3. ASSUME NEW c \in Clients, AddJob(c) PROVE JobsAccounted'
  BY <1>3, AddJobJobs
<1>4. CASE Created \/ DestroyDown \/ Destroy \/ UNCHANGED tpVars
  BY <1>4, JobsKept DEF Created, DestroyDown, Destroy, DestroyLock, DestroyPool, DestroyJoin, tpVars
<1> QED
  BY <1>1, <1>2, <1>3, <1>4 DEF TpNext

\* Every step keeps the inductive invariant.
LEMMA NextIInv == IInv /\ [TpNext]_tpVars => IInv'
<1> SUFFICES ASSUME IInv, [TpNext]_tpVars PROVE IInv'
  OBVIOUS
<1>1. Counters
  BY CountersType DEF IInv
<1>2. Control'
  BY <1>1, NextControl DEF IInv
<1>3. CountsExact'
  BY <1>1, <1>2, NextCounts DEF IInv
<1>4. WithinMax' /\ JobsAccounted'
  BY <1>1, SizeKept, NextJobs DEF IInv
<1> QED
  BY <1>2, <1>3, <1>4 DEF IInv

\* The inductive invariant holds throughout.
LEMMA SpecIInv == TpSpec => []IInv
BY InitIInv, NextIInv, PTL DEF TpSpec

\* Every field of the pool and of its threads keeps its type: no counter goes
\* below zero, no lock is held by a stranger.
THEOREM PoolTyped == TpSpec => []TpTypeOK
<1>1. IInv => TpTypeOK
  BY CountersType DEF IInv, Control, PoolTypes, Counters, TpTypeOK
<1> QED
  BY <1>1, SpecIInv, PTL

\* thread_count, busy_thread_count, running_thread_count and
\* dying_thread_count are exact at every moment, and the unsigned
\* subtractions check_queue and a worker that may die make of them never wrap.
THEOREM PoolCounts == TpSpec => []CountsSound
<1>1. ASSUME IInv PROVE CountsSound
  <2>1. /\ IsFiniteSet(Alive) /\ Cardinality(Alive) \in Nat
        /\ IsFiniteSet(Running) /\ Cardinality(Running) \in Nat
        /\ IsFiniteSet(BusyWorkers) /\ Cardinality(BusyWorkers) \in Nat
        /\ IsFiniteSet(Dying) /\ Cardinality(Dying) \in Nat
    BY CountedFinite
  <2>2. /\ Dying \subseteq Alive /\ BusyWorkers \cup Dying \subseteq Running
        /\ BusyWorkers \cap Dying = {}
    BY <1>1 DEF IInv, Control, Leaving, Dying, Alive, BusyWorkers, Running
  <2>3. Cardinality(BusyWorkers \cup Dying) = Cardinality(BusyWorkers) + Cardinality(Dying)
    <3>1. Cardinality(BusyWorkers \cup Dying)
            = Cardinality(BusyWorkers) + Cardinality(Dying) - Cardinality(BusyWorkers \cap Dying)
      BY <2>1, FS_Union
    <3>2. Cardinality({}) = 0
      BY FS_EmptySet
    <3>3. Cardinality(BusyWorkers \cap Dying) = 0
      BY <2>2, <3>2
    <3> QED
      BY <2>1, <3>1, <3>3
  <2>4. /\ Cardinality(BusyWorkers \cup Dying) <= Cardinality(Running)
        /\ Cardinality(Dying) <= Cardinality(Alive)
    BY <2>1, <2>2, FS_Subset
  <2>5. Counters
    BY <1>1, CountersType DEF IInv
  <2>6. /\ running_thread_count = Cardinality(Running)
        /\ busy_thread_count = Cardinality(BusyWorkers)
        /\ dying_thread_count = Cardinality(Dying)
        /\ thread_count = Cardinality(Alive) + Cardinality(Reserved)
    BY <1>1 DEF IInv, CountsExact, BusyWorkers, Dying
  <2>7. Cardinality(Reserved) \in Nat
    BY <1>1, ReservedType DEF IInv
  <2> QED
    BY <1>1, <2>1, <2>3, <2>4, <2>5, <2>6, <2>7 DEF CountsSound, NoWrap, IInv
<1> QED
  BY <1>1, SpecIInv, PTL

\* The threads that mean to stay, the ones still to be started included,
\* never exceed the size of the pool.
THEOREM PoolWithinMax == TpSpec => []WithinMax
<1>1. IInv => WithinMax
  BY DEF IInv
<1> QED
  BY <1>1, SpecIInv, PTL

\* Every job that was added is on the queue, with one worker or run, once, and
\* the queue is in the order of adding.
THEOREM PoolJobs == TpSpec => []JobsAccounted
<1>1. IInv => JobsAccounted
  BY DEF IInv
<1> QED
  BY <1>1, SpecIInv, PTL

\* When ks_thread_pool_destroy frees the pool no thread of it is left: none is
\* running, none is on its way out, none is still to be joined.
THEOREM PoolDestroyedQuiet == TpSpec => []DestroyedQuiet
<1>1. ASSUME IInv PROVE DestroyedQuiet
  <2>1. SUFFICES ASSUME at[Owner] = "destroyed", NEW w \in Workers PROVE at[w] = "none"
    BY DEF DestroyedQuiet
  <2>2. state = "DOWN" /\ thread_hash = {}
    BY <1>1, <2>1 DEF IInv, Control, Down, Recorded
  <2>3. \A a \in Actors : at[a] # "record"
    BY <1>1, <2>2 DEF IInv, Control, Down
  <2> QED
    BY <1>1, <2>2, <2>3 DEF IInv, Control, Recorded
<1> QED
  BY <1>1, SpecIInv, PTL
=============================================================================
