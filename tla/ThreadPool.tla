----------------------------- MODULE ThreadPool -----------------------------
(***************************************************************************)
(* The thread pool of libks (ks_thread_pool.c) over its threads            *)
(* (ks_thread.c). Workers and callers run check_queue, the only place that *)
(* starts threads and reaps dead ones; `at' says where each of them is.    *)
(*                                                                         *)
(* A critical section that cannot block is one action, enabled when its    *)
(* lock is free. The sections that can block inside hold a lock across     *)
(* actions: check_queue joins dead threads and takes the lock of           *)
(* thread_hash under tp->mutex, starts threads under tp->state_mutex, and  *)
(* ks_thread_pool_destroy joins every thread under the lock of             *)
(* thread_hash. The lock of thread_die_hash is only taken under tp->mutex  *)
(* and is left out. All of them are plain (recursive) mutexes.             *)
(*                                                                         *)
(* The job queue is the FIFO that KsQ implements, with ks_q_pop_timeout's  *)
(* three outcomes. Its length (TP_MAX_QLEN, 1024) is never reached here    *)
(* and the pool never terminates it.                                       *)
(***************************************************************************)
EXTENDS Integers, Sequences, FiniteSets

CONSTANTS Workers,          \* the ks_thread_t handles; a freed one is used again
          Clients,          \* the threads that call add_job
          Owner,            \* the one that created the pool and destroys it
          None,             \* nobody, no thread
          Sizes,            \* the <<min, max>> ks_thread_pool_create is given
          IdleTicks,        \* timeouts after which a worker may die: 10 * idle_sec
          MaxJobs,          \* bound: jobs added in one behaviour
          MaxFailures       \* bound: threads the system refuses to start

ASSUME PoolFinite == IsFiniteSet(Workers) /\ IsFiniteSet(Clients)
ASSUME OwnerIsClient == Owner \in Clients
ASSUME PoolSizes == Sizes \subseteq Nat \X Nat
ASSUME PoolBounds == IdleTicks \in Nat /\ MaxJobs \in Nat /\ MaxFailures \in Nat
ASSUME PoolNames == Workers \cap Clients = {} /\ None \notin Workers \cup Clients

VARIABLES min, max,         \* the size it is meant to have
          state,            \* TP_STATE_RUNNING or TP_STATE_DOWN
          q,                \* the jobs queued; a job is its number
          thread_count, busy_thread_count, running_thread_count, dying_thread_count,
          thread_hash,      \* the threads check_queue has recorded
          thread_die_hash,  \* the threads that have left worker_thread
          mutex, state_mutex, hash_mutex,  \* who holds each lock
          at,               \* where each thread is
          ret,              \* where it goes when check_queue returns
          need,             \* check_queue: threads still to start
          thread,           \* check_queue: the thread it reaps or has started
          job,              \* the job a worker has taken
          idle,             \* its idle_sec
          die,              \* its die
          added, ran,       \* history: jobs added, jobs run, in order
          failures          \* history: threads that could not be started

Actors == Workers \cup Clients

counts == <<thread_count, busy_thread_count, running_thread_count, dying_thread_count>>
locks == <<mutex, state_mutex, hash_mutex>>
hashes == <<thread_hash, thread_die_hash>>
sizes == <<min, max>>
hist == <<added, ran, failures>>
local == <<ret, need, thread>>
own == <<job, idle, die>>
tpVars == <<sizes, state, q, counts, hashes, locks, at, local, own, hist>>

NoJob == 0

TpInit ==
    /\ \E s \in Sizes : min = s[1] /\ max = s[2]
    /\ state = "RUNNING"
    /\ q = <<>>
    /\ thread_count = 0 /\ busy_thread_count = 0
    /\ running_thread_count = 0 /\ dying_thread_count = 0
    /\ thread_hash = {} /\ thread_die_hash = {}
    /\ mutex = None /\ state_mutex = None /\ hash_mutex = None
    \* ks_thread_pool_create ends in check_queue(tp, KS_FALSE).
    /\ at = [a \in Actors |-> IF a = Owner THEN "check" ELSE "none"]
    /\ ret = [a \in Actors |-> IF a = Owner THEN "created" ELSE "none"]
    /\ need = [a \in Actors |-> 0]
    /\ thread = [a \in Actors |-> None]
    /\ job = [w \in Workers |-> NoJob]
    /\ idle = [w \in Workers |-> 0]
    /\ die = [w \in Workers |-> FALSE]
    /\ added = 0 /\ ran = <<>> /\ failures = 0

MoveTo(a, where) == at' = [at EXCEPT ![a] = where]

\* Call check_queue and go on at `after' when it returns.
CallCheck(a, after) ==
    /\ MoveTo(a, "check")
    /\ ret' = [ret EXCEPT ![a] = after]

-----------------------------------------------------------------------------
(* check_queue, cleanup_threads                                            *)

\* Mutant: the early return keeps the lock.
CheckEnterKeepsLock(a) ==
    /\ at[a] = "check" /\ mutex = None
    /\ mutex' = a
    /\ MoveTo(a, IF state = "RUNNING" THEN "clean" ELSE ret[a])
    /\ UNCHANGED <<sizes, state, q, counts, hashes, state_mutex, hash_mutex, local, own, hist>>

\* Take tp->mutex; a pool that is going down is left alone.
CheckEnter(a) ==
    /\ at[a] = "check" /\ mutex = None
    /\ IF state = "RUNNING"
       THEN MoveTo(a, "clean") /\ mutex' = a
       ELSE MoveTo(a, ret[a]) /\ UNCHANGED mutex
    /\ UNCHANGED <<sizes, state, q, counts, hashes, state_mutex, hash_mutex, local, own, hist>>

\* cleanup_threads joins a dead thread (it may still be on its way out) and
\* takes it out of thread_die_hash.
CleanJoin(a, w) ==
    /\ at[a] = "clean"
    /\ w \in thread_die_hash
    /\ at[w] # "exiting"
    /\ thread_die_hash' = thread_die_hash \ {w}
    /\ thread' = [thread EXCEPT ![a] = w]
    /\ MoveTo(a, "reap")
    /\ UNCHANGED <<sizes, state, q, counts, thread_hash, locks, ret, need, own, hist>>

\* It takes it out of thread_hash and frees it.
CleanReap(a) ==
    /\ at[a] = "reap" /\ hash_mutex = None
    /\ thread_hash' = thread_hash \ {thread[a]}
    /\ at' = [at EXCEPT ![thread[a]] = "none", ![a] = "clean"]
    /\ thread' = [thread EXCEPT ![a] = None]
    /\ UNCHANGED <<sizes, state, q, counts, thread_die_hash, locks, ret, need, own, hist>>

\* Mutant: the adder does not look at max.
MissingIgnoringMax(adding) ==
    IF thread_count < min THEN min - thread_count
    ELSE IF adding /\ busy_thread_count + Len(q) >= running_thread_count - dying_thread_count
         THEN 1 ELSE 0

\* How many threads to start. An adder asks for one more when the jobs
\* outnumber the threads that are not busy and not dying.
Missing(adding) ==
    IF thread_count < min THEN min - thread_count
    ELSE IF /\ adding
            /\ busy_thread_count + Len(q) >= running_thread_count - dying_thread_count
            /\ thread_count - dying_thread_count + 1 <= max
         THEN 1 ELSE 0

\* Nothing is left to reap: count the threads to start and leave the lock.
CheckCount(a) ==
    /\ at[a] = "clean" /\ thread_die_hash = {}
    /\ LET n == Missing(ret[a] = "ready") IN
       /\ need' = [need EXCEPT ![a] = n]
       /\ thread_count' = thread_count + n
       /\ MoveTo(a, IF n > 0 THEN "create" ELSE ret[a])
    /\ mutex' = None
    /\ UNCHANGED <<sizes, state, q, busy_thread_count, running_thread_count, dying_thread_count,
                   hashes, state_mutex, hash_mutex, ret, thread, own, hist>>

\* The loop that starts threads takes tp->state_mutex for each of them.
CreateEnter(a) ==
    /\ at[a] = "create" /\ state_mutex = None
    /\ state_mutex' = a
    /\ MoveTo(a, IF state = "RUNNING" THEN "spawn" ELSE "giveup")
    /\ UNCHANGED <<sizes, state, q, counts, hashes, mutex, hash_mutex, local, own, hist>>

\* The pool went down: the threads that were counted will not be started.
CreateGiveUp(a) ==
    /\ at[a] = "giveup" /\ mutex = None
    /\ thread_count' = thread_count - need[a]
    /\ need' = [need EXCEPT ![a] = 0]
    /\ state_mutex' = None
    /\ MoveTo(a, ret[a])
    /\ UNCHANGED <<sizes, state, q, busy_thread_count, running_thread_count, dying_thread_count,
                   hashes, mutex, hash_mutex, ret, thread, own, hist>>

\* ks_thread_create_ex: the worker may run at once, before it is recorded.
Spawn(a, w) ==
    /\ at[a] = "spawn" /\ at[w] = "none"
    /\ at' = [at EXCEPT ![w] = "start", ![a] = "record"]
    /\ thread' = [thread EXCEPT ![a] = w]
    /\ UNCHANGED <<sizes, state, q, counts, hashes, locks, ret, need, own, hist>>

SpawnFails(a) ==
    /\ at[a] = "spawn" /\ failures < MaxFailures
    /\ failures' = failures + 1
    /\ MoveTo(a, "uncount")
    /\ UNCHANGED <<sizes, state, q, counts, hashes, locks, local, own, added, ran>>

\* The end of one turn of the loop.
NextCreate(a) ==
    /\ state_mutex' = None
    /\ need' = [need EXCEPT ![a] = @ - 1]
    /\ MoveTo(a, IF need[a] > 1 THEN "create" ELSE ret[a])

\* Mutant: a thread that could not be started stays counted.
UncountNothing(a) ==
    /\ at[a] = "uncount" /\ mutex = None
    /\ NextCreate(a)
    /\ UNCHANGED <<sizes, state, q, counts, hashes, mutex, hash_mutex, ret, thread, own, hist>>

Uncount(a) ==
    /\ at[a] = "uncount" /\ mutex = None
    /\ thread_count' = thread_count - 1
    /\ NextCreate(a)
    /\ UNCHANGED <<sizes, state, q, busy_thread_count, running_thread_count, dying_thread_count,
                   hashes, mutex, hash_mutex, ret, thread, own, hist>>

\* Mutant: the new thread is not put into thread_hash.
RecordNothing(a) ==
    /\ at[a] = "record" /\ hash_mutex = None
    /\ thread' = [thread EXCEPT ![a] = None]
    /\ NextCreate(a)
    /\ UNCHANGED <<sizes, state, q, counts, hashes, mutex, hash_mutex, ret, own, hist>>

Record(a) ==
    /\ at[a] = "record" /\ hash_mutex = None
    /\ thread_hash' = thread_hash \cup {thread[a]}
    /\ thread' = [thread EXCEPT ![a] = None]
    /\ NextCreate(a)
    /\ UNCHANGED <<sizes, state, q, counts, thread_die_hash, mutex, hash_mutex, ret, own, hist>>

-----------------------------------------------------------------------------
(* worker_thread                                                           *)

Start(w) ==
    /\ at[w] = "start" /\ mutex = None
    /\ running_thread_count' = running_thread_count + 1
    /\ MoveTo(w, "loop")
    /\ UNCHANGED <<sizes, state, q, thread_count, busy_thread_count, dying_thread_count, hashes,
                   locks, local, own, hist>>

\* tp->state is read without a lock.
Loop(w) ==
    /\ at[w] = "loop"
    /\ MoveTo(w, IF state = "RUNNING" THEN "pop" ELSE "exit")
    /\ UNCHANGED <<sizes, state, q, counts, hashes, locks, local, own, hist>>

\* ks_q_pop_timeout finds a job, at once or after a wait.
Pop(w) ==
    /\ at[w] \in {"pop", "popwait"} /\ q # <<>>
    /\ job' = [job EXCEPT ![w] = Head(q)]
    /\ q' = Tail(q)
    /\ CallCheck(w, "busy")
    /\ UNCHANGED <<sizes, state, counts, hashes, locks, need, thread, idle, die, hist>>

PopSleep(w) ==
    /\ at[w] = "pop" /\ q = <<>>
    /\ MoveTo(w, "popwait")
    /\ UNCHANGED <<sizes, state, q, counts, hashes, locks, local, own, hist>>

\* KS_STATUS_BREAK: woken, and somebody else has the job.
PopBreak(w) ==
    /\ at[w] = "popwait" /\ q = <<>>
    /\ MoveTo(w, "loop")
    /\ UNCHANGED <<sizes, state, q, counts, hashes, locks, local, own, hist>>

\* KS_STATUS_TIMEOUT, whatever is on the queue by now (see KsQ).
PopTimeout(w) ==
    /\ at[w] = "popwait"
    /\ CallCheck(w, "idle")
    /\ UNCHANGED <<sizes, state, q, counts, hashes, locks, need, thread, own, hist>>

\* idle_sec++; the count stops at the limit, past which it no longer matters.
IdleTick(w) ==
    /\ at[w] = "idle"
    /\ idle' = [idle EXCEPT ![w] = IF @ < IdleTicks THEN @ + 1 ELSE @]
    /\ MoveTo(w, IF idle'[w] >= IdleTicks THEN "maydie" ELSE "loop")
    /\ UNCHANGED <<sizes, state, q, counts, hashes, locks, local, job, die, hist>>

\* Mutant: a worker dies when min are running.
MayDieAtMin(w) ==
    /\ at[w] = "maydie" /\ mutex = None
    /\ running_thread_count >= min
    /\ dying_thread_count' = dying_thread_count + 1
    /\ die' = [die EXCEPT ![w] = TRUE]
    /\ MoveTo(w, "exit")
    /\ UNCHANGED <<sizes, state, q, thread_count, busy_thread_count, running_thread_count,
                   hashes, locks, local, job, idle, hist>>

\* A worker that has idled long enough dies if more than min are running.
MayDie(w) ==
    /\ at[w] = "maydie" /\ mutex = None
    /\ IF /\ running_thread_count - dying_thread_count - busy_thread_count > 0
          /\ running_thread_count > min
       THEN /\ dying_thread_count' = dying_thread_count + 1
            /\ die' = [die EXCEPT ![w] = TRUE]
            /\ MoveTo(w, "exit")
       ELSE /\ MoveTo(w, "loop")
            /\ UNCHANGED <<dying_thread_count, die>>
    /\ UNCHANGED <<sizes, state, q, thread_count, busy_thread_count, running_thread_count,
                   hashes, locks, local, job, idle, hist>>

\* Mutant: a worker with a job leaves when the pool goes down.
BusyUnlessDown(w) ==
    /\ at[w] = "busy" /\ mutex = None
    /\ IF state = "RUNNING"
       THEN MoveTo(w, "run") /\ busy_thread_count' = busy_thread_count + 1 /\ UNCHANGED job
       ELSE MoveTo(w, "exit") /\ job' = [job EXCEPT ![w] = NoJob] /\ UNCHANGED busy_thread_count
    /\ idle' = [idle EXCEPT ![w] = 0]
    /\ UNCHANGED <<sizes, state, q, thread_count, running_thread_count, dying_thread_count,
                   hashes, locks, local, die, hist>>

Busy(w) ==
    /\ at[w] = "busy" /\ mutex = None
    /\ busy_thread_count' = busy_thread_count + 1
    /\ idle' = [idle EXCEPT ![w] = 0]
    /\ MoveTo(w, "run")
    /\ UNCHANGED <<sizes, state, q, thread_count, running_thread_count, dying_thread_count,
                   hashes, locks, local, job, die, hist>>

\* The job's function returns and the job is freed.
Run(w) ==
    /\ at[w] = "run"
    /\ ran' = Append(ran, job[w])
    /\ job' = [job EXCEPT ![w] = NoJob]
    /\ MoveTo(w, "unbusy")
    /\ UNCHANGED <<sizes, state, q, counts, hashes, locks, local, idle, die, added, failures>>

Unbusy(w) ==
    /\ at[w] = "unbusy" /\ mutex = None
    /\ busy_thread_count' = busy_thread_count - 1
    /\ MoveTo(w, "loop")
    /\ UNCHANGED <<sizes, state, q, thread_count, running_thread_count, dying_thread_count,
                   hashes, locks, local, own, hist>>

\* Mutant: a thread that leaves because the pool goes down is taken for one
\* that dies of idleness.
ExitDying(w) ==
    /\ at[w] = "exit" /\ mutex = None
    /\ running_thread_count' = running_thread_count - 1
    /\ thread_count' = thread_count - 1
    /\ dying_thread_count' = dying_thread_count - 1
    /\ thread_die_hash' = thread_die_hash \cup {w}
    /\ MoveTo(w, "exiting")
    /\ die' = [die EXCEPT ![w] = FALSE]
    /\ idle' = [idle EXCEPT ![w] = 0]
    /\ UNCHANGED <<sizes, state, q, busy_thread_count, thread_hash, locks, local, job, hist>>

Exit(w) ==
    /\ at[w] = "exit" /\ mutex = None
    /\ running_thread_count' = running_thread_count - 1
    /\ thread_count' = thread_count - 1
    /\ dying_thread_count' = dying_thread_count - (IF die[w] THEN 1 ELSE 0)
    /\ thread_die_hash' = thread_die_hash \cup {w}
    /\ MoveTo(w, "exiting")
    /\ die' = [die EXCEPT ![w] = FALSE]
    /\ idle' = [idle EXCEPT ![w] = 0]
    /\ UNCHANGED <<sizes, state, q, busy_thread_count, thread_hash, locks, local, job, hist>>

\* thread_launch clears in_use and the thread ends: joins return.
Ended(w) ==
    /\ at[w] = "exiting"
    /\ MoveTo(w, "ended")
    /\ UNCHANGED <<sizes, state, q, counts, hashes, locks, local, own, hist>>

-----------------------------------------------------------------------------
(* The callers                                                             *)

\* ks_thread_pool_create returns: the callers have the pool.
Created ==
    /\ at[Owner] = "created"
    /\ at' = [a \in Actors |-> IF a \in Clients THEN "ready" ELSE at[a]]
    /\ UNCHANGED <<sizes, state, q, counts, hashes, locks, local, own, hist>>

AddJob(c) ==
    /\ at[c] = "ready" /\ state = "RUNNING" /\ added < MaxJobs
    /\ added' = added + 1
    /\ q' = Append(q, added + 1)
    /\ CallCheck(c, "ready")
    /\ UNCHANGED <<sizes, state, counts, hashes, locks, need, thread, own, ran, failures>>

\* The owner destroys the pool when no other caller is in a call.
DestroyDown ==
    /\ \A c \in Clients : at[c] = "ready"
    /\ state = "RUNNING" /\ state_mutex = None
    /\ state' = "DOWN"
    /\ MoveTo(Owner, "destroy_lock")
    /\ UNCHANGED <<sizes, q, counts, hashes, locks, local, own, hist>>

DestroyLock ==
    /\ at[Owner] = "destroy_lock" /\ hash_mutex = None
    /\ hash_mutex' = Owner
    /\ MoveTo(Owner, "destroy_join")
    /\ UNCHANGED <<sizes, state, q, counts, hashes, mutex, state_mutex, local, own, hist>>

\* Join, unrecord and free the threads in thread_hash one after the other.
DestroyJoin(w) ==
    /\ at[Owner] = "destroy_join"
    /\ w \in thread_hash /\ at[w] \in {"ended", "none"}
    /\ thread_hash' = thread_hash \ {w}
    /\ MoveTo(w, "none")
    /\ UNCHANGED <<sizes, state, q, counts, thread_die_hash, locks, local, own, hist>>

\* The hashes, the queue with its jobs, the locks and the pool are freed.
DestroyPool ==
    /\ at[Owner] = "destroy_join" /\ thread_hash = {}
    /\ hash_mutex' = None
    /\ MoveTo(Owner, "destroyed")
    /\ UNCHANGED <<sizes, state, q, counts, hashes, mutex, state_mutex, local, own, hist>>

-----------------------------------------------------------------------------
CheckQueue(a) ==
    \/ CheckEnter(a) \/ CheckCount(a) \/ CleanReap(a)
    \/ CreateEnter(a) \/ CreateGiveUp(a) \/ SpawnFails(a) \/ Uncount(a) \/ Record(a)
    \/ \E w \in Workers : CleanJoin(a, w) \/ Spawn(a, w)

Worker(w) ==
    \/ Start(w) \/ Loop(w) \/ Pop(w) \/ PopSleep(w) \/ PopBreak(w) \/ PopTimeout(w)
    \/ IdleTick(w) \/ MayDie(w) \/ Busy(w) \/ Run(w) \/ Unbusy(w) \/ Exit(w) \/ Ended(w)

Destroy == DestroyLock \/ DestroyPool \/ \E w \in Workers : DestroyJoin(w)

TpNext ==
    \/ \E a \in Actors : CheckQueue(a)
    \/ \E w \in Workers : Worker(w)
    \/ \E c \in Clients : AddJob(c)
    \/ Created \/ DestroyDown \/ Destroy

TpSpec == TpInit /\ [][TpNext]_tpVars

\* A step of thread a in a call that it is in.
GoesOn(a) ==
    \/ CheckQueue(a)
    \/ a \in Workers /\ Worker(a)
    \/ a = Owner /\ (Created \/ Destroy)

\* Every thread goes on, gets a lock that is free again and again, and every
\* job returns; when jobs are added and the pool destroyed is up to callers.
TpFairness == \A a \in Actors : SF_tpVars(GoesOn(a))

TpFairSpec == TpSpec /\ TpFairness
-----------------------------------------------------------------------------
(* Properties                                                              *)

CheckAt == {"check", "clean", "reap", "create", "giveup", "spawn", "uncount", "record"}
WorkerAt == {"none", "start", "loop", "pop", "popwait", "idle", "maydie", "busy", "run",
             "unbusy", "exit", "exiting", "ended"} \cup CheckAt
ClientAt == {"none", "created", "ready", "destroy_lock", "destroy_join", "destroyed"} \cup CheckAt

\* Every field holds a value of its type.
TpTypeOK ==
    /\ min \in Nat /\ max \in Nat
    /\ state \in {"RUNNING", "DOWN"}
    /\ q \in Seq(1 .. MaxJobs) /\ ran \in Seq(1 .. MaxJobs)
    /\ thread_count \in Nat /\ busy_thread_count \in Nat
    /\ running_thread_count \in Nat /\ dying_thread_count \in Nat
    /\ thread_hash \subseteq Workers /\ thread_die_hash \subseteq Workers
    /\ mutex \in Actors \cup {None} /\ state_mutex \in Actors \cup {None}
    /\ hash_mutex \in {Owner, None}
    /\ \A w \in Workers : at[w] \in WorkerAt
    /\ \A c \in Clients : at[c] \in ClientAt
    /\ ret \in [Actors -> {"none", "created", "ready", "busy", "idle"}]
    /\ need \in [Actors -> Nat]
    /\ thread \in [Actors -> Workers \cup {None}]
    /\ job \in [Workers -> 0 .. MaxJobs]
    /\ idle \in [Workers -> 0 .. IdleTicks]
    /\ die \in [Workers -> BOOLEAN]
    /\ added \in 0 .. MaxJobs /\ failures \in 0 .. MaxFailures

Alive == {w \in Workers : at[w] \notin {"none", "exiting", "ended"}}
Running == {w \in Alive : at[w] # "start"}

\* The threads a has counted in thread_count and not started yet.
Owed(a) == IF at[a] = "record" THEN need[a] - 1 ELSE need[a]
Reserved == {x \in Actors \X (1 .. min + 1) : x[2] <= Owed(x[1])}

\* The four counters, changed in a dozen critical sections and read to
\* decide who starts and who dies, are exact at every moment: whatever
\* overlaps, fails to start or is called off when the pool goes down.
CountsExact ==
    /\ thread_count = Cardinality(Alive) + Cardinality(Reserved)
    /\ running_thread_count = Cardinality(Running)
    /\ busy_thread_count = Cardinality({w \in Workers : at[w] \in {"run", "unbusy"}})
    /\ dying_thread_count = Cardinality({w \in Workers : die[w]})

\* The pool never holds more threads that mean to stay than its size allows,
\* although callers and workers decide to start threads one after the other
\* and start them later, outside the lock.
WithinMax == thread_count - dying_thread_count <= (IF min > max THEN min ELSE max)

\* The unsigned subtractions of check_queue (ks_thread_pool.c:100) and of a
\* worker that may die (:182) never wrap.
NoWrap ==
    /\ busy_thread_count + dying_thread_count <= running_thread_count
    /\ dying_thread_count <= thread_count

\* The counters taken together: exact, and so never below zero in a difference.
CountsSound == CountsExact /\ NoWrap

Held == {w \in Workers : job[w] # NoJob}

\* A job that was added is on the queue, in the hands of one worker or run,
\* once, and the jobs on the queue are in order: none is lost or run twice
\* when workers time out, die or leave because the pool goes down.
JobsAccounted ==
    /\ added = Len(q) + Cardinality(Held) + Len(ran)
    /\ \A j \in 1 .. added :
         \/ \E i \in DOMAIN q : q[i] = j
         \/ \E w \in Held : job[w] = j
         \/ \E i \in DOMAIN ran : ran[i] = j
    /\ \A i, k \in DOMAIN q : i < k => q[i] < q[k]

\* ks_thread_pool_destroy frees the pool only when every thread it ever
\* started has been joined: threads are started and recorded, and the state
\* is changed, under tp->state_mutex, so that no thread is started after the
\* last one was joined.
DestroyedQuiet ==
    at[Owner] = "destroyed" => \A w \in Workers : at[w] = "none"

\* In a pool of fixed size (min >= max), where no thread dies of idleness,
\* every job is taken from the queue while the pool runs and threads can be
\* started.
FixedSizeDrains ==
    min >= max /\ min > 0 => []<>(q = <<>> \/ state = "DOWN" \/ failures > 0)

\* In a pool of fixed size destroy returns.
FixedSizeDestroys ==
    min >= max => (state = "DOWN" ~> at[Owner] = "destroyed")

\* tests/testthreadpools.c:66 waits for the backlog to go to zero before it
\* destroys the pool: a pool that may hold threads takes every job.
BacklogDrains == []<>(q = <<>> \/ state = "DOWN" \/ failures > 0)

\* "To avoid a deadlock we do not allow check_queue() to lock thread_hash
\* while state is changed to DOWN" (ks_thread_pool.c:265): destroy returns.
DestroyCompletes == state = "DOWN" ~> at[Owner] = "destroyed"
=============================================================================
