-------------------------------- MODULE KsQ --------------------------------
(***************************************************************************)
(* The thread-safe queue of libks (ks_q.c). Every function of the queue    *)
(* works on the structure while it holds q->list_mutex, so one critical    *)
(* section is one action; a call that sleeps on a condition, or that       *)
(* enters the lock several times, is several actions, and `pc' says where  *)
(* in it the thread is.                                                    *)
(*                                                                         *)
(* A thread blocked in ks_cond_wait is in the wait set of the condition    *)
(* until a signal, a broadcast or a spurious wakeup takes it out; it then  *)
(* competes for the lock like any other caller, and other calls may run    *)
(* before it does. A timed wait whose deadline has passed stays in the     *)
(* wait set until it has the lock again: POSIX lets it use up a signal     *)
(* sent in between.                                                        *)
(*                                                                         *)
(* A call that finds the queue inactive, or a try-call that finds it full  *)
(* or empty, returns an error and changes nothing: it is a stuttering step.*)
(***************************************************************************)
EXTENDS Integers, Sequences, FiniteSets

CONSTANTS Threads,          \* the threads that share the queue
          Items,            \* the pointers they push
          NoItem,           \* "no pointer": the argument of a thread not in a push
          MaxLens,          \* the maxlen arguments ks_q_create may be given
          Roles,            \* who calls what: a set of functions Threads -> SUBSET Ops
          MaxPushes         \* bound: how many items are pushed in one behaviour

\* The functions of ks_q.h a thread may call.
Ops == {"push", "trypush", "pop", "pop_timeout", "trypop", "wait", "wake",
        "flush", "set_flush_fn", "term", "destroy"}

ASSUME ThreadsFinite == IsFiniteSet(Threads)
ASSUME MaxLensAreSizes == MaxLens \subseteq Nat
ASSUME RolesAreOps == Roles \subseteq [Threads -> SUBSET Ops]
ASSUME PushesBounded == MaxPushes \in Nat
ASSUME NoItemIsNone == NoItem \notin Items

VARIABLES list,             \* the items from q->head to q->tail
          len,              \* q->len
          maxlen,           \* q->maxlen
          active,           \* q->active
          pushers, poppers, \* q->pushers, q->poppers
          flush_fn,         \* q->flush_fn is set
          push_cond,        \* the threads in the wait set of q->push_cond
          pop_cond,         \* the threads in the wait set of q->pop_cond
          pc,               \* where each thread is
          arg,              \* the pointer a blocked pusher holds
          role,             \* which functions each thread calls
          accepted,         \* history: every item put on the list, in order
          delivered         \* history: every item taken off it, in order

qVars == <<list, len, accepted, delivered>>
vars == <<list, len, maxlen, active, pushers, poppers, flush_fn, push_cond,
          pop_cond, pc, arg, role, accepted, delivered>>

PushBlocked == {t \in Threads : pc[t] = "push_blocked"}
PopBlocked  == {t \in Threads : pc[t] \in {"pop_blocked", "pop_timed", "pop_timedout"}}

Locations == {"idle", "push_blocked", "pop_blocked", "pop_timed", "pop_timedout",
              "wait", "wake", "flush", "destroy_flush", "destroy_term",
              "destroy_wake", "destroy_free", "freed"}

Closing == {"destroy_flush", "destroy_term", "destroy_wake", "destroy_free", "freed"}

-----------------------------------------------------------------------------
(* The condition variables of ks_mutex.c over pthread_cond_t.              *)

\* pthread_cond_signal: unblocks one thread, any of those that wait. Waking
\* more than one, which POSIX allows, is this and spurious wakeups.
CondSignal(W) == IF W = {} THEN {W} ELSE {W \ {t} : t \in W}

-----------------------------------------------------------------------------
Init ==
    /\ list = <<>> /\ len = 0
    /\ maxlen \in MaxLens
    /\ active = TRUE
    /\ pushers = 0 /\ poppers = 0
    /\ flush_fn = FALSE
    /\ push_cond = {} /\ pop_cond = {}
    /\ pc = [t \in Threads |-> "idle"]
    /\ arg = [t \in Threads |-> NoItem]
    /\ role \in Roles
    /\ accepted = <<>> /\ delivered = <<>>

\* Thread t starts a call of op. The owner of the queue calls ks_q_destroy
\* only when nobody else is inside a call, and nobody calls afterwards.
Calls(t, op) ==
    /\ pc[t] = "idle"
    /\ op \in role[t]
    /\ \A u \in Threads : pc[u] \notin Closing

GoTo(t, where) == pc' = [pc EXCEPT ![t] = where]

Full == maxlen # 0 /\ len = maxlen

MayPush == Len(accepted) + pushers < MaxPushes

-----------------------------------------------------------------------------
(* The list.                                                               *)

do_push(x) ==
    IF active
    THEN /\ list' = Append(list, x)
         /\ len' = len + 1
         /\ accepted' = Append(accepted, x)
         /\ UNCHANGED delivered
    ELSE UNCHANGED qVars

\* Mutant: take the newest item.
do_pop_tail ==
    IF active
    THEN /\ len' = len - 1
         /\ list' = SubSeq(list, 1, Len(list) - 1)
         /\ delivered' = Append(delivered, list[Len(list)])
         /\ UNCHANGED accepted
    ELSE UNCHANGED qVars

\* The count goes down even when the list is empty (line 339).
do_pop ==
    IF active
    THEN /\ len' = len - 1
         /\ IF list = <<>>
            THEN UNCHANGED <<list, delivered>>
            ELSE /\ list' = Tail(list)
                 /\ delivered' = Append(delivered, Head(list))
         /\ UNCHANGED accepted
    ELSE UNCHANGED qVars

\* Mutant: signal only when the queue was empty.
InsertSignalsIfEmpty(x) ==
    /\ do_push(x)
    /\ pop_cond' \in (IF poppers > 0 /\ len = 0 THEN CondSignal(pop_cond) ELSE {pop_cond})

\* The end of ks_q_push and ks_q_trypush: put the item on the list, and
\* signal pop_cond if anybody is inside a pop that sleeps.
Insert(x) ==
    /\ do_push(x)
    /\ pop_cond' \in (IF poppers > 0 THEN CondSignal(pop_cond) ELSE {pop_cond})

\* The end of ks_q_pop_timeout and ks_q_trypop.
Remove ==
    /\ do_pop
    /\ push_cond' \in (IF pushers > 0 THEN CondSignal(push_cond) ELSE {push_cond})

-----------------------------------------------------------------------------
(* ks_q_push, ks_q_trypush                                                 *)

\* A push that finds room.
PushNow(t, x) ==
    /\ Calls(t, "push") /\ MayPush
    /\ active /\ ~Full
    /\ Insert(x)
    /\ UNCHANGED <<maxlen, active, pushers, poppers, flush_fn, push_cond, pc, arg, role>>

\* A push that finds the queue full sleeps on push_cond.
PushWait(t, x) ==
    /\ Calls(t, "push") /\ MayPush
    /\ active /\ Full
    /\ pushers' = pushers + 1
    /\ push_cond' = push_cond \cup {t}
    /\ GoTo(t, "push_blocked")
    /\ arg' = [arg EXCEPT ![t] = x]
    /\ UNCHANGED <<qVars, maxlen, active, poppers, flush_fn, pop_cond, role>>

\* Mutant: no second look at the length after the wait.
PushResumeUnchecked(t) ==
    /\ pc[t] = "push_blocked" /\ t \notin push_cond
    /\ pushers' = pushers - 1
    /\ Insert(arg[t])
    /\ GoTo(t, "idle")
    /\ arg' = [arg EXCEPT ![t] = NoItem]
    /\ UNCHANGED <<maxlen, active, poppers, flush_fn, push_cond, role>>

\* A pusher that was taken out of the wait set has the lock again. It looks
\* once: if the queue is full again it gives up (KS_STATUS_BREAK), and the
\* item is not pushed.
PushResume(t) ==
    /\ pc[t] = "push_blocked" /\ t \notin push_cond
    /\ pushers' = pushers - 1
    /\ IF Full
       THEN UNCHANGED <<qVars, pop_cond>>
       ELSE Insert(arg[t])
    /\ GoTo(t, "idle")
    /\ arg' = [arg EXCEPT ![t] = NoItem]
    /\ UNCHANGED <<maxlen, active, poppers, flush_fn, push_cond, role>>

TryPush(t, x) ==
    /\ Calls(t, "trypush") /\ MayPush
    /\ active /\ ~Full
    /\ Insert(x)
    /\ UNCHANGED <<maxlen, active, pushers, poppers, flush_fn, push_cond, pc, arg, role>>

-----------------------------------------------------------------------------
(* ks_q_pop_timeout, ks_q_pop (a timeout of 0) and ks_q_trypop             *)

PopNow(t) ==
    /\ Calls(t, "pop") \/ Calls(t, "pop_timeout")
    /\ active /\ len # 0
    /\ Remove
    /\ UNCHANGED <<maxlen, active, pushers, poppers, flush_fn, pop_cond, pc, arg, role>>

PopWait(t, op, where) ==
    /\ Calls(t, op)
    /\ active /\ len = 0
    /\ poppers' = poppers + 1
    /\ pop_cond' = pop_cond \cup {t}
    /\ GoTo(t, where)
    /\ UNCHANGED <<qVars, maxlen, active, pushers, flush_fn, push_cond, arg, role>>

\* Mutant: no second look at the length after the wait.
PopResumeUnchecked(t) ==
    /\ pc[t] \in {"pop_blocked", "pop_timed"} /\ t \notin pop_cond
    /\ poppers' = poppers - 1
    /\ Remove
    /\ GoTo(t, "idle")
    /\ UNCHANGED <<maxlen, active, pushers, flush_fn, pop_cond, arg, role>>

\* A popper taken out of the wait set has the lock again. An empty queue
\* ends the call (KS_STATUS_BREAK or KS_STATUS_INACTIVE).
PopResume(t) ==
    /\ pc[t] \in {"pop_blocked", "pop_timed"} /\ t \notin pop_cond
    /\ poppers' = poppers - 1
    /\ IF len = 0
       THEN UNCHANGED <<qVars, push_cond>>
       ELSE Remove
    /\ GoTo(t, "idle")
    /\ UNCHANGED <<maxlen, active, pushers, flush_fn, pop_cond, arg, role>>

\* The deadline of a timed wait passes.
PopDeadline(t) ==
    /\ pc[t] = "pop_timed" /\ t \in pop_cond
    /\ GoTo(t, "pop_timedout")
    /\ UNCHANGED <<qVars, maxlen, active, pushers, poppers, flush_fn, push_cond,
                   pop_cond, arg, role>>

\* Mutant: leave before poppers-- on a timeout.
PopTimedOutUncounted(t) ==
    /\ pc[t] = "pop_timedout"
    /\ pop_cond' = pop_cond \ {t}
    /\ GoTo(t, "idle")
    /\ UNCHANGED <<qVars, maxlen, active, pushers, poppers, flush_fn, push_cond, arg, role>>

\* It returns KS_STATUS_TIMEOUT without looking at the queue.
PopTimedOut(t) ==
    /\ pc[t] = "pop_timedout"
    /\ poppers' = poppers - 1
    /\ pop_cond' = pop_cond \ {t}
    /\ GoTo(t, "idle")
    /\ UNCHANGED <<qVars, maxlen, active, pushers, flush_fn, push_cond, arg, role>>

TryPop(t) ==
    /\ Calls(t, "trypop")
    /\ active /\ len # 0
    /\ Remove
    /\ UNCHANGED <<maxlen, active, pushers, poppers, flush_fn, pop_cond, pc, arg, role>>

\* pthread_cond_wait may return with no signal.
SpuriousWakeup(t) ==
    /\ \/ t \in push_cond
       \/ t \in pop_cond /\ pc[t] # "pop_timedout"
    /\ push_cond' = push_cond \ {t}
    /\ pop_cond' = pop_cond \ {t}
    /\ UNCHANGED <<qVars, maxlen, active, pushers, poppers, flush_fn, pc, arg, role>>

-----------------------------------------------------------------------------
(* ks_q_wait, ks_q_wake, ks_q_term, ks_q_flush, ks_q_set_flush_fn          *)

WaitBegin(t) ==
    /\ Calls(t, "wait")
    /\ GoTo(t, "wait")
    /\ UNCHANGED <<qVars, maxlen, active, pushers, poppers, flush_fn, push_cond,
                   pop_cond, arg, role>>

\* The loop looks again and again until the queue is empty or inactive.
WaitDone(t) ==
    /\ pc[t] = "wait"
    /\ ~active \/ len = 0
    /\ GoTo(t, "idle")
    /\ UNCHANGED <<qVars, maxlen, active, pushers, poppers, flush_fn, push_cond,
                   pop_cond, arg, role>>

\* Mutants: wake the poppers only; signal instead of broadcast.
WakePoppers == push_cond' = push_cond /\ pop_cond' = {}
WakeOne == push_cond' \in CondSignal(push_cond) /\ pop_cond' \in CondSignal(pop_cond)

\* Both broadcasts.
WakeAll == push_cond' = {} /\ pop_cond' = {}

Wake(t) ==
    /\ Calls(t, "wake")
    /\ WakeAll
    /\ UNCHANGED <<qVars, maxlen, active, pushers, poppers, flush_fn, pc, arg, role>>

\* ks_q_term leaves the lock between clearing `active' and waking everybody,
\* and wakes only if it was the call that cleared it.
TermClear(t) ==
    /\ Calls(t, "term") /\ active
    /\ active' = FALSE
    /\ GoTo(t, "wake")
    /\ UNCHANGED <<qVars, maxlen, pushers, poppers, flush_fn, push_cond, pop_cond, arg, role>>

TermWake(t) ==
    /\ pc[t] \in {"wake", "destroy_wake"}
    /\ WakeAll
    /\ GoTo(t, IF pc[t] = "wake" THEN "idle" ELSE "destroy_free")
    /\ UNCHANGED <<qVars, maxlen, active, pushers, poppers, flush_fn, arg, role>>

\* ks_q_flush tests `active' and `flush_fn' outside the lock, once.
FlushBegin(t) ==
    /\ Calls(t, "flush") /\ active /\ flush_fn
    /\ GoTo(t, "flush")
    /\ UNCHANGED <<qVars, maxlen, active, pushers, poppers, flush_fn, push_cond,
                   pop_cond, arg, role>>

\* One ks_q_trypop of the loop; flush_fn is given the item.
FlushPop(t) ==
    /\ pc[t] \in {"flush", "destroy_flush"}
    /\ active /\ len # 0
    /\ Remove
    /\ UNCHANGED <<maxlen, active, pushers, poppers, flush_fn, pop_cond, pc, arg, role>>

FlushDone(t) ==
    /\ pc[t] \in {"flush", "destroy_flush"}
    /\ ~active \/ len = 0
    /\ GoTo(t, IF pc[t] = "flush" THEN "idle" ELSE "destroy_term")
    /\ UNCHANGED <<qVars, maxlen, active, pushers, poppers, flush_fn, push_cond,
                   pop_cond, arg, role>>

SetFlushFn(t) ==
    /\ Calls(t, "set_flush_fn") /\ active
    /\ flush_fn' = TRUE
    /\ UNCHANGED <<qVars, maxlen, active, pushers, poppers, push_cond, pop_cond,
                   pc, arg, role>>

-----------------------------------------------------------------------------
(* ks_q_destroy: flush, term, then ks_pool_free, whose cleanup callback    *)
(* releases the nodes, the conditions and the lock.                        *)

\* Mutant: terminate first; the flush then finds the queue inactive.
DestroyTermFirst(t) ==
    /\ Calls(t, "destroy")
    /\ \A u \in Threads : pc[u] = "idle"
    /\ GoTo(t, "destroy_term")
    /\ UNCHANGED <<qVars, maxlen, active, pushers, poppers, flush_fn, push_cond,
                   pop_cond, arg, role>>

DestroyBegin(t) ==
    /\ Calls(t, "destroy")
    /\ \A u \in Threads : pc[u] = "idle"
    /\ GoTo(t, IF active /\ flush_fn THEN "destroy_flush" ELSE "destroy_term")
    /\ UNCHANGED <<qVars, maxlen, active, pushers, poppers, flush_fn, push_cond,
                   pop_cond, arg, role>>

DestroyTerm(t) ==
    /\ pc[t] = "destroy_term"
    /\ active' = FALSE
    /\ GoTo(t, IF active THEN "destroy_wake" ELSE "destroy_free")
    /\ UNCHANGED <<qVars, maxlen, pushers, poppers, flush_fn, push_cond, pop_cond, arg, role>>

\* ks_q_cleanup finds `active' clear: nothing is left to flush or terminate.
DestroyFree(t) ==
    /\ pc[t] = "destroy_free"
    /\ GoTo(t, "freed")
    /\ UNCHANGED <<qVars, maxlen, active, pushers, poppers, flush_fn, push_cond,
                   pop_cond, arg, role>>

-----------------------------------------------------------------------------
Step(t) ==
    \/ \E x \in Items : PushNow(t, x) \/ PushWait(t, x) \/ TryPush(t, x)
    \/ PushResume(t)
    \/ PopNow(t) \/ TryPop(t)
    \/ PopWait(t, "pop", "pop_blocked")
    \/ PopWait(t, "pop_timeout", "pop_timed")
    \/ PopResume(t) \/ PopDeadline(t) \/ PopTimedOut(t)
    \/ SpuriousWakeup(t)
    \/ WaitBegin(t) \/ WaitDone(t) \/ Wake(t)
    \/ TermClear(t) \/ TermWake(t)
    \/ FlushBegin(t) \/ FlushPop(t) \/ FlushDone(t) \/ SetFlushFn(t)
    \/ DestroyBegin(t) \/ DestroyTerm(t) \/ DestroyFree(t)

Next == \E t \in Threads : Step(t)

Spec == Init /\ [][Next]_vars

\* A thread inside a call gets the lock in the end and a deadline passes in
\* the end; whether a caller ever calls is its own business.
Fairness ==
    \A t \in Threads :
        /\ WF_vars(PushResume(t)) /\ WF_vars(PopResume(t))
        /\ WF_vars(PopDeadline(t)) /\ WF_vars(PopTimedOut(t))
        /\ WF_vars(WaitDone(t)) /\ WF_vars(TermWake(t))
        /\ WF_vars(FlushPop(t)) /\ WF_vars(FlushDone(t))
        /\ WF_vars(DestroyTerm(t)) /\ WF_vars(DestroyFree(t))

FairSpec == Spec /\ Fairness
-----------------------------------------------------------------------------
(* Properties                                                              *)

\* Every field holds a value of its type; in particular len, pushers and
\* poppers, unsigned in ks_q_s, never go below zero.
TypeOK ==
    /\ list \in Seq(Items) /\ accepted \in Seq(Items) /\ delivered \in Seq(Items)
    /\ len \in Nat /\ maxlen \in Nat
    /\ pushers \in Nat /\ poppers \in Nat
    /\ active \in BOOLEAN /\ flush_fn \in BOOLEAN
    /\ push_cond \subseteq Threads /\ pop_cond \subseteq Threads
    /\ pc \in [Threads -> Locations]
    /\ arg \in [Threads -> Items \cup {NoItem}]
    /\ role \in [Threads -> SUBSET Ops]

\* Nothing is lost, duplicated or reordered: what went in is what came out
\* followed by what is inside, whatever blocked, timed out or was woken in
\* between; the unlocked counter q->len counts the list, and a bounded queue
\* never holds more than maxlen items although a blocked push tests for room
\* in one critical section and inserts in another.
ListIntact ==
    /\ accepted = delivered \o list
    /\ len = Len(list)
    /\ maxlen # 0 => len <= maxlen

\* q->pushers and q->poppers, which decide whether a signal is sent at all,
\* count exactly the threads inside a sleeping push or pop, on every way out
\* of the wait (signal, broadcast, spurious wakeup, timeout).
Counted ==
    /\ pushers = Cardinality(PushBlocked)
    /\ poppers = Cardinality(PopBlocked)

WokenPushers == PushBlocked \ push_cond
WokenPoppers == PopBlocked \ pop_cond

NoTimedPops == \A t \in Threads : "pop_timeout" \notin role[t]

\* No wakeup is lost on an active queue. While a pusher sleeps, every free
\* slot has a woken pusher on its way to it; while a popper sleeps, every
\* item has a woken popper on its way to it. The second needs that nobody
\* uses ks_q_pop_timeout: a timed-out popper may use up the signal and leave
\* without looking at the list (ks_q.c:388).
NoLostWakeup ==
    active =>
        /\ push_cond # {} => maxlen - len <= Cardinality(WokenPushers)
        /\ pop_cond # {} /\ NoTimedPops => len <= Cardinality(WokenPoppers)

\* ks_q_term clears `active' and wakes the sleepers in two critical sections:
\* in between, and however a second ks_q_term interleaves, whoever sleeps on
\* a terminated queue has a broadcast still to come.
TermWakesAll ==
    ~active /\ push_cond \cup pop_cond # {} =>
        \E t \in Threads : pc[t] \in {"wake", "destroy_wake"}

\* Once the queue is terminated every call in progress ends: blocked pushes
\* and pops, ks_q_wait, ks_q_flush and ks_q_term itself.
TermReleases ==
    \A t \in Threads : ~active /\ pc[t] # "idle" ~> pc[t] \in {"idle", "freed"}

\* ks_q_destroy on a queue that is active and has a flush function hands it
\* every item left before it terminates the queue: nothing the queue
\* accepted is dropped with it.
DestroyFlushes ==
    [][\A t \in Threads :
        pc[t] = "destroy_term" /\ active /\ ~active' /\ flush_fn
            => delivered = accepted]_vars

\* A push that had to wait and returns while the queue is still active has
\* pushed its item. This is what tests/testq.c relies on: qtest2 ignores the
\* status of ks_q_push and asserts total_popped == loops.
BlockedPushDelivers ==
    [][\A t \in Threads :
        pc[t] = "push_blocked" /\ pc'[t] = "idle" /\ active
            => accepted' # accepted]_vars

\* The queue does what the abstract FIFO does, seen through its histories.
Fifo == INSTANCE KsFifo WITH open <- active
FifoSpec == Fifo!FifoSpec
=============================================================================
