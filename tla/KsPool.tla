------------------------------- MODULE KsPool -------------------------------
(***************************************************************************)
(* The memory pool of libks (ks_pool.c): blocks with reference counts in a *)
(* doubly linked list, and cleanup callbacks that run when a block or the  *)
(* whole pool goes. What touches the list or the counters holds the pool's *)
(* recursive mutex from end to end, so one caller is enough; what makes    *)
(* the order of events interesting is that callbacks run under the lock    *)
(* and free other blocks of the pool. `stack' holds the calls in progress, *)
(* the innermost last.                                                     *)
(*                                                                         *)
(* A callback does nothing to the pool ("PLAIN"), or it frees one more     *)
(* block when it is told to tear down (ks_sb_cleanup, ks_list_cleanup,     *)
(* ks_q_cleanup) or to destroy (ks_cond_cleanup): a block that the object  *)
(* it belongs to allocated after itself, and that nobody else frees.       *)
(***************************************************************************)
EXTENDS Integers, Sequences, FiniteSets

CONSTANTS MaxBlocks,        \* bound: blocks alive at once
          BlockSizes,       \* the sizes callers ask for
          MaxRefs,          \* bound: references to a block
          SizeSpan,         \* the counters of the pool wrap at this (2^64 in the code)
          MaxResizes,       \* bound: resizes in a behaviour
          MaxCounted,       \* bound: allocations while the pool counts this many blocks
          NULL

ASSUME BlocksBounded == {MaxBlocks, MaxResizes, MaxCounted} \subseteq Nat /\ MaxRefs \in Nat \ {0}
ASSUME SizesPositive == BlockSizes \subseteq Nat \ {0}
ASSUME CountersHoldAll == SizeSpan \in Nat \ {0} /\ \A s \in BlockSizes : MaxBlocks * s < SizeSpan
ASSUME NullIsNone == NULL \notin Nat /\ NULL \notin {"PLAIN", "ANNOUNCE", "TEARDOWN", "DESTROY"}

Blocks == 1 .. MaxBlocks

VARIABLES next, prev,       \* the links of each prefix
          first, last,      \* pool->first, pool->last
          refs, size,       \* of each prefix
          cleanup_callback, \* NULL, or when it frees the child: never, or in which phase
          child,            \* the block that the object in this block frees, or NULL
          live,             \* the blocks that are allocated
          alloc_c, user_alloc, \* blocks and bytes in use, as ks_pool_stats gives them
          cleaning_up,
          stack,            \* calls in progress: [op, b], b the block or the saved next
          phases,           \* history: what the callback of each block was told
          opened,           \* "open", "clearing", "closing", "closed"
          resizes           \* history: the blocks that were resized so far

links == <<next, prev, first, last>>
prefixes == <<refs, size, cleanup_callback, child, live>>
stats == <<alloc_c, user_alloc>>
memVars == <<links, prefixes, stats, cleaning_up, stack, phases, opened, resizes>>

MemInit ==
    /\ next = [b \in Blocks |-> NULL] /\ prev = [b \in Blocks |-> NULL]
    /\ first = NULL /\ last = NULL
    /\ refs = [b \in Blocks |-> 0] /\ size = [b \in Blocks |-> 0]
    /\ cleanup_callback = [b \in Blocks |-> NULL] /\ child = [b \in Blocks |-> NULL]
    /\ live = {}
    /\ alloc_c = 0 /\ user_alloc = 0
    /\ cleaning_up = FALSE
    /\ stack = <<>>
    /\ phases = [b \in Blocks |-> <<>>]
    /\ opened = "open"
    /\ resizes = 0

Idle == stack = <<>> /\ opened = "open"

Free == CHOOSE b \in Blocks \ live : \A c \in Blocks \ live : b <= c

\* The blocks that the object in some other block will free.
Owned == {b \in live : \E o \in live : child[o] = b}

-----------------------------------------------------------------------------
(* alloc_mem, ks_pool_ref, ks_pool_set_cleanup, ks_pool_remove_cleanup     *)

\* ks_pool_alloc, ks_pool_calloc and the string functions: a new prefix in
\* front of the list.
Alloc(s) ==
    /\ Idle /\ live # Blocks /\ alloc_c < MaxCounted
    /\ LET b == Free IN
       /\ next' = [next EXCEPT ![b] = first]
       /\ prev' = [n \in Blocks |-> IF n = first THEN b ELSE IF n = b THEN NULL ELSE prev[n]]
       /\ first' = b
       /\ last' = IF last = NULL THEN b ELSE last
       /\ refs' = [refs EXCEPT ![b] = 1]
       /\ size' = [size EXCEPT ![b] = s]
       /\ cleanup_callback' = [cleanup_callback EXCEPT ![b] = NULL]
       /\ child' = [child EXCEPT ![b] = NULL]
       /\ phases' = [phases EXCEPT ![b] = <<>>]
       /\ live' = live \cup {b}
    /\ alloc_c' = (alloc_c + 1) % SizeSpan
    /\ user_alloc' = (user_alloc + s) % SizeSpan
    /\ UNCHANGED <<cleaning_up, stack, opened, resizes>>

ks_pool_ref(b) ==
    /\ Idle /\ b \in live /\ refs[b] < MaxRefs
    /\ refs' = [refs EXCEPT ![b] = @ + 1]
    /\ UNCHANGED <<links, size, cleanup_callback, child, live, stats, cleaning_up, stack, phases,
                   opened, resizes>>

\* The blocks that are in the list before b: they were allocated after it.
Newer(b) ==
    {c \in live : \A S \in SUBSET live :
                     {d \in live : next[d] \in S \cup {b}} \subseteq S => c \in S}

ks_pool_set_cleanup(b, callback, c) ==
    /\ Idle /\ b \in live
    /\ IF callback = "PLAIN" THEN c = NULL ELSE c \in Newer(b) \ Owned
    /\ cleanup_callback' = [cleanup_callback EXCEPT ![b] = callback]
    /\ child' = [child EXCEPT ![b] = c]
    /\ UNCHANGED <<links, refs, size, live, stats, cleaning_up, stack, phases, opened, resizes>>

ks_pool_remove_cleanup(b) ==
    /\ Idle /\ b \in live /\ cleanup_callback[b] # NULL
    /\ cleanup_callback' = [cleanup_callback EXCEPT ![b] = NULL]
    /\ child' = [child EXCEPT ![b] = NULL]
    /\ UNCHANGED <<links, refs, size, live, stats, cleaning_up, stack, phases, opened, resizes>>

-----------------------------------------------------------------------------
(* free_mem                                                                *)

\* What the block held is gone.
Erase(dead) ==
    LET erased(f, none) == [n \in Blocks |-> IF n \in dead THEN none ELSE f[n]] IN
    /\ live' = live \ dead
    /\ size' = erased(size, 0)
    /\ cleanup_callback' = erased(cleanup_callback, NULL)
    /\ child' = erased(child, NULL)
    /\ phases' = erased(phases, <<>>)

\* Take the prefix out of the list.
Unlink(b) ==
    /\ first' = IF prev[b] = NULL THEN next[b] ELSE first
    /\ last' = IF next[b] = NULL THEN prev[b] ELSE last
    /\ prev' = [n \in Blocks |-> IF n = b THEN NULL ELSE IF n = next[b] THEN prev[b] ELSE prev[n]]
    /\ next' = [n \in Blocks |-> IF n = b THEN NULL ELSE IF n = prev[b] THEN next[b] ELSE next[n]]

\* Mutant: only the newest block is counted out.
CountOutNewest(b) ==
    /\ alloc_c' = (alloc_c - 1) % SizeSpan
    /\ user_alloc' = IF prev[b] = NULL THEN (user_alloc - size[b]) % SizeSpan ELSE user_alloc

CountOut(b) ==
    /\ alloc_c' = (alloc_c - 1) % SizeSpan
    /\ user_alloc' = (user_alloc - size[b]) % SizeSpan

Frame(op, b) == [op |-> op, b |-> b]

\* Mutants: the block goes with its first free; callbacks run in a clean-up too.
FreeMemIgnoringRefs(b, under) ==
    /\ refs' = [refs EXCEPT ![b] = @ - 1]
    /\ stack' = Append(under, Frame(IF cleaning_up \/ cleanup_callback[b] = NULL
                                   THEN "unlink" ELSE "announce", b))

FreeMemAlwaysCallsBack(b, under) ==
    /\ refs' = [refs EXCEPT ![b] = @ - 1]
    /\ stack' = IF refs[b] > 1 THEN under
                ELSE Append(under, Frame(IF cleanup_callback[b] = NULL
                                         THEN "unlink" ELSE "announce", b))

\* What free_mem does to b up to its callbacks, below the calls `under':
\* drop a reference; if it was the last, run the callbacks and unlink.
\* perform_pool_cleanup_on_free does nothing while the pool is cleaned up.
FreeMem(b, under) ==
    /\ refs' = [refs EXCEPT ![b] = @ - 1]
    /\ stack' = IF refs[b] > 1 THEN under
                ELSE Append(under, Frame(IF cleaning_up \/ cleanup_callback[b] = NULL
                                         THEN "unlink" ELSE "announce", b))

\* ks_pool_free by a caller that holds a reference.
ks_pool_free(b) ==
    /\ Idle /\ b \in live
    /\ b \in Owned => refs[b] > 1
    /\ FreeMem(b, <<>>)
    /\ UNCHANGED <<links, size, cleanup_callback, child, live, stats, cleaning_up, phases,
                   opened, resizes>>

Top == stack[Len(stack)]
Below == SubSeq(stack, 1, Len(stack) - 1)
InCall(ops) == stack # <<>> /\ Top.op \in ops

Told(b, phase) == phases' = [phases EXCEPT ![b] = Append(@, phase)]

\* The callback of b is told `phase'; the call goes on with `under'. If this
\* is when it frees the child, it calls ks_pool_free(&child), which clears
\* the pointer unless references are left.
Callback(b, phase, under) ==
    /\ Told(b, phase)
    /\ IF cleanup_callback[b] = phase /\ child[b] # NULL
       THEN /\ FreeMem(child[b], under)
            /\ child' = [child EXCEPT ![b] = IF refs[@] > 1 THEN @ ELSE NULL]
       ELSE stack' = under /\ UNCHANGED <<refs, child>>
    /\ UNCHANGED <<links, size, cleanup_callback, live, stats, cleaning_up, opened, resizes>>

OnFreeAnnounce ==
    /\ InCall({"announce"})
    /\ Callback(Top.b, "ANNOUNCE", Append(Below, Frame("teardown", Top.b)))

\* Mutant: the block goes without its last call.
OnFreeTeardownLast ==
    /\ InCall({"teardown"})
    /\ Callback(Top.b, "TEARDOWN", Append(Below, Frame("unlink", Top.b)))

OnFreeTeardown ==
    /\ InCall({"teardown"})
    /\ Callback(Top.b, "TEARDOWN", Append(Below, Frame("destroy", Top.b)))

OnFreeDestroy ==
    /\ InCall({"destroy"})
    /\ Callback(Top.b, "DESTROY", Append(Below, Frame("unlink", Top.b)))

\* The last part of free_mem.
FreeUnlink ==
    /\ InCall({"unlink"})
    /\ Unlink(Top.b) /\ CountOut(Top.b) /\ Erase({Top.b})
    /\ stack' = Below
    /\ UNCHANGED <<refs, cleaning_up, opened, resizes>>

-----------------------------------------------------------------------------
(* ks_pool_resize                                                          *)

\* Mutant: the prefix after the moved one keeps its prev.
RelinkForgetsNext(b, nb) ==
    /\ prev' = [n \in Blocks |-> IF n = nb THEN prev[b] ELSE IF n = b THEN NULL ELSE prev[n]]
    /\ next' = [n \in Blocks |-> IF n = nb THEN next[b] ELSE IF n = b THEN NULL
                                ELSE IF n = prev[b] THEN nb ELSE next[n]]
    /\ first' = IF prev[b] = NULL THEN nb ELSE first
    /\ last' = IF next[b] = NULL THEN nb ELSE last

\* The neighbours of the prefix, or the ends of the list, are made to point
\* to where realloc put it.
Relink(b, nb) ==
    /\ prev' = [n \in Blocks |-> IF n = nb THEN prev[b] ELSE IF n = b THEN NULL
                                ELSE IF n = next[b] THEN nb ELSE prev[n]]
    /\ next' = [n \in Blocks |-> IF n = nb THEN next[b] ELSE IF n = b THEN NULL
                                ELSE IF n = prev[b] THEN nb ELSE next[n]]
    /\ first' = IF prev[b] = NULL THEN nb ELSE first
    /\ last' = IF next[b] = NULL THEN nb ELSE last

\* realloc leaves the prefix where it is or moves it to nb. With several
\* references the call fails, and with the same size nothing changes. The
\* counters of the pool are left alone. The caller keeps the new address,
\* and so does the object that owns the block.
Resize(b, nb, s) ==
    /\ Idle /\ b \in live /\ refs[b] = 1 /\ s # size[b] /\ resizes < MaxResizes
    /\ nb = b \/ (live # Blocks /\ nb = Free)
    /\ LET moved(f, none) == [n \in Blocks |-> IF n = nb THEN f[b] ELSE IF n = b THEN none ELSE f[n]]
           kept == moved(child, NULL)
       IN
       /\ size' = [moved(size, 0) EXCEPT ![nb] = s]
       /\ refs' = moved(refs, 0)
       /\ phases' = moved(phases, <<>>)
       /\ cleanup_callback' = moved(cleanup_callback, NULL)
       /\ child' = [n \in Blocks |-> IF kept[n] = b THEN nb ELSE kept[n]]
    /\ Relink(b, nb)
    /\ live' = (live \ {b}) \cup {nb}
    /\ resizes' = resizes + 1
    /\ UNCHANGED <<stats, cleaning_up, stack, opened>>

-----------------------------------------------------------------------------
(* ks_pool_clear, ks_pool_close, perform_pool_cleanup                      *)

\* Clear the pool, or clear it to close it. A pool that was cleaned up once
\* is not cleaned up again.
ClearBegin(goal) ==
    /\ Idle
    /\ opened' = goal
    /\ cleaning_up' = TRUE
    /\ stack' = <<IF cleaning_up THEN Frame("free_all", NULL) ELSE Frame("ANNOUNCE", first)>>
    /\ UNCHANGED <<links, prefixes, stats, phases, resizes>>

Passes == {"ANNOUNCE", "TEARDOWN", "DESTROY"}

\* One turn of a pass: save next, then call the callback.
PassVisit ==
    /\ InCall(Passes) /\ Top.b # NULL
    /\ LET on == Append(Below, Frame(Top.op, next[Top.b])) IN
       IF cleanup_callback[Top.b] = NULL
       THEN /\ stack' = on
            /\ UNCHANGED <<links, prefixes, stats, cleaning_up, phases, opened, resizes>>
       ELSE Callback(Top.b, Top.op, on)

\* The end of the list: the next pass starts at pool->first.
PassEnd ==
    /\ InCall(Passes) /\ Top.b = NULL
    /\ stack' = <<CASE Top.op = "ANNOUNCE" -> Frame("TEARDOWN", first)
                    [] Top.op = "TEARDOWN" -> Frame("DESTROY", first)
                    [] Top.op = "DESTROY" -> Frame("free_all", NULL)>>
    /\ UNCHANGED <<links, prefixes, stats, cleaning_up, phases, opened, resizes>>

\* The blocks that are reached from pool->first.
Reached ==
    {b \in Blocks : \A S \in SUBSET Blocks :
                       first \in S \cup {NULL} /\ (\A d \in S : next[d] \in S \cup {NULL}) => b \in S}

\* Free every prefix. The counters stay as they are, and so does cleaning_up.
FreeAll ==
    /\ InCall({"free_all"})
    /\ Erase(Reached)
    /\ first' = NULL /\ last' = NULL
    /\ next' = [b \in Blocks |-> IF b \in Reached THEN NULL ELSE next[b]]
    /\ prev' = [b \in Blocks |-> IF b \in Reached THEN NULL ELSE prev[b]]
    /\ refs' = [b \in Blocks |-> IF b \in Reached THEN 0 ELSE refs[b]]
    /\ stack' = <<>>
    /\ opened' = IF opened = "closing" THEN "closed" ELSE "open"
    /\ UNCHANGED <<stats, cleaning_up, resizes>>

-----------------------------------------------------------------------------
MemNext ==
    \/ \E s \in BlockSizes : Alloc(s)
    \/ \E b \in Blocks :
        \/ ks_pool_ref(b) \/ ks_pool_free(b) \/ ks_pool_remove_cleanup(b)
        \/ \E callback \in {"PLAIN", "TEARDOWN", "DESTROY"}, c \in Blocks \cup {NULL} :
              ks_pool_set_cleanup(b, callback, c)
        \/ \E nb \in Blocks, s \in BlockSizes : Resize(b, nb, s)
    \/ OnFreeAnnounce \/ OnFreeTeardown \/ OnFreeDestroy \/ FreeUnlink
    \/ \E goal \in {"clearing", "closing"} : ClearBegin(goal)
    \/ PassVisit \/ PassEnd \/ FreeAll

MemSpec == MemInit /\ [][MemNext]_memVars

-----------------------------------------------------------------------------
Ops == {"announce", "teardown", "destroy", "unlink", "free_all"} \cup Passes

\* Every variable has its type; the counters stay in the range of ks_size_t.
MemTypeOK ==
    /\ next \in [Blocks -> Blocks \cup {NULL}] /\ prev \in [Blocks -> Blocks \cup {NULL}]
    /\ first \in Blocks \cup {NULL} /\ last \in Blocks \cup {NULL}
    /\ refs \in [Blocks -> 0 .. MaxRefs] /\ size \in [Blocks -> BlockSizes \cup {0}]
    /\ cleanup_callback \in [Blocks -> {NULL, "PLAIN", "TEARDOWN", "DESTROY"}]
    /\ child \in [Blocks -> Blocks \cup {NULL}]
    /\ live \subseteq Blocks
    /\ {alloc_c, user_alloc} \subseteq 0 .. SizeSpan - 1
    /\ cleaning_up \in BOOLEAN /\ resizes \in 0 .. MaxResizes
    /\ \A i \in DOMAIN stack : stack[i] \in [op : Ops, b : Blocks \cup {NULL}]
    /\ \A b \in Blocks : Len(phases[b]) <= 3 /\ \A i \in DOMAIN phases[b] : phases[b][i] \in Passes
    /\ opened \in {"open", "clearing", "closing", "closed"}

\* The prefixes reached from pool->first are the live blocks, the prev of each
\* is the one whose next it is, and pool->last is the one that has no next:
\* what free_mem and ks_pool_resize write to the neighbours and to the ends
\* of the list keeps it whole, in the middle of a clean-up too.
ListSound ==
    /\ Reached = live
    /\ first = NULL <=> last = NULL
    /\ \A b \in live :
        /\ prev[b] = NULL <=> first = b
        /\ next[b] = NULL <=> last = b
        /\ prev[b] # NULL => next[prev[b]] = b
        /\ next[b] # NULL => prev[next[b]] = b

\* The block that perform_pool_cleanup saved before it called a callback, and
\* every block whose free is under way, is still there when it is used: the
\* blocks that a callback frees are newer than its own, and the pass has
\* them behind it.
PassSafe == \A i \in DOMAIN stack : stack[i].b \in live \cup {NULL}

\* The list of blocks and those who are walking it agree: both of the above.
ListSafe == ListSound /\ PassSafe

\* A block is freed once, by the one that drops its last reference
\* (free_mem), however the callbacks nest.
FreedOnce ==
    LET freeing == {i \in DOMAIN stack : stack[i].op \in {"announce", "teardown", "destroy", "unlink"}}
        gone == {stack[i].b : i \in freeing}
    IN  /\ \A i, j \in freeing : stack[i].b = stack[j].b => i = j
        /\ \A b \in live : refs[b] = 0 <=> b \in gone

Phases == <<"ANNOUNCE", "TEARDOWN", "DESTROY">>

\* In a clean-up every callback hears of one phase before any hears of the
\* next, and none hears of a phase twice, though blocks are freed by the
\* callbacks of others meanwhile (perform_pool_cleanup).
InLockstep ==
    \A n \in 1 .. 3 : \A b \in live :
        (stack # <<>> /\ stack[1].op = Phases[n] /\ cleanup_callback[b] # NULL)
            => \E m \in {n - 1, n} : phases[b] = SubSeq(Phases, 1, m)

\* While the pool is not cleaned up, a block with a callback goes only after
\* the callback has heard of the three phases in their order, whether its
\* owner's callback freed it or a caller did.
HeardAll ==
    [][\A b \in live \ live' :
         (~cleaning_up /\ ~Idle /\ cleanup_callback[b] # NULL) => phases[b] = Phases]_memVars

Total(f) ==
    LET sum[n \in 0 .. MaxBlocks] == IF n = 0 THEN 0 ELSE sum[n - 1] + f[n]
    IN  sum[MaxBlocks]

SizesOf(blocks) == Total([b \in Blocks |-> IF b \in blocks THEN size[b] ELSE 0])

\* Until the pool is cleared the counters of ks_pool_stats are right: the
\* number of blocks, and, if none was resized, their sizes (ks_pool_resize
\* leaves user_alloc as it was).
StatsExact ==
    ~cleaning_up =>
        /\ alloc_c = Cardinality(live)
        /\ resizes = 0 => user_alloc = SizesOf(live)

\* "Wipe an opened memory pool clean so we can start again": after
\* ks_pool_clear a block with a callback is freed as it was before it, when
\* the callback has heard of the three phases.
ClearStartsAgain ==
    \A i \in DOMAIN stack :
        (opened = "open" /\ stack[i].op = "unlink" /\ cleanup_callback[stack[i].b] # NULL)
            => phases[stack[i].b] = Phases
=============================================================================
