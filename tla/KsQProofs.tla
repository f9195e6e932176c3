----------------------------- MODULE KsQProofs -----------------------------
(***************************************************************************)
(* Theorems about the queue of KsQ, for any number of threads, items and   *)
(* lengths and any assignment of functions to threads.                     *)
(***************************************************************************)
EXTENDS KsQ, FiniteSetTheorems, SequenceTheorems, TLAPS

-----------------------------------------------------------------------------
(* Sequences                                                               *)

\* Appending to the inside of the queue appends to its history.
LEMMA AppendAfterConcat ==
    ASSUME NEW S, NEW s \in Seq(S), NEW u \in Seq(S), NEW e \in S,
           NEW r, r = s \o u
    PROVE  Append(r, e) = s \o Append(u, e)
<1>1. r \in Seq(S) /\ <<e>> \in Seq(S)
  BY ConcatProperties
<1>2. Append(r, e) = (s \o u) \o <<e>>
  BY <1>1, AppendIsConcat
<1>3. s \o Append(u, e) = s \o (u \o <<e>>)
  BY AppendIsConcat
<1> QED
  BY <1>1, <1>2, <1>3, ConcatAssociative

\* Moving the head of the list to the end of what was delivered leaves the
\* history as it is.
LEMMA HeadMoves ==
    ASSUME NEW S, NEW s \in Seq(S), NEW u \in Seq(S), u # <<>>
    PROVE  Append(s, Head(u)) \o Tail(u) = s \o u
<1>1. Head(u) \in S /\ Tail(u) \in Seq(S) /\ <<Head(u)>> \in Seq(S)
  BY HeadTailProperties
<1>2. Append(s, Head(u)) \o Tail(u) = s \o (<<Head(u)>> \o Tail(u))
  BY <1>1, AppendIsConcat, ConcatAssociative
<1>3. <<Head(u)>> \o Tail(u) = u
  <2>1. /\ <<Head(u)>> \o Tail(u) \in Seq(S)
        /\ Len(<<Head(u)>> \o Tail(u)) = Len(u)
    BY <1>1, ConcatProperties, HeadTailProperties, EmptySeq, LenProperties
  <2>2. \A i \in 1 .. Len(u) : (<<Head(u)>> \o Tail(u))[i] = u[i]
    BY <1>1, ConcatProperties, HeadTailProperties, EmptySeq, LenProperties
  <2> QED
    BY <2>1, <2>2, SeqEqual
<1> QED
  BY <1>2, <1>3

-----------------------------------------------------------------------------
(* The inductive invariant                                                 *)

\* The wait sets hold threads that are inside the matching wait, a blocked
\* pusher holds an item, and a timed wait is one of a thread that makes them.
Sleeping ==
    /\ push_cond \subseteq PushBlocked
    /\ pop_cond \subseteq PopBlocked
    /\ \A t \in Threads : pc[t] = "push_blocked" => arg[t] \in Items
    /\ \A t \in Threads : pc[t] \in {"pop_timed", "pop_timedout"} => "pop_timeout" \in role[t]

IInv == TypeOK /\ ListIntact /\ Sleeping /\ Counted

LEMMA DoPush ==
    ASSUME TypeOK, ListIntact, NEW x \in Items, ~Full, do_push(x), maxlen' = maxlen
    PROVE  /\ list' \in Seq(Items) /\ accepted' \in Seq(Items) /\ delivered' \in Seq(Items)
           /\ len' \in Nat
           /\ ListIntact'
<1>1. CASE active
  <2>1. /\ list' = Append(list, x) /\ len' = len + 1
        /\ accepted' = Append(accepted, x) /\ delivered' = delivered
    BY <1>1 DEF do_push
  <2>2. /\ list' \in Seq(Items) /\ accepted' \in Seq(Items)
        /\ Len(list') = Len(list) + 1
    BY <2>1, AppendProperties DEF TypeOK
  <2>3. accepted' = delivered' \o list'
    <3>1. list \in Seq(Items) /\ delivered \in Seq(Items)
      BY DEF TypeOK
    <3>2. accepted = delivered \o list
      BY DEF ListIntact
    <3>3. x \in Items
      OBVIOUS
    <3>4. Append(accepted, x) = delivered \o Append(list, x)
      BY ONLY <3>1, <3>2, <3>3, AppendAfterConcat
    <3> QED
      BY <2>1, <3>4
  <2> QED
    BY <2>1, <2>2, <2>3 DEF TypeOK, ListIntact, Full
<1>2. CASE ~active
  BY <1>2 DEF do_push, qVars, TypeOK, ListIntact
<1> QED
  BY <1>1, <1>2

LEMMA DoPop ==
    ASSUME TypeOK, ListIntact, len # 0, do_pop, maxlen' = maxlen
    PROVE  /\ list' \in Seq(Items) /\ accepted' \in Seq(Items) /\ delivered' \in Seq(Items)
           /\ len' \in Nat
           /\ ListIntact'
<1>1. CASE active
  <2>0. list # <<>>
    BY EmptySeq DEF ListIntact
  <2>1. /\ list' = Tail(list) /\ len' = len - 1
        /\ accepted' = accepted /\ delivered' = Append(delivered, Head(list))
    BY <1>1, <2>0 DEF do_pop
  <2>2. /\ list' \in Seq(Items) /\ Head(list) \in Items
        /\ Len(list') = Len(list) - 1
    BY <2>0, <2>1, HeadTailProperties DEF TypeOK
  <2>3. delivered' \in Seq(Items)
    BY <2>1, <2>2, AppendProperties DEF TypeOK
  <2>4. accepted' = delivered' \o list'
    BY <2>0, <2>1, HeadMoves DEF TypeOK, ListIntact
  <2> QED
    BY <2>1, <2>2, <2>3, <2>4 DEF TypeOK, ListIntact
<1>2. CASE ~active
  BY <1>2 DEF do_pop, qVars, TypeOK, ListIntact
<1> QED
  BY <1>1, <1>2

\* A signal only takes threads out of the wait set.
LEMMA SignalShrinks ==
    ASSUME NEW W, NEW V \in CondSignal(W)
    PROVE  V \subseteq W
  BY DEF CondSignal

LEMMA InsertWakes ==
    ASSUME NEW x, Insert(x)
    PROVE  do_push(x) /\ pop_cond' \subseteq pop_cond
  BY SignalShrinks DEF Insert

LEMMA RemoveWakes ==
    ASSUME Remove
    PROVE  do_pop /\ push_cond' \subseteq push_cond
  BY SignalShrinks DEF Remove

\* What moving one thread does to the two sets of blocked threads, and to
\* their sizes.
LEMMA MoveThread ==
    ASSUME TypeOK, NEW t \in Threads, NEW w \in Locations, GoTo(t, w)
    PROVE  /\ pc' \in [Threads -> Locations]
           /\ PushBlocked' = IF w = "push_blocked" THEN PushBlocked \cup {t}
                                                   ELSE PushBlocked \ {t}
           /\ PopBlocked' = IF w \in {"pop_blocked", "pop_timed", "pop_timedout"}
                            THEN PopBlocked \cup {t} ELSE PopBlocked \ {t}
           /\ \A u \in Threads : pc'[u] = IF u = t THEN w ELSE pc[u]
  BY DEF TypeOK, GoTo, PushBlocked, PopBlocked

\* Counting a set of threads.
LEMMA ThreadCount ==
    ASSUME NEW S \in SUBSET Threads, NEW t
    PROVE  /\ IsFiniteSet(S) /\ Cardinality(S) \in Nat
           /\ Cardinality(S \cup {t}) = IF t \in S THEN Cardinality(S) ELSE Cardinality(S) + 1
           /\ Cardinality(S \ {t}) = IF t \in S THEN Cardinality(S) - 1 ELSE Cardinality(S)
           /\ t \in S => Cardinality(S) - 1 \in Nat
<1>1. IsFiniteSet(S)
  BY ThreadsFinite, FS_Subset
<1>2. IsFiniteSet(S \ {t})
  BY <1>1, FS_RemoveElement
<1>3. Cardinality(S) \in Nat /\ Cardinality(S \ {t}) \in Nat
  BY <1>1, <1>2, FS_CardinalityType
<1> QED
  BY <1>1, <1>3, FS_AddElement, FS_RemoveElement

LEMMA BlockedAreThreads ==
    PushBlocked \in SUBSET Threads /\ PopBlocked \in SUBSET Threads
  BY DEF PushBlocked, PopBlocked

-----------------------------------------------------------------------------
(* The invariant is kept by every step. The lemmas below group the actions *)
(* by what they touch.                                                     *)

\* Insert and Remove by a thread that was not asleep: only the list and one
\* wait set change.
LEMMA InsertKeeps ==
    ASSUME IInv, NEW x \in Items, ~Full, Insert(x),
           UNCHANGED <<maxlen, active, pushers, poppers, flush_fn, push_cond, pc, arg, role>>
    PROVE  IInv'
<1>1. do_push(x) /\ pop_cond' \subseteq pop_cond
  BY InsertWakes
<1>2. /\ list' \in Seq(Items) /\ accepted' \in Seq(Items) /\ delivered' \in Seq(Items)
      /\ len' \in Nat
      /\ ListIntact'
  BY <1>1, DoPush DEF IInv
<1>3. TypeOK'
  BY <1>1, <1>2 DEF IInv, TypeOK
<1>4. PushBlocked' = PushBlocked /\ PopBlocked' = PopBlocked
  BY DEF PushBlocked, PopBlocked
<1>5. Sleeping' /\ Counted'
  BY <1>1, <1>4 DEF IInv, Sleeping, Counted
<1> QED
  BY <1>2, <1>3, <1>5 DEF IInv

LEMMA RemoveKeeps ==
    ASSUME IInv, len # 0, Remove,
           UNCHANGED <<maxlen, active, pushers, poppers, flush_fn, pop_cond, pc, arg, role>>
    PROVE  IInv'
<1>1. do_pop /\ push_cond' \subseteq push_cond
  BY RemoveWakes
<1>2. /\ list' \in Seq(Items) /\ accepted' \in Seq(Items) /\ delivered' \in Seq(Items)
      /\ len' \in Nat
      /\ ListIntact'
  BY <1>1, DoPop DEF IInv
<1>3. TypeOK'
  BY <1>1, <1>2 DEF IInv, TypeOK
<1>4. PushBlocked' = PushBlocked /\ PopBlocked' = PopBlocked
  BY DEF PushBlocked, PopBlocked
<1>5. Sleeping' /\ Counted'
  BY <1>1, <1>4 DEF IInv, Sleeping, Counted
<1> QED
  BY <1>2, <1>3, <1>5 DEF IInv

\* A thread that sleeps nowhere moves to a place where it sleeps nowhere;
\* the list stays, the wait sets only shrink.
LEMMA QuietMoveKeeps ==
    ASSUME IInv, NEW t \in Threads, NEW w \in Locations,
           t \notin PushBlocked \cup PopBlocked,
           w \notin {"push_blocked", "pop_blocked", "pop_timed", "pop_timedout"},
           GoTo(t, w), active' \in BOOLEAN,
           push_cond' \subseteq push_cond, pop_cond' \subseteq pop_cond,
           UNCHANGED <<list, len, accepted, delivered, maxlen, pushers, poppers,
                       flush_fn, arg, role>>
    PROVE  IInv'
<1>1. /\ pc' \in [Threads -> Locations]
      /\ PushBlocked' = PushBlocked \ {t} /\ PopBlocked' = PopBlocked \ {t}
      /\ \A u \in Threads : pc'[u] = IF u = t THEN w ELSE pc[u]
  BY MoveThread DEF IInv
<1>2. PushBlocked' = PushBlocked /\ PopBlocked' = PopBlocked
  BY <1>1
<1>3. TypeOK' /\ ListIntact'
  BY <1>1 DEF IInv, TypeOK, ListIntact
<1>4. Sleeping' /\ Counted'
  BY <1>1, <1>2 DEF IInv, Sleeping, Counted
<1> QED
  BY <1>3, <1>4 DEF IInv

\* A thread falls asleep, or leaves its wait without touching the list.
LEMMA PushWaitKeeps ==
    ASSUME IInv, NEW t \in Threads, NEW x \in Items, PushWait(t, x)
    PROVE  IInv'
<1>1. /\ pc' \in [Threads -> Locations]
      /\ PushBlocked' = PushBlocked \cup {t} /\ PopBlocked' = PopBlocked \ {t}
      /\ \A u \in Threads : pc'[u] = IF u = t THEN "push_blocked" ELSE pc[u]
  BY MoveThread DEF IInv, PushWait, Locations
<1>2. t \notin PushBlocked /\ PopBlocked' = PopBlocked
  BY <1>1 DEF PushWait, Calls, PushBlocked, PopBlocked
<1>3. TypeOK' /\ ListIntact'
  <2>1. ListIntact'
    BY DEF IInv, ListIntact, PushWait, qVars
  <2>2. arg' \in [Threads -> Items \cup {NoItem}] /\ push_cond' \subseteq Threads
    BY DEF IInv, TypeOK, PushWait
  <2>3. pushers' \in Nat
    BY DEF IInv, TypeOK, PushWait
  <2> QED
    BY <1>1, <2>1, <2>2, <2>3 DEF IInv, TypeOK, PushWait, qVars
<1>4. Sleeping'
  BY <1>1, <1>2 DEF IInv, TypeOK, Sleeping, PushWait
<1>5. Counted'
  BY <1>1, <1>2, BlockedAreThreads, ThreadCount DEF IInv, Counted, PushWait
<1> QED
  BY <1>3, <1>4, <1>5 DEF IInv

LEMMA PushResumeKeeps ==
    ASSUME IInv, NEW t \in Threads, PushResume(t)
    PROVE  IInv'
<1>1. /\ pc' \in [Threads -> Locations]
      /\ PushBlocked' = PushBlocked \ {t} /\ PopBlocked' = PopBlocked \ {t}
      /\ \A u \in Threads : pc'[u] = IF u = t THEN "idle" ELSE pc[u]
  BY MoveThread DEF IInv, PushResume, Locations
<1>2. t \in PushBlocked /\ PopBlocked' = PopBlocked /\ arg[t] \in Items
  BY <1>1 DEF IInv, Sleeping, PushResume, PushBlocked, PopBlocked
<1>3. /\ list' \in Seq(Items) /\ accepted' \in Seq(Items) /\ delivered' \in Seq(Items)
      /\ len' \in Nat /\ pop_cond' \subseteq pop_cond
      /\ ListIntact'
  <2>1. CASE Full
    BY <2>1 DEF IInv, TypeOK, ListIntact, PushResume, qVars
  <2>2. CASE ~Full
    <3>1. Insert(arg[t]) /\ maxlen' = maxlen
      BY <2>2 DEF PushResume
    <3>2. do_push(arg[t]) /\ pop_cond' \subseteq pop_cond
      BY <3>1, InsertWakes
    <3> QED
      BY <1>2, <2>2, <3>1, <3>2, DoPush DEF IInv
  <2> QED
    BY <2>1, <2>2
<1>4. Counted' /\ pushers' \in Nat
  BY <1>1, <1>2, BlockedAreThreads, ThreadCount DEF IInv, Counted, PushResume
<1>5. TypeOK'
  BY <1>1, <1>3, <1>4 DEF IInv, TypeOK, PushResume
<1>6. Sleeping'
  BY <1>1, <1>2, <1>3 DEF IInv, TypeOK, Sleeping, PushResume
<1> QED
  BY <1>3, <1>4, <1>5, <1>6 DEF IInv

LEMMA PopWaitKeeps ==
    ASSUME IInv, NEW t \in Threads, NEW op, NEW w, PopWait(t, op, w),
           \/ op = "pop" /\ w = "pop_blocked"
           \/ op = "pop_timeout" /\ w = "pop_timed"
    PROVE  IInv'
<1>1. /\ pc' \in [Threads -> Locations]
      /\ PushBlocked' = PushBlocked \ {t} /\ PopBlocked' = PopBlocked \cup {t}
      /\ \A u \in Threads : pc'[u] = IF u = t THEN w ELSE pc[u]
  BY MoveThread DEF IInv, PopWait, Locations
<1>2. t \notin PopBlocked /\ PushBlocked' = PushBlocked /\ op \in role[t]
  BY <1>1 DEF PopWait, Calls, PushBlocked, PopBlocked
<1>3. TypeOK' /\ ListIntact'
  <2>1. ListIntact'
    BY DEF IInv, ListIntact, PopWait, qVars
  <2>2. pop_cond' \subseteq Threads /\ poppers' \in Nat
    BY DEF IInv, TypeOK, PopWait
  <2> QED
    BY <1>1, <2>1, <2>2 DEF IInv, TypeOK, PopWait, qVars
<1>4. Sleeping'
  BY <1>1, <1>2 DEF IInv, Sleeping, PopWait
<1>5. Counted'
  BY <1>1, <1>2, BlockedAreThreads, ThreadCount DEF IInv, Counted, PopWait
<1> QED
  BY <1>3, <1>4, <1>5 DEF IInv

LEMMA PopResumeKeeps ==
    ASSUME IInv, NEW t \in Threads, PopResume(t)
    PROVE  IInv'
<1>1. /\ pc' \in [Threads -> Locations]
      /\ PushBlocked' = PushBlocked \ {t} /\ PopBlocked' = PopBlocked \ {t}
      /\ \A u \in Threads : pc'[u] = IF u = t THEN "idle" ELSE pc[u]
  BY MoveThread DEF IInv, PopResume, Locations
<1>2. t \in PopBlocked /\ PushBlocked' = PushBlocked
  BY <1>1 DEF PopResume, PushBlocked, PopBlocked
<1>3. /\ list' \in Seq(Items) /\ accepted' \in Seq(Items) /\ delivered' \in Seq(Items)
      /\ len' \in Nat /\ push_cond' \subseteq push_cond
      /\ ListIntact'
  <2>1. CASE len = 0
    BY <2>1 DEF IInv, TypeOK, ListIntact, PopResume, qVars
  <2>2. CASE len # 0
    <3>1. Remove /\ maxlen' = maxlen
      BY <2>2 DEF PopResume
    <3>2. do_pop /\ push_cond' \subseteq push_cond
      BY <3>1, RemoveWakes
    <3> QED
      BY <2>2, <3>1, <3>2, DoPop DEF IInv
  <2> QED
    BY <2>1, <2>2
<1>4. Counted' /\ poppers' \in Nat
  BY <1>1, <1>2, BlockedAreThreads, ThreadCount DEF IInv, Counted, PopResume
<1>5. TypeOK'
  BY <1>1, <1>3, <1>4 DEF IInv, TypeOK, PopResume
<1>6. Sleeping'
  BY <1>1, <1>2, <1>3 DEF IInv, Sleeping, PopResume
<1> QED
  BY <1>3, <1>4, <1>5, <1>6 DEF IInv

LEMMA PopDeadlineKeeps ==
    ASSUME IInv, NEW t \in Threads, PopDeadline(t)
    PROVE  IInv'
<1>1. /\ pc' \in [Threads -> Locations]
      /\ PushBlocked' = PushBlocked \ {t} /\ PopBlocked' = PopBlocked \cup {t}
      /\ \A u \in Threads : pc'[u] = IF u = t THEN "pop_timedout" ELSE pc[u]
  BY MoveThread DEF IInv, PopDeadline, Locations
<1>2. PopBlocked' = PopBlocked /\ PushBlocked' = PushBlocked
  BY <1>1 DEF PopDeadline, PushBlocked, PopBlocked
<1>3. TypeOK' /\ ListIntact'
  BY <1>1 DEF IInv, TypeOK, ListIntact, PopDeadline, qVars
<1>4. Sleeping' /\ Counted'
  BY <1>1, <1>2 DEF IInv, Sleeping, Counted, PopDeadline
<1> QED
  BY <1>3, <1>4 DEF IInv

LEMMA PopTimedOutKeeps ==
    ASSUME IInv, NEW t \in Threads, PopTimedOut(t)
    PROVE  IInv'
<1>1. /\ pc' \in [Threads -> Locations]
      /\ PushBlocked' = PushBlocked \ {t} /\ PopBlocked' = PopBlocked \ {t}
      /\ \A u \in Threads : pc'[u] = IF u = t THEN "idle" ELSE pc[u]
  BY MoveThread DEF IInv, PopTimedOut, Locations
<1>2. t \in PopBlocked /\ PushBlocked' = PushBlocked
  BY <1>1 DEF PopTimedOut, PushBlocked, PopBlocked
<1>3. Counted' /\ poppers' \in Nat
  BY <1>1, <1>2, BlockedAreThreads, ThreadCount DEF IInv, Counted, PopTimedOut
<1>4. TypeOK' /\ ListIntact'
  BY <1>1, <1>3 DEF IInv, TypeOK, ListIntact, PopTimedOut, qVars
<1>5. Sleeping'
  BY <1>1, <1>2 DEF IInv, Sleeping, PopTimedOut
<1> QED
  BY <1>3, <1>4, <1>5 DEF IInv

LEMMA WakeupKeeps ==
    ASSUME IInv, push_cond' \subseteq push_cond, pop_cond' \subseteq pop_cond,
           flush_fn' \in BOOLEAN,
           UNCHANGED <<list, len, accepted, delivered, maxlen, active, pushers,
                       poppers, pc, arg, role>>
    PROVE  IInv'
<1>1. PushBlocked' = PushBlocked /\ PopBlocked' = PopBlocked
  BY DEF PushBlocked, PopBlocked
<1>2. TypeOK' /\ ListIntact'
  BY DEF IInv, TypeOK, ListIntact
<1>3. Sleeping' /\ Counted'
  BY <1>1 DEF IInv, Sleeping, Counted
<1> QED
  BY <1>2, <1>3 DEF IInv

LEMMA InitIInv == Init => IInv
<1> SUFFICES ASSUME Init PROVE IInv
  OBVIOUS
<1>1. PushBlocked = {} /\ PopBlocked = {}
  BY DEF Init, PushBlocked, PopBlocked
<1>2. TypeOK
  BY EmptySeq, MaxLensAreSizes, RolesAreOps DEF Init, TypeOK, Locations
<1>3. ListIntact
  <2>1. <<>> \o <<>> = <<>>
    BY ConcatEmptySeq, EmptySeq
  <2> QED
    BY <2>1, EmptySeq, MaxLensAreSizes DEF Init, ListIntact
<1>4. Sleeping
  BY <1>1 DEF Init, Sleeping
<1>5. Counted
  BY <1>1, FS_EmptySet DEF Init, Counted
<1> QED
  BY <1>2, <1>3, <1>4, <1>5 DEF IInv

LEMMA NextIInv == IInv /\ [Next]_vars => IInv'
<1> SUFFICES ASSUME IInv, [Next]_vars PROVE IInv'
  OBVIOUS
<1>0. CASE UNCHANGED vars
  BY <1>0 DEF vars, IInv, TypeOK, ListIntact, Sleeping, Counted, PushBlocked, PopBlocked
<1> SUFFICES ASSUME NEW t \in Threads, Step(t)
             PROVE  IInv'
  BY <1>0 DEF Next
<1>1. ASSUME NEW x \in Items, PushNow(t, x) PROVE IInv'
  BY <1>1, InsertKeeps DEF PushNow
<1>2. ASSUME NEW x \in Items, PushWait(t, x) PROVE IInv'
  BY <1>2, PushWaitKeeps
<1>3. ASSUME NEW x \in Items, TryPush(t, x) PROVE IInv'
  BY <1>3, InsertKeeps DEF TryPush
<1>4. CASE PushResume(t)
  BY <1>4, PushResumeKeeps
<1>5. CASE PopNow(t)
  BY <1>5, RemoveKeeps DEF PopNow
<1>6. CASE TryPop(t)
  BY <1>6, RemoveKeeps DEF TryPop
<1>7. CASE PopWait(t, "pop", "pop_blocked")
  BY <1>7, PopWaitKeeps
<1>8. CASE PopWait(t, "pop_timeout", "pop_timed")
  BY <1>8, PopWaitKeeps
<1>9. CASE PopResume(t)
  BY <1>9, PopResumeKeeps
<1>10. CASE PopDeadline(t)
  BY <1>10, PopDeadlineKeeps
<1>11. CASE PopTimedOut(t)
  BY <1>11, PopTimedOutKeeps
<1>12. CASE SpuriousWakeup(t)
  BY <1>12, WakeupKeeps DEF SpuriousWakeup, qVars, IInv, TypeOK
<1>13. CASE WaitBegin(t)
  BY <1>13, QuietMoveKeeps
     DEF WaitBegin, Calls, qVars, Locations, PushBlocked, PopBlocked, IInv, TypeOK
<1>14. CASE WaitDone(t)
  BY <1>14, QuietMoveKeeps
     DEF WaitDone, qVars, Locations, PushBlocked, PopBlocked, IInv, TypeOK
<1>15. CASE Wake(t)
  BY <1>15, WakeupKeeps DEF Wake, WakeAll, qVars, IInv, TypeOK
<1>16. CASE TermClear(t)
  BY <1>16, QuietMoveKeeps
     DEF TermClear, Calls, qVars, Locations, PushBlocked, PopBlocked
<1>17. CASE TermWake(t)
  BY <1>17, QuietMoveKeeps
     DEF TermWake, WakeAll, qVars, Locations, PushBlocked, PopBlocked, IInv, TypeOK
<1>18. CASE FlushBegin(t)
  BY <1>18, QuietMoveKeeps
     DEF FlushBegin, Calls, qVars, Locations, PushBlocked, PopBlocked, IInv, TypeOK
<1>19. CASE FlushPop(t)
  BY <1>19, RemoveKeeps DEF FlushPop
<1>20. CASE FlushDone(t)
  BY <1>20, QuietMoveKeeps
     DEF FlushDone, qVars, Locations, PushBlocked, PopBlocked, IInv, TypeOK
<1>21. CASE SetFlushFn(t)
  BY <1>21, WakeupKeeps DEF SetFlushFn, qVars
<1>22. CASE DestroyBegin(t)
  BY <1>22, QuietMoveKeeps
     DEF DestroyBegin, Calls, qVars, Locations, PushBlocked, PopBlocked, IInv, TypeOK
<1>23. CASE DestroyTerm(t)
  BY <1>23, QuietMoveKeeps
     DEF DestroyTerm, qVars, Locations, PushBlocked, PopBlocked
<1>24. CASE DestroyFree(t)
  BY <1>24, QuietMoveKeeps
     DEF DestroyFree, qVars, Locations, PushBlocked, PopBlocked, IInv, TypeOK
<1> QED
  BY <1>1, <1>2, <1>3, <1>4, <1>5, <1>6, <1>7, <1>8, <1>9, <1>10, <1>11, <1>12, <1>13,
     <1>14, <1>15, <1>16, <1>17, <1>18, <1>19, <1>20, <1>21, <1>22, <1>23, <1>24 DEF Step

\* The inductive invariant holds in every state of the queue.
THEOREM SpecIInv == Spec => []IInv
<1> QED
  BY InitIInv, NextIInv, PTL DEF Spec

\* Every field of the queue keeps its type: len, pushers and poppers never
\* wrap below zero.
THEOREM SpecTypeOK == Spec => []TypeOK
<1>1. IInv => TypeOK
  BY DEF IInv
<1> QED
  BY <1>1, SpecIInv, PTL

\* The queue neither loses, duplicates nor reorders an item, counts its list
\* exactly and never holds more than maxlen items.
THEOREM SpecListIntact == Spec => []ListIntact
<1>1. IInv => ListIntact
  BY DEF IInv
<1> QED
  BY <1>1, SpecIInv, PTL

\* pushers and poppers count exactly the threads in a sleeping push or pop.
THEOREM SpecCounted == Spec => []Counted
<1>1. IInv => Counted
  BY DEF IInv
<1> QED
  BY <1>1, SpecIInv, PTL

-----------------------------------------------------------------------------
(* No wakeup is lost.                                                      *)

PushersHeard == active /\ push_cond # {} => maxlen - len <= Cardinality(WokenPushers)
PoppersHeard ==
    active /\ pop_cond # {} /\ NoTimedPops => len <= Cardinality(WokenPoppers)

LEMMA WokenAreThreads ==
    /\ WokenPushers \in SUBSET Threads /\ WokenPushers' \in SUBSET Threads
    /\ WokenPoppers \in SUBSET Threads /\ WokenPoppers' \in SUBSET Threads
  BY DEF WokenPushers, WokenPoppers, PushBlocked, PopBlocked

LEMMA MoreThreads ==
    ASSUME NEW S \in SUBSET Threads, NEW T \in SUBSET Threads, S \subseteq T
    PROVE  Cardinality(S) \in Nat /\ Cardinality(T) \in Nat /\ Cardinality(S) <= Cardinality(T)
<1>1. IsFiniteSet(S) /\ IsFiniteSet(T)
  BY ThreadsFinite, FS_Subset
<1> QED
  BY <1>1, FS_Subset, FS_CardinalityType

\* A signal to a wait set that is not empty moves one thread out of it.
LEMMA SignalMoves ==
    ASSUME NEW W, NEW V \in CondSignal(W), V # {}
    PROVE  \E u \in W : V = W \ {u}
  BY DEF CondSignal

\* An insertion finds a popper for the item it adds.
LEMMA InsertHeard ==
    ASSUME IInv, PoppersHeard, NEW x, Insert(x), PopBlocked' = PopBlocked,
           active' = active, role' = role
    PROVE  PoppersHeard'
<1> SUFFICES ASSUME active, pop_cond' # {}, NoTimedPops
             PROVE  len' <= Cardinality(WokenPoppers')
  BY DEF PoppersHeard, NoTimedPops
<1>1. len' = len + 1 /\ len \in Nat
  BY DEF Insert, do_push, IInv, TypeOK
<1>2. PICK u \in pop_cond : pop_cond' = pop_cond \ {u}
  <2>1. pop_cond # {} /\ pop_cond' \subseteq pop_cond
    BY InsertWakes
  <2>2. PICK v \in PopBlocked : TRUE
    BY <2>1 DEF IInv, Sleeping
  <2>3. poppers > 0
    <3>1. Cardinality(PopBlocked) \in Nat /\ Cardinality(PopBlocked) - 1 \in Nat
      BY <2>2, BlockedAreThreads, ThreadCount
    <3>2. poppers = Cardinality(PopBlocked)
      BY DEF IInv, Counted
    <3> QED
      BY <3>1, <3>2
  <2> QED
    BY <2>3, SignalMoves DEF Insert
<1>3. len <= Cardinality(WokenPoppers)
  BY <1>2 DEF PoppersHeard
<1>4. WokenPoppers' = WokenPoppers \cup {u} /\ u \notin WokenPoppers
  BY <1>2 DEF WokenPoppers, IInv, Sleeping
<1>5. /\ Cardinality(WokenPoppers) \in Nat
      /\ Cardinality(WokenPoppers') = Cardinality(WokenPoppers) + 1
  BY <1>4, WokenAreThreads, ThreadCount
<1> QED
  BY <1>1, <1>3, <1>5

\* A removal finds a pusher for the slot it frees.
LEMMA RemoveHeard ==
    ASSUME IInv, PushersHeard, Remove, PushBlocked' = PushBlocked,
           active' = active, maxlen' = maxlen
    PROVE  PushersHeard'
<1> SUFFICES ASSUME active, push_cond' # {}
             PROVE  maxlen - len' <= Cardinality(WokenPushers')
  BY DEF PushersHeard
<1>1. len' = len - 1 /\ len \in Nat /\ maxlen \in Nat
  BY DEF Remove, do_pop, IInv, TypeOK
<1>2. PICK u \in push_cond : push_cond' = push_cond \ {u}
  <2>1. push_cond # {} /\ push_cond' \subseteq push_cond
    BY RemoveWakes
  <2>2. PICK v \in PushBlocked : TRUE
    BY <2>1 DEF IInv, Sleeping
  <2>3. pushers > 0
    <3>1. Cardinality(PushBlocked) \in Nat /\ Cardinality(PushBlocked) - 1 \in Nat
      BY <2>2, BlockedAreThreads, ThreadCount
    <3>2. pushers = Cardinality(PushBlocked)
      BY DEF IInv, Counted
    <3> QED
      BY <3>1, <3>2
  <2> QED
    BY <2>3, SignalMoves DEF Remove
<1>3. maxlen - len <= Cardinality(WokenPushers)
  BY <1>2 DEF PushersHeard
<1>4. WokenPushers' = WokenPushers \cup {u} /\ u \notin WokenPushers
  BY <1>2 DEF WokenPushers, IInv, Sleeping
<1>5. /\ Cardinality(WokenPushers) \in Nat
      /\ Cardinality(WokenPushers') = Cardinality(WokenPushers) + 1
  BY <1>4, WokenAreThreads, ThreadCount
<1> QED
  BY <1>1, <1>3, <1>5

\* Nobody is unheard by a step that frees no slot, or adds no item, and puts
\* no thread to sleep.
LEMMA PushersStayHeard ==
    ASSUME IInv, IInv', PushersHeard, PushBlocked' = PushBlocked,
           push_cond' \subseteq push_cond, active' => active, maxlen' = maxlen, len' >= len
    PROVE  PushersHeard'
<1>1. WokenPushers \subseteq WokenPushers'
  BY DEF WokenPushers
<1>2. /\ Cardinality(WokenPushers) \in Nat /\ Cardinality(WokenPushers') \in Nat
      /\ Cardinality(WokenPushers) <= Cardinality(WokenPushers')
  BY <1>1, WokenAreThreads, MoreThreads
<1>3. len \in Nat /\ len' \in Nat /\ maxlen \in Nat
  BY DEF IInv, TypeOK
<1> QED
  BY <1>2, <1>3 DEF PushersHeard

LEMMA PoppersStayHeard ==
    ASSUME IInv, IInv', PoppersHeard, PopBlocked' = PopBlocked,
           pop_cond' \subseteq pop_cond, active' => active, role' = role, len' <= len
    PROVE  PoppersHeard'
<1>1. WokenPoppers \subseteq WokenPoppers'
  BY DEF WokenPoppers
<1>2. /\ Cardinality(WokenPoppers) \in Nat /\ Cardinality(WokenPoppers') \in Nat
      /\ Cardinality(WokenPoppers) <= Cardinality(WokenPoppers')
  BY <1>1, WokenAreThreads, MoreThreads
<1>3. len \in Nat /\ len' \in Nat
  BY DEF IInv, TypeOK
<1> QED
  BY <1>2, <1>3 DEF PoppersHeard, NoTimedPops

\* A woken pusher that uses its slot, or finds it taken.
LEMMA PushResumeHeard ==
    ASSUME IInv, IInv', PushersHeard, PoppersHeard, NEW t \in Threads, PushResume(t)
    PROVE  PushersHeard' /\ PoppersHeard'
<1>1. PushBlocked' = PushBlocked \ {t} /\ PopBlocked' = PopBlocked /\ t \in PushBlocked
  BY MoveThread DEF IInv, PushResume, Locations, PushBlocked, PopBlocked
<1>2. /\ len \in Nat /\ len' \in Nat /\ maxlen \in Nat /\ active' = active /\ maxlen' = maxlen
      /\ push_cond' = push_cond /\ t \notin push_cond /\ role' = role
  BY DEF IInv, TypeOK, PushResume
<1>3. WokenPushers' = WokenPushers \ {t} /\ t \in WokenPushers
  BY <1>1, <1>2 DEF WokenPushers
<1>4. /\ Cardinality(WokenPushers) \in Nat /\ Cardinality(WokenPushers') \in Nat
      /\ Cardinality(WokenPushers') = Cardinality(WokenPushers) - 1
  BY <1>3, WokenAreThreads, ThreadCount
<1>5. CASE Full
  <2>1. len' = len /\ pop_cond' = pop_cond
    BY <1>5 DEF PushResume, qVars
  <2> QED
    BY <1>1, <1>2, <1>4, <1>5, <2>1, PoppersStayHeard DEF PushersHeard, Full
<1>6. CASE ~Full
  <2>1. Insert(arg[t])
    BY <1>6 DEF PushResume
  <2>2. PoppersHeard'
    BY <1>1, <1>2, <2>1, InsertHeard
  <2>3. active => len' = len + 1
    BY <2>1 DEF Insert, do_push
  <2> QED
    BY <1>2, <1>4, <2>2, <2>3 DEF PushersHeard
<1> QED
  BY <1>5, <1>6

\* A woken popper that takes its item, or finds it gone.
LEMMA PopResumeHeard ==
    ASSUME IInv, IInv', PushersHeard, PoppersHeard, NEW t \in Threads, PopResume(t)
    PROVE  PushersHeard' /\ PoppersHeard'
<1>1. PopBlocked' = PopBlocked \ {t} /\ PushBlocked' = PushBlocked /\ t \in PopBlocked
  BY MoveThread DEF IInv, PopResume, Locations, PushBlocked, PopBlocked
<1>2. /\ len \in Nat /\ len' \in Nat /\ maxlen \in Nat /\ active' = active /\ maxlen' = maxlen
      /\ pop_cond' = pop_cond /\ t \notin pop_cond /\ role' = role
  BY DEF IInv, TypeOK, PopResume
<1>3. WokenPoppers' = WokenPoppers \ {t} /\ t \in WokenPoppers
  BY <1>1, <1>2 DEF WokenPoppers
<1>4. /\ Cardinality(WokenPoppers) \in Nat /\ Cardinality(WokenPoppers') \in Nat
      /\ Cardinality(WokenPoppers') = Cardinality(WokenPoppers) - 1
  BY <1>3, WokenAreThreads, ThreadCount
<1>5. CASE len = 0
  <2>1. len' = len /\ push_cond' = push_cond
    BY <1>5 DEF PopResume, qVars
  <2> QED
    BY <1>1, <1>2, <1>4, <1>5, <2>1, PushersStayHeard DEF PoppersHeard
<1>6. CASE len # 0
  <2>1. Remove
    BY <1>6 DEF PopResume
  <2>2. PushersHeard'
    BY <1>1, <1>2, <2>1, RemoveHeard
  <2>3. active => len' = len - 1
    BY <2>1 DEF Remove, do_pop
  <2> QED
    BY <1>2, <1>4, <2>2, <2>3 DEF PoppersHeard, NoTimedPops
<1> QED
  BY <1>5, <1>6

LEMMA NextHeard ==
    IInv /\ IInv' /\ PushersHeard /\ PoppersHeard /\ [Next]_vars
        => PushersHeard' /\ PoppersHeard'
<1> SUFFICES ASSUME IInv, IInv', PushersHeard, PoppersHeard, [Next]_vars
             PROVE  PushersHeard' /\ PoppersHeard'
  OBVIOUS
<1>0. len \in Nat /\ maxlen \in Nat
  BY DEF IInv, TypeOK
\* Steps that leave the list alone and put nobody to sleep.
<1>a. ASSUME PushBlocked' = PushBlocked, PopBlocked' = PopBlocked,
             push_cond' \subseteq push_cond, pop_cond' \subseteq pop_cond,
             active' => active, maxlen' = maxlen, len' = len, role' = role
      PROVE  PushersHeard' /\ PoppersHeard'
  BY <1>a, <1>0, PushersStayHeard, PoppersStayHeard
\* Insertions and removals by a thread that was awake.
<1>b. ASSUME NEW x, Insert(x), push_cond' = push_cond,
             UNCHANGED <<pc, active, maxlen, role>>
      PROVE  PushersHeard' /\ PoppersHeard'
  <2>1. PushBlocked' = PushBlocked /\ PopBlocked' = PopBlocked
    BY <1>b DEF PushBlocked, PopBlocked
  <2>2. len' >= len
    BY <1>0, <1>b DEF Insert, do_push, qVars
  <2> QED
    BY <1>b, <2>1, <2>2, InsertHeard, PushersStayHeard
<1>c. ASSUME Remove, pop_cond' = pop_cond, UNCHANGED <<pc, active, maxlen, role>>
      PROVE  PushersHeard' /\ PoppersHeard'
  <2>1. PushBlocked' = PushBlocked /\ PopBlocked' = PopBlocked
    BY <1>c DEF PushBlocked, PopBlocked
  <2>2. len' <= len
    BY <1>0, <1>c DEF Remove, do_pop, qVars
  <2> QED
    BY <1>c, <2>1, <2>2, RemoveHeard, PoppersStayHeard
<1>d. CASE UNCHANGED vars
  BY <1>a, <1>d DEF vars, PushBlocked, PopBlocked
<1> SUFFICES ASSUME NEW t \in Threads, Step(t)
             PROVE  PushersHeard' /\ PoppersHeard'
  BY <1>d DEF Next
\* A thread that sleeps nowhere moves to where it sleeps nowhere.
<1>e. ASSUME NEW w \in Locations,
             pc[t] \notin {"push_blocked", "pop_blocked", "pop_timed", "pop_timedout"},
             w \notin {"push_blocked", "pop_blocked", "pop_timed", "pop_timedout"},
             GoTo(t, w), push_cond' \subseteq push_cond, pop_cond' \subseteq pop_cond,
             active' => active, UNCHANGED <<len, maxlen, role>>
      PROVE  PushersHeard' /\ PoppersHeard'
  <2>1. PushBlocked' = PushBlocked /\ PopBlocked' = PopBlocked
    BY <1>e, MoveThread DEF IInv, PushBlocked, PopBlocked
  <2> QED
    BY <1>a, <1>e, <2>1
<1>1. ASSUME NEW x \in Items, PushNow(t, x) \/ TryPush(t, x)
      PROVE  PushersHeard' /\ PoppersHeard'
  BY <1>1, <1>b DEF PushNow, TryPush
<1>2. ASSUME NEW x \in Items, PushWait(t, x) PROVE PushersHeard' /\ PoppersHeard'
  <2>1. PopBlocked' = PopBlocked
    BY <1>2, MoveThread DEF IInv, PushWait, Calls, Locations, PopBlocked
  <2>2. PoppersHeard'
    BY <1>2, <1>0, <2>1, PoppersStayHeard DEF PushWait, qVars
  <2>3. maxlen' - len' = 0
    BY <1>2, <1>0 DEF PushWait, Full, qVars
  <2>4. Cardinality(WokenPushers') \in Nat
    BY WokenAreThreads, MoreThreads
  <2> QED
    BY <2>2, <2>3, <2>4 DEF PushersHeard
<1>3. CASE PushResume(t)
  BY <1>3, PushResumeHeard
<1>4. CASE PopNow(t) \/ TryPop(t) \/ FlushPop(t)
  BY <1>4, <1>c DEF PopNow, TryPop, FlushPop
<1>5. ASSUME NEW op, NEW w \in {"pop_blocked", "pop_timed"}, PopWait(t, op, w)
      PROVE PushersHeard' /\ PoppersHeard'
  <2>1. PushBlocked' = PushBlocked
    BY <1>5, MoveThread DEF IInv, PopWait, Calls, Locations, PushBlocked
  <2>2. PushersHeard'
    BY <1>5, <1>0, <2>1, PushersStayHeard DEF PopWait, qVars
  <2>3. len' = 0
    BY <1>5 DEF PopWait, qVars
  <2>4. Cardinality(WokenPoppers') \in Nat
    BY WokenAreThreads, MoreThreads
  <2> QED
    BY <2>2, <2>3, <2>4 DEF PoppersHeard
<1>6. CASE PopResume(t)
  BY <1>6, PopResumeHeard
<1>7. CASE PopDeadline(t)
  <2>1. PushBlocked' = PushBlocked /\ PopBlocked' = PopBlocked
    BY <1>7, MoveThread DEF IInv, PopDeadline, Locations, PushBlocked, PopBlocked
  <2> QED
    BY <1>a, <1>7, <2>1 DEF PopDeadline, qVars
<1>8. CASE PopTimedOut(t)
  <2>1. PushBlocked' = PushBlocked
    BY <1>8, MoveThread DEF IInv, PopTimedOut, Locations, PushBlocked
  <2>2. PushersHeard'
    BY <1>8, <1>0, <2>1, PushersStayHeard DEF PopTimedOut, qVars
  <2>3. ~NoTimedPops'
    BY <1>8 DEF PopTimedOut, IInv, Sleeping, NoTimedPops
  <2> QED
    BY <2>2, <2>3 DEF PoppersHeard
<1>9. CASE SpuriousWakeup(t) \/ Wake(t) \/ SetFlushFn(t)
  BY <1>a, <1>9 DEF SpuriousWakeup, Wake, WakeAll, SetFlushFn, qVars, PushBlocked, PopBlocked
<1>10. CASE WaitBegin(t) \/ WaitDone(t)
  BY <1>e, <1>10 DEF WaitBegin, WaitDone, Calls, qVars, Locations
<1>11. CASE TermClear(t)
  BY <1>e, <1>11 DEF TermClear, Calls, qVars, Locations
<1>12. CASE TermWake(t)
  BY <1>e, <1>12 DEF TermWake, WakeAll, qVars, Locations
<1>13. CASE FlushBegin(t) \/ FlushDone(t)
  BY <1>e, <1>13 DEF FlushBegin, FlushDone, Calls, qVars, Locations
<1>14. CASE DestroyBegin(t)
  BY <1>e, <1>14 DEF DestroyBegin, Calls, qVars, Locations
<1>15. CASE DestroyTerm(t) \/ DestroyFree(t)
  BY <1>e, <1>15 DEF DestroyTerm, DestroyFree, qVars, Locations
<1> QED
  BY <1>1, <1>2, <1>3, <1>4, <1>5, <1>6, <1>7, <1>8, <1>9, <1>10, <1>11, <1>12, <1>13,
     <1>14, <1>15 DEF Step

\* On an active queue no free slot is left to a sleeping pusher, and, where
\* nobody pops with a timeout, no item to a sleeping popper.
THEOREM SpecNoLostWakeup == Spec => []NoLostWakeup
<1>1. Init => PushersHeard /\ PoppersHeard
  BY DEF Init, PushersHeard, PoppersHeard
<1>2. PushersHeard /\ PoppersHeard => NoLostWakeup
  BY DEF PushersHeard, PoppersHeard, NoLostWakeup
<1> QED
  BY <1>1, <1>2, NextHeard, SpecIInv, PTL DEF Spec

-----------------------------------------------------------------------------
(* Termination wakes everybody.                                            *)

\* Only ks_q_wake's broadcast, which empties the wait sets, ends a waker.
LEMMA NextTermWakes == IInv /\ TermWakesAll /\ [Next]_vars => TermWakesAll'
<1> SUFFICES ASSUME IInv, TermWakesAll, [Next]_vars,
                    ~active', push_cond' \cup pop_cond' # {}
             PROVE  \E t \in Threads : pc'[t] \in {"wake", "destroy_wake"}
  BY DEF TermWakesAll
<1>0. pc \in [Threads -> Locations] /\ active \in BOOLEAN
  BY DEF IInv, TypeOK
<1>a. ASSUME active' = active, push_cond' \subseteq push_cond, pop_cond' \subseteq pop_cond,
             \A u \in Threads : pc[u] \in {"wake", "destroy_wake"} => pc'[u] = pc[u]
      PROVE  \E u \in Threads : pc'[u] \in {"wake", "destroy_wake"}
  <2>1. \E u \in Threads : pc[u] \in {"wake", "destroy_wake"}
    BY <1>a DEF TermWakesAll
  <2> QED
    BY <1>a, <2>1
<1>b. CASE UNCHANGED vars
  BY <1>a, <1>b DEF vars
<1> SUFFICES ASSUME NEW t \in Threads, Step(t)
             PROVE  \E u \in Threads : pc'[u] \in {"wake", "destroy_wake"}
  BY <1>b DEF Next
<1>1. ASSUME NEW x \in Items, PushNow(t, x) \/ PushWait(t, x) \/ TryPush(t, x)
      PROVE  FALSE
  BY <1>1 DEF PushNow, PushWait, TryPush
<1>2. CASE PushResume(t)
  <2>1. pop_cond' \subseteq pop_cond
    BY <1>2, InsertWakes DEF PushResume
  <2> QED
    BY <1>0, <1>a, <1>2, <2>1 DEF PushResume, GoTo
<1>3. CASE PopNow(t) \/ TryPop(t) \/ FlushPop(t)
  BY <1>3 DEF PopNow, TryPop, FlushPop
<1>4. ASSUME NEW op, NEW w, PopWait(t, op, w)
      PROVE  FALSE
  BY <1>4 DEF PopWait
<1>5. CASE PopResume(t)
  <2>1. push_cond' \subseteq push_cond
    BY <1>5, RemoveWakes DEF PopResume
  <2> QED
    BY <1>0, <1>a, <1>5, <2>1 DEF PopResume, GoTo
<1>6. CASE PopDeadline(t) \/ PopTimedOut(t)
  BY <1>0, <1>a, <1>6 DEF PopDeadline, PopTimedOut, GoTo
<1>7. CASE SpuriousWakeup(t) \/ SetFlushFn(t)
  BY <1>a, <1>7 DEF SpuriousWakeup, SetFlushFn
<1>8. CASE WaitBegin(t) \/ WaitDone(t)
  BY <1>0, <1>a, <1>8 DEF WaitBegin, WaitDone, Calls, GoTo
<1>9. CASE Wake(t) \/ TermWake(t)
  BY <1>9 DEF Wake, TermWake, WakeAll
<1>10. CASE TermClear(t)
  BY <1>0, <1>10 DEF TermClear, GoTo
<1>11. CASE FlushBegin(t) \/ FlushDone(t)
  BY <1>0, <1>a, <1>11 DEF FlushBegin, FlushDone, Calls, GoTo
<1>12. CASE DestroyBegin(t)
  BY <1>0, <1>a, <1>12 DEF DestroyBegin, Calls, GoTo
<1>13. CASE DestroyTerm(t)
  <2>1. CASE active
    BY <1>0, <1>13, <2>1 DEF DestroyTerm, GoTo
  <2>2. CASE ~active
    BY <1>0, <1>a, <1>13, <2>2 DEF DestroyTerm, GoTo
  <2> QED
    BY <2>1, <2>2
<1>14. CASE DestroyFree(t)
  BY <1>0, <1>a, <1>14 DEF DestroyFree, GoTo
<1> QED
  BY <1>1, <1>2, <1>3, <1>4, <1>5, <1>6, <1>7, <1>8, <1>9, <1>10, <1>11, <1>12, <1>13,
     <1>14 DEF Step

\* Whoever sleeps on a terminated queue has the broadcast of ks_q_term still
\* to come, however the calls of ks_q_term interleave.
THEOREM SpecTermWakesAll == Spec => []TermWakesAll
<1>1. Init => TermWakesAll
  BY DEF Init, TermWakesAll
<1> QED
  BY <1>1, NextTermWakes, SpecIInv, PTL DEF Spec

-----------------------------------------------------------------------------
(* The queue implements the FIFO.                                          *)

LEMMA PushIsPut ==
    ASSUME IInv, NEW x \in Items, ~Full, do_push(x), active' = active, maxlen' = maxlen
    PROVE  Fifo!Put(x) \/ UNCHANGED <<accepted, delivered, active, maxlen>>
<1>1. CASE active
  <2>1. Len(accepted) = Len(delivered) + Len(list) /\ Len(delivered) \in Nat /\ Len(list) \in Nat
    BY ConcatProperties, LenProperties DEF IInv, TypeOK, ListIntact
  <2>2. maxlen # 0 => Len(accepted) - Len(delivered) < maxlen
    BY <2>1 DEF IInv, TypeOK, ListIntact, Full
  <2> QED
    BY <1>1, <2>2 DEF Fifo!Put, Fifo!Inside, do_push
<1>2. CASE ~active
  BY <1>2 DEF do_push, qVars
<1> QED
  BY <1>1, <1>2

LEMMA PopIsTake ==
    ASSUME IInv, len # 0, do_pop, active' = active, maxlen' = maxlen
    PROVE  Fifo!Take \/ UNCHANGED <<accepted, delivered, active, maxlen>>
<1>1. CASE active
  <2>1. /\ list \in Seq(Items) /\ delivered \in Seq(Items)
        /\ accepted = delivered \o list /\ len = Len(list) /\ len \in Nat
    BY DEF IInv, TypeOK, ListIntact
  <2>2. list # <<>>
    BY <2>1, EmptySeq
  <2>3. Len(accepted) = Len(delivered) + Len(list) /\ Len(delivered) \in Nat
    BY <2>1, ConcatProperties, LenProperties
  <2>4. accepted[Len(delivered) + 1] = list[1]
    BY <2>1, <2>3, ConcatProperties
  <2>5. Head(list) = list[1]
    BY <2>1, <2>2
  <2>6. /\ delivered' = Append(delivered, Head(list)) /\ accepted' = accepted
    BY <1>1, <2>2 DEF do_pop
  <2>7. Len(delivered) < Len(accepted)
    BY <2>1, <2>3
  <2> QED
    BY <1>1, <2>4, <2>5, <2>6, <2>7 DEF Fifo!Take
<1>2. CASE ~active
  BY <1>2 DEF do_pop, qVars
<1> QED
  BY <1>1, <1>2

LEMMA NextIsFifoNext == IInv /\ [Next]_vars => [Fifo!FifoNext]_(Fifo!fifoVars)
<1> SUFFICES ASSUME IInv, [Next]_vars
             PROVE  \/ \E x \in Items : Fifo!Put(x)
                    \/ Fifo!Take
                    \/ Fifo!Close
                    \/ UNCHANGED <<accepted, delivered, active, maxlen>>
  BY DEF Fifo!FifoNext, Fifo!fifoVars
<1>0. CASE UNCHANGED vars
  BY <1>0 DEF vars
<1> SUFFICES ASSUME NEW t \in Threads, Step(t)
             PROVE  \/ \E x \in Items : Fifo!Put(x)
                    \/ Fifo!Take
                    \/ Fifo!Close
                    \/ UNCHANGED <<accepted, delivered, active, maxlen>>
  BY <1>0 DEF Next
<1>1. ASSUME NEW x \in Items, PushNow(t, x) \/ TryPush(t, x)
      PROVE  Fifo!Put(x) \/ UNCHANGED <<accepted, delivered, active, maxlen>>
  BY <1>1, PushIsPut DEF PushNow, TryPush, Insert
<1>2. CASE PushResume(t)
  <2>1. CASE Full
    BY <1>2, <2>1 DEF PushResume, qVars
  <2>2. CASE ~Full
    <3>1. arg[t] \in Items
      BY <1>2 DEF PushResume, IInv, Sleeping
    <3> QED
      BY <1>2, <2>2, <3>1, PushIsPut DEF PushResume, Insert
  <2> QED
    BY <2>1, <2>2
<1>3. CASE PopNow(t) \/ TryPop(t) \/ FlushPop(t)
  BY <1>3, PopIsTake DEF PopNow, TryPop, FlushPop, Remove
<1>4. CASE PopResume(t)
  <2>1. CASE len = 0
    BY <1>4, <2>1 DEF PopResume, qVars
  <2>2. CASE len # 0
    BY <1>4, <2>2, PopIsTake DEF PopResume, Remove
  <2> QED
    BY <2>1, <2>2
<1>5. ASSUME NEW x, PushWait(t, x)
      PROVE  UNCHANGED <<accepted, delivered, active, maxlen>>
  BY <1>5 DEF PushWait, qVars
<1>6. ASSUME NEW op, NEW w, PopWait(t, op, w)
      PROVE  UNCHANGED <<accepted, delivered, active, maxlen>>
  BY <1>6 DEF PopWait, qVars
<1>7. CASE TermClear(t)
  BY <1>7 DEF TermClear, Fifo!Close, qVars
<1>8. CASE DestroyTerm(t)
  BY <1>8 DEF DestroyTerm, Fifo!Close, qVars, IInv, TypeOK
<1>9. CASE \/ PopDeadline(t) \/ PopTimedOut(t) \/ SpuriousWakeup(t)
           \/ WaitBegin(t) \/ WaitDone(t) \/ Wake(t) \/ TermWake(t)
           \/ FlushBegin(t) \/ FlushDone(t) \/ SetFlushFn(t)
           \/ DestroyBegin(t) \/ DestroyFree(t)
  BY <1>9 DEF PopDeadline, PopTimedOut, SpuriousWakeup, WaitBegin, WaitDone, Wake, TermWake,
              FlushBegin, FlushDone, SetFlushFn, DestroyBegin, DestroyFree, qVars
<1> QED
  BY <1>1, <1>2, <1>3, <1>4, <1>5, <1>6, <1>7, <1>8, <1>9 DEF Step

\* Whatever its threads do, the queue behaves as the abstract FIFO: items
\* leave in the order they came, once each, at most maxlen are inside and
\* nothing moves after ks_q_term.
THEOREM ImplementsFifo == Spec => FifoSpec
<1>1. Init => Fifo!FifoInit
  BY MaxLensAreSizes DEF Init, Fifo!FifoInit
<1> QED
  BY <1>1, NextIsFifoNext, SpecIInv, PTL DEF Spec, FifoSpec, Fifo!FifoSpec
-----------------------------------------------------------------------------
(* Nothing is dropped with the queue.                                      *)

\* ks_q_destroy runs alone; when it has flushed and the queue is still active
\* the queue is empty.
DestroyAlone ==
    /\ \A t \in Threads : pc[t] \in Closing => \A u \in Threads \ {t} : pc[u] = "idle"
    /\ \A t \in Threads : pc[t] = "destroy_term" /\ active /\ flush_fn => len = 0

\* Beside ks_q_destroy nothing happens but its own steps.
LEMMA OnlyDestroyer ==
    ASSUME DestroyAlone, NEW c \in Threads, pc[c] \in Closing, NEW t \in Threads, Step(t)
    PROVE  \/ UNCHANGED <<pc, active, flush_fn, len>>
           \/ t = c /\ (TermWake(c) \/ FlushPop(c) \/ FlushDone(c) \/ DestroyTerm(c) \/ DestroyFree(c))
<1>1. \A op : ~Calls(t, op)
  BY DEF Calls
<1>2. pc[t] = "idle" \/ t = c
  BY DEF DestroyAlone
<1>3. CASE SpuriousWakeup(t)
  BY <1>3 DEF SpuriousWakeup, qVars
<1>4. CASE \/ PushResume(t) \/ PopResume(t) \/ PopDeadline(t) \/ PopTimedOut(t) \/ WaitDone(t)
  BY <1>2, <1>4 DEF PushResume, PopResume, PopDeadline, PopTimedOut, WaitDone, Closing
<1>5. CASE TermWake(t) \/ FlushPop(t) \/ FlushDone(t) \/ DestroyTerm(t) \/ DestroyFree(t)
  BY <1>2, <1>5 DEF TermWake, FlushPop, FlushDone, DestroyTerm, DestroyFree
<1> QED
  BY <1>1, <1>3, <1>4, <1>5
     DEF Step, PushNow, PushWait, TryPush, PopNow, TryPop, PopWait, WaitBegin, Wake, TermClear,
         FlushBegin, SetFlushFn, DestroyBegin

\* Nobody gets into a call while ks_q_destroy runs, and ks_q_flush leaves its
\* loop on an active queue only when the queue is empty.
LEMMA NextDestroyAlone == IInv /\ DestroyAlone /\ [Next]_vars => DestroyAlone'
<1> SUFFICES ASSUME IInv, DestroyAlone, [Next]_vars PROVE DestroyAlone'
  OBVIOUS
<1>0. CASE UNCHANGED vars
  BY <1>0 DEF vars, DestroyAlone
<1>1. pc \in [Threads -> Locations]
  BY DEF IInv, TypeOK
<1> SUFFICES ASSUME NEW t \in Threads, Step(t) PROVE DestroyAlone'
  BY <1>0 DEF Next
<1>2. CASE \E c \in Threads : pc[c] \in Closing
  <2>1. PICK c \in Threads : pc[c] \in Closing
    BY <1>2
  <2>2. CASE UNCHANGED <<pc, active, flush_fn, len>>
    BY <2>2 DEF DestroyAlone
  <2>3. CASE TermWake(c)
    BY <1>1, <2>1, <2>3 DEF TermWake, GoTo, DestroyAlone, Closing
  <2>4. CASE FlushPop(c)
    BY <1>1, <2>1, <2>4 DEF FlushPop, DestroyAlone, Closing
  <2>5. CASE FlushDone(c)
    BY <1>1, <2>1, <2>5 DEF FlushDone, GoTo, DestroyAlone, Closing, qVars
  <2>6. CASE DestroyTerm(c)
    BY <1>1, <2>1, <2>6 DEF DestroyTerm, GoTo, DestroyAlone, Closing
  <2>7. CASE DestroyFree(c)
    BY <1>1, <2>1, <2>7 DEF DestroyFree, GoTo, DestroyAlone, Closing
  <2> QED
    BY <2>1, <2>2, <2>3, <2>4, <2>5, <2>6, <2>7, OnlyDestroyer
<1>3. CASE \A c \in Threads : pc[c] \notin Closing
  <2>1. CASE DestroyBegin(t)
    BY <1>1, <1>3, <2>1 DEF DestroyBegin, GoTo, DestroyAlone, Closing
  <2>2. CASE ~DestroyBegin(t)
    <3>1. \A u \in Threads : pc'[u] \notin Closing
      BY <1>1, <1>3, <2>2
         DEF Step, PushNow, PushWait, TryPush, PushResume, PopNow, TryPop, PopWait, PopResume,
             PopDeadline, PopTimedOut, SpuriousWakeup, WaitBegin, WaitDone, Wake, TermClear,
             TermWake, FlushBegin, FlushPop, FlushDone, SetFlushFn, DestroyTerm, DestroyFree,
             GoTo, Closing
    <3> QED
      BY <3>1 DEF DestroyAlone, Closing
  <2> QED
    BY <2>1, <2>2
<1> QED
  BY <1>2, <1>3

\* ks_q_destroy on an active queue with a flush function terminates the queue
\* only when everything it ever accepted was delivered.
THEOREM SpecDestroyFlushes == Spec => DestroyFlushes
<1>1. Init => DestroyAlone
  BY DEF Init, DestroyAlone, Closing
<1>2. IInv /\ DestroyAlone /\ [Next]_vars =>
        [\A t \in Threads : pc[t] = "destroy_term" /\ active /\ ~active' /\ flush_fn
             => delivered = accepted]_vars
  <2> SUFFICES ASSUME IInv, DestroyAlone, NEW t \in Threads,
                      pc[t] = "destroy_term", active, flush_fn
               PROVE  delivered = accepted
    OBVIOUS
  <2>1. len = 0 /\ len = Len(list) /\ list \in Seq(Items)
    BY DEF DestroyAlone, IInv, ListIntact, TypeOK
  <2>2. list = <<>>
    BY <2>1
  <2> QED
    BY <2>2 DEF IInv, ListIntact, TypeOK
<1> QED
  BY <1>1, <1>2, NextDestroyAlone, SpecIInv, PTL DEF Spec, DestroyFlushes
=============================================================================
