--------------------------- MODULE KsLibRwlProofs ---------------------------
(***************************************************************************)
(* Proofs about KsLib and KsRwl: the start and the end of the library, its *)
(* log and its read-write lock, for any set of threads, any number of      *)
(* calls and any depth of recursion.                                       *)
(***************************************************************************)
EXTENDS KsLib, KsRwl, FiniteSetTheorems, SequenceTheorems, TLAPS

-----------------------------------------------------------------------------
(* The inductive invariant                                                 *)

LibShape ==
    lib \in [count : Nat, nest : [LibThreads -> 0..MaxInits], init_lock : LibThreads \cup {Nobody},
             pool_lock : LibThreads \cup {Nobody}, log_lock : LibThreads \cup {Nobody},
             pool : {"null", "half", "open"},
             log : BOOLEAN, ssl : BOOLEAN, blocking : BOOLEAN,
             at : [LibThreads -> LibPlaces], ret : [LibThreads -> LibPlaces],
             got : [LibThreads -> {"null", "half", "open"}],
             written : [LibThreads -> 0..LineLen], woken : [LibThreads -> BOOLEAN],
             out : Seq(LibThreads), inits : 0..MaxInits, lines : 0..MaxLines]

InPool(t) == lib.at[t] \in {"pool_test", "pool_lock", "pool_open"}

\* The thread is bringing the library up, or taking it down.
Starting(t) == lib.at[t] \in {"init_log", "init_ssl"} \/ (InPool(t) /\ lib.ret[t] = "init_ssl")
Ending(t) == lib.at[t] \in {"down_ssl", "down_pool", "down_log"}

\* ks_global_pool was called by ks_init, between ks_init and ks_shutdown or,
\* with EarlyPool, before.
PoolCallers ==
    \A t \in LibThreads : InPool(t) =>
        lib.ret[t] \in {"init_ssl", "in"} \cup (IF EarlyPool THEN {"out"} ELSE {})

\* The spinlock is held from the first step of the first ks_init to its last,
\* and likewise by the last ks_shutdown.
InitLocked == \A t \in LibThreads : lib.init_lock = t <=> Starting(t) \/ Ending(t)

\* The calls of ks_init that have not been shut down: the n-th of thread t is
\* <<t, n>>.
Calls == {p \in LibThreads \X (1..MaxInits) : p[2] <= lib.nest[p[1]]}

\* g_init_count is their number, a thread with such a call is inside, and
\* whoever brings the library up or takes it down is alone.
Counted ==
    /\ lib.count = Cardinality(Calls) /\ lib.count <= lib.inits
    /\ \A t \in LibThreads : /\ lib.nest[t] <= lib.inits
                             /\ lib.nest[t] > 0 <=> Inside(t) \/ Starting(t)
                             /\ Starting(t) => Calls = {<<t, 1>>}
                             /\ Ending(t) => Calls = {}

\* The log's mutex and the OpenSSL locks exist in the steps between.
LayersUp ==
    /\ lib.init_lock = Nobody => (lib.log <=> lib.count > 0) /\ (lib.ssl <=> lib.count > 0)
    /\ \A t \in LibThreads :
         /\ Starting(t) => (lib.log <=> lib.at[t] # "init_log") /\ ~lib.ssl
         /\ Ending(t) => lib.log /\ (lib.ssl <=> lib.at[t] = "down_ssl")

\* Without EarlyPool only the first ks_init opens the pool.
PoolUp ==
    /\ lib.init_lock = Nobody => lib.pool = (IF lib.count > 0 THEN "open" ELSE "null")
    /\ \A t \in LibThreads :
         /\ Starting(t) => lib.pool = CASE lib.at[t] = "pool_open" -> "half"
                                        [] lib.at[t] = "init_ssl" -> "open"
                                        [] OTHER -> "null"
         /\ Ending(t) => lib.pool = (IF lib.at[t] = "down_log" THEN "null" ELSE "open")
         /\ lib.at[t] \in {"pool_lock", "pool_open"} => Starting(t)
         /\ lib.got[t] # "half"

\* One thread at a time writes a line, and what it has written of it is the
\* end of stdout.
LineBegun ==
    /\ \A t \in LibThreads : lib.log_lock = t <=> lib.at[t] = "log"
    /\ lib.blocking <=> lib.log_lock = Nobody
    /\ \A t \in LibThreads : lib.at[t] = "log" =>
         /\ lib.written[t] <= Len(lib.out)
         /\ \A i \in 0..(lib.written[t] - 1) : lib.out[Len(lib.out) - i] = t


\* The parts that do not depend on EarlyPool.
LibControl ==
    LibShape /\ PoolCallers /\ InitLocked /\ Counted /\ LayersUp /\ LineBegun

LibIInv == LibControl /\ (~EarlyPool => PoolUp)

\* Only the thread that moves changes its part.
LEMMA OthersStay ==
    ASSUME LibShape, NEW t \in LibThreads,
           \A u \in LibThreads \ {t} : lib'.at[u] = lib.at[u] /\ lib'.ret[u] = lib.ret[u]
    PROVE  \A u \in LibThreads \ {t} :
             (Starting(u)' <=> Starting(u)) /\ (Ending(u)' <=> Ending(u)) /\ (Inside(u)' <=> Inside(u))
BY DEF Starting, Ending, Inside, InPool

\* The calls are finite, and a call that is alone is the only one.
LEMMA CallsCount ==
    /\ IsFiniteSet(Calls) /\ Cardinality(Calls) \in Nat
    /\ Cardinality(Calls) = 0 <=> Calls = {}
    /\ \A p \in Calls : Cardinality(Calls) = 1 => Calls = {p}
<1>1. IsFiniteSet(Calls)
  <2>1. IsFiniteSet(1..MaxInits)
    BY LibConstants, FS_Interval
  <2>2. IsFiniteSet(LibThreads \X (1..MaxInits))
    BY <2>1, LibConstants, FS_Product
  <2> QED
    BY <2>2, FS_Subset DEF Calls
<1>2. Cardinality(Calls) \in Nat /\ (Cardinality(Calls) = 0 <=> Calls = {})
  BY <1>1, FS_CardinalityType, FS_EmptySet
<1>3. ASSUME NEW p \in Calls, Cardinality(Calls) = 1 PROVE Calls = {p}
  <2>1. IsFiniteSet(Calls \ {p}) /\ Cardinality(Calls \ {p}) = 0
    BY <1>1, <1>3, FS_RemoveElement
  <2>2. Calls \ {p} = {}
    BY <2>1, FS_EmptySet
  <2> QED
    BY <2>2
<1> QED
  BY <1>1, <1>2, <1>3

\* One call more or less.
LEMMA CallsChange ==
    ASSUME NEW p PROVE
    /\ p \notin Calls => Cardinality(Calls \cup {p}) = Cardinality(Calls) + 1
    /\ p \in Calls => Cardinality(Calls \ {p}) = Cardinality(Calls) - 1
BY CallsCount, FS_AddElement, FS_RemoveElement

\* A thread that is inside or bringing the library up has made its first call.
LEMMA FirstCall ==
    ASSUME LibShape, Counted, NEW t \in LibThreads, lib.nest[t] > 0
    PROVE  <<t, 1>> \in Calls /\ <<t, lib.nest[t]>> \in Calls /\ lib.count > 0
<1>1. lib.nest[t] \in 1..MaxInits /\ 1 \in 1..MaxInits
  BY LibConstants DEF LibShape
<1>2. <<t, 1>> \in LibThreads \X (1..MaxInits) /\ <<t, lib.nest[t]>> \in LibThreads \X (1..MaxInits)
  BY <1>1
<1>3. <<t, 1>> \in Calls /\ <<t, lib.nest[t]>> \in Calls
  BY <1>1, <1>2 DEF Calls
<1> QED
  BY <1>3, CallsCount DEF Counted

\* ks_init adds a call, ks_shutdown takes one away.
LEMMA CallsMove ==
    ASSUME LibShape, NEW t \in LibThreads PROVE
    /\ lib.nest[t] < MaxInits /\ lib'.nest = [lib.nest EXCEPT ![t] = lib.nest[t] + 1]
         => <<t, lib.nest[t] + 1>> \notin Calls /\ Calls' = Calls \cup {<<t, lib.nest[t] + 1>>}
    /\ lib.nest[t] > 0 /\ lib'.nest = [lib.nest EXCEPT ![t] = lib.nest[t] - 1]
         => <<t, lib.nest[t]>> \in Calls /\ Calls' = Calls \ {<<t, lib.nest[t]>>}
<1> DEFINE P == LibThreads \X (1..MaxInits)
<1>0. lib.nest \in [LibThreads -> 0..MaxInits] /\ lib.nest[t] \in Nat
  BY LibConstants DEF LibShape
<1>1. ASSUME lib.nest[t] < MaxInits, lib'.nest = [lib.nest EXCEPT ![t] = lib.nest[t] + 1]
      PROVE  <<t, lib.nest[t] + 1>> \notin Calls /\ Calls' = Calls \cup {<<t, lib.nest[t] + 1>>}
  <2>0. lib.nest[t] + 1 \in 1..MaxInits /\ ~(lib.nest[t] + 1 <= lib.nest[t])
    BY <1>0, <1>1, LibConstants
  <2>1. <<t, lib.nest[t] + 1>> \in P /\ <<t, lib.nest[t] + 1>> \notin Calls
    BY <2>0 DEF Calls
  <2>2. ASSUME NEW p \in P
        PROVE  p[2] <= lib'.nest[p[1]] <=> p[2] <= lib.nest[p[1]] \/ p = <<t, lib.nest[t] + 1>>
    <3>1. PICK u \in LibThreads, n \in 1..MaxInits : p = <<u, n>>
      BY <2>2
    <3>2. CASE u = t
      BY <1>0, <1>1, <3>1, <3>2
    <3>3. CASE u # t
      BY <1>0, <1>1, <3>1, <3>3
    <3> QED
      BY <3>2, <3>3
  <2> QED
    BY <2>1, <2>2 DEF Calls
<1>2. ASSUME lib.nest[t] > 0, lib'.nest = [lib.nest EXCEPT ![t] = lib.nest[t] - 1]
      PROVE  <<t, lib.nest[t]>> \in Calls /\ Calls' = Calls \ {<<t, lib.nest[t]>>}
  <2>1. <<t, lib.nest[t]>> \in P /\ <<t, lib.nest[t]>> \in Calls
    BY <1>0, <1>2 DEF Calls
  <2>2. ASSUME NEW p \in P
        PROVE  p[2] <= lib'.nest[p[1]] <=> p[2] <= lib.nest[p[1]] /\ p # <<t, lib.nest[t]>>
    <3>1. PICK u \in LibThreads, n \in 1..MaxInits : p = <<u, n>>
      BY <2>2
    <3>2. CASE u = t
      BY <1>0, <1>2, <3>1, <3>2
    <3>3. CASE u # t
      BY <1>0, <1>2, <3>1, <3>3
    <3> QED
      BY <3>2, <3>3
  <2> QED
    BY <2>1, <2>2 DEF Calls
<1> QED
  BY <1>1, <1>2

\* A step in which nobody comes or goes.
LEMMA CountedKept ==
    ASSUME Counted, lib'.count = lib.count, lib'.nest = lib.nest, lib'.inits = lib.inits,
           \A u \in LibThreads : /\ Starting(u)' => Starting(u)
                                 /\ Ending(u)' => Ending(u)
                                 /\ Inside(u)' \/ Starting(u)' <=> Inside(u) \/ Starting(u)
    PROVE  Counted'
<1>1. Calls' = Calls
  BY DEF Calls
<1> QED
  BY <1>1 DEF Counted

\* While somebody is inside nobody holds the spinlock for long, and the log's
\* mutex and the OpenSSL locks are there.
LEMMA InsidersReady ==
    ASSUME LibControl, NEW t \in LibThreads, Inside(t)
    PROVE  /\ lib.init_lock = Nobody /\ lib.count > 0 /\ lib.log /\ lib.ssl
           /\ ~Starting(t) /\ ~Ending(t)
<1> USE LibConstants DEF LibControl
<1>1. <<t, 1>> \in Calls /\ lib.nest[t] > 0 /\ lib.count > 0 /\ ~Starting(t) /\ ~Ending(t)
  <2>1. ~Starting(t) /\ ~Ending(t)
    BY DEF LibShape, Starting, Ending, Inside, InPool
  <2> QED
    BY <2>1, FirstCall DEF Counted
<1>2. ASSUME NEW u \in LibThreads PROVE ~Starting(u) /\ ~Ending(u)
  BY <1>1 DEF Counted
<1>3. lib.init_lock = Nobody
  BY <1>2 DEF LibShape, InitLocked
<1> QED
  BY <1>1, <1>3 DEF LayersUp

\* Whoever brings the library up or takes it down is alone in it.
LEMMA OneAtATime ==
    ASSUME LibControl, NEW t \in LibThreads, Starting(t) \/ Ending(t)
    PROVE  /\ lib.init_lock = t /\ \A u \in LibThreads \ {t} : ~Starting(u) /\ ~Ending(u)
           /\ Starting(t) => lib.count > 0
           /\ Ending(t) => lib.count = 0
<1>1. lib.init_lock = t /\ \A u \in LibThreads \ {t} : ~Starting(u) /\ ~Ending(u)
  BY DEF LibControl, InitLocked
<1>2. Starting(t) => lib.count > 0
  BY FirstCall DEF LibControl, Counted
<1> QED
  BY <1>1, <1>2, CallsCount DEF LibControl, Counted


\* ks_init: the first caller takes the spinlock, a later one only counts.
LEMMA InitLibraryKeeps ==
    ASSUME LibIInv, NEW t \in LibThreads, InitLibrary(t) PROVE LibIInv'
<1> USE LibConstants DEF LibIInv, LibControl
<1>1. CASE lib.count = 0
  <2>1. /\ lib.at[t] \in {"out", "in"} /\ lib.init_lock = Nobody /\ lib'.init_lock = t
        /\ lib'.count = lib.count + 1 /\ lib'.nest = [lib.nest EXCEPT ![t] = lib.nest[t] + 1]
        /\ lib'.at = [lib.at EXCEPT ![t] = "init_log"] /\ lib'.got = lib.got
        /\ lib'.inits = lib.inits + 1
        /\ lib'.pool_lock = lib.pool_lock /\ lib'.log_lock = lib.log_lock /\ lib'.pool = lib.pool
        /\ lib'.log = lib.log /\ lib'.ssl = lib.ssl /\ lib'.blocking = lib.blocking
        /\ lib'.ret = lib.ret /\ lib'.written = lib.written /\ lib'.woken = lib.woken
        /\ lib'.out = lib.out /\ lib'.lines = lib.lines
    BY <1>1, LibConstants DEF InitLibrary, Goes, LibShape
  <2>2. /\ lib.count \in Nat /\ lib.count + 1 \in Nat /\ lib.inits \in Nat /\ lib'.inits \in 0..MaxInits
        /\ lib.nest[t] \in Nat /\ lib.nest[t] + 1 \in 0..MaxInits /\ lib.nest[t] < MaxInits
    <3>1. lib.nest[t] \in 0..MaxInits /\ lib.inits \in 0..MaxInits /\ lib.count \in Nat
      BY DEF LibShape
    <3>2. lib.inits < MaxInits /\ lib.nest[t] <= lib.inits
      BY DEF InitLibrary, Counted
    <3> QED
      BY <2>1, <3>1, <3>2, LibConstants
  <2>3. lib' = [lib EXCEPT !.count = lib.count + 1,
                           !.nest = [lib.nest EXCEPT ![t] = lib.nest[t] + 1],
                           !.init_lock = t,
                           !.at = [lib.at EXCEPT ![t] = "init_log"],
                           !.inits = lib.inits + 1]
    BY <1>1, <2>1, ZenonT(60) DEF InitLibrary, Goes, LibShape
  <2>4. LibShape'
    <3>1. /\ lib'.nest \in [LibThreads -> 0..MaxInits] /\ lib'.at \in [LibThreads -> LibPlaces]
          /\ lib'.got \in [LibThreads -> {"null", "half", "open"}]
      <4>1. lib'.nest \in [LibThreads -> 0..MaxInits]
        BY <2>1, <2>2 DEF LibShape
      <4>2. lib'.at \in [LibThreads -> LibPlaces]
        BY <2>1 DEF LibShape, LibPlaces
      <4>3. lib'.got \in [LibThreads -> {"null", "half", "open"}]
        BY <2>1 DEF LibShape
      <4> QED
        BY <4>1, <4>2, <4>3
    <3>2. PICK ne \in [LibThreads -> 0..MaxInits], at2 \in [LibThreads -> LibPlaces],
               go \in [LibThreads -> {"null", "half", "open"}], c \in Nat, i \in 0..MaxInits :
            ne = lib'.nest /\ at2 = lib'.at /\ go = lib'.got /\ c = lib'.count /\ i = lib'.inits
      BY <2>1, <2>2, <3>1
    <3>3. lib' = [lib EXCEPT !.count = c, !.nest = ne, !.init_lock = t, !.at = at2, !.got = go,
                             !.inits = i]
      BY <2>3, <2>1, <3>2, ZenonT(60) DEF LibShape
    <3> QED
      BY <3>2, <3>3, ZenonT(60) DEF LibShape
  <2>5. \A u \in LibThreads \ {t} : lib'.at[u] = lib.at[u] /\ lib'.ret[u] = lib.ret[u]
    BY <2>1 DEF LibShape
  <2>6. \A u \in LibThreads \ {t} :
          (Starting(u)' <=> Starting(u)) /\ (Ending(u)' <=> Ending(u)) /\ (Inside(u)' <=> Inside(u))
    BY <2>5, OthersStay
  <2>7. /\ ~Starting(t) /\ ~Ending(t) /\ ~Inside(t)
        /\ Starting(t)' /\ ~Ending(t)' /\ ~Inside(t)'
    BY <1>1, <2>1, <2>2, InsidersReady, SMTT(60) DEF LibShape, Starting, Ending, Inside, InPool
  <2>8. PoolCallers'
    BY <2>1, <2>5 DEF LibShape, PoolCallers, InPool
  <2>9. InitLocked'
    BY <2>1, <2>6, <2>7, ZenonT(60) DEF LibShape, InitLocked
  <2>10. Counted'
    <3>1. <<t, lib.nest[t] + 1>> \notin Calls /\ Calls' = Calls \cup {<<t, lib.nest[t] + 1>>}
      BY <2>1, <2>2, CallsMove
    <3>2. \A u \in LibThreads : ~Starting(u) /\ ~Ending(u)
      BY <2>1 DEF InitLocked
    <3>3. Cardinality(Calls') = Cardinality(Calls) + 1
      BY <3>1, CallsChange
    <3>4. lib'.count = Cardinality(Calls') /\ lib'.count <= lib'.inits
      BY <2>1, <2>2, <3>3 DEF Counted
    <3>5. /\ lib'.nest[t] = lib.nest[t] + 1
          /\ \A u \in LibThreads \ {t} : lib'.nest[u] = lib.nest[u] /\ lib.nest[u] \in Nat
      BY <2>1, SMTT(60) DEF LibShape
    <3>6. \A u \in LibThreads : lib'.nest[u] <= lib'.inits
      <4>1. \A u \in LibThreads : lib.nest[u] <= lib.inits
        BY DEF Counted
      <4> QED
        BY <2>1, <2>2, <3>5, <4>1
    <3>7. \A u \in LibThreads : lib'.nest[u] > 0 <=> Inside(u)' \/ Starting(u)'
      <4>1. \A u \in LibThreads : lib.nest[u] > 0 <=> Inside(u) \/ Starting(u)
        BY DEF Counted
      <4> QED
        BY <1>1, <2>2, <2>6, <2>7, <3>5, <4>1
    <3>8. lib.nest[t] = 0 /\ Calls' = {<<t, 1>>}
      BY <1>1, <2>2, <2>7, <3>1, CallsCount DEF Counted
    <3>9. \A u \in LibThreads : (Starting(u)' => Calls' = {<<u, 1>>}) /\ ~Ending(u)'
      BY <2>6, <2>7, <3>2, <3>8
    <3> QED
      BY <3>4, <3>6, <3>7, <3>9 DEF Counted
  <2>11. /\ lib'.at[t] = "init_log" /\ lib'.ret[t] = lib.ret[t] /\ lib'.got[t] = lib.got[t]
         /\ \A u \in LibThreads \ {t} : lib'.got[u] = lib.got[u]
    BY <2>1 DEF LibShape
  <2>12. LayersUp'
    BY <1>1, <2>1, <2>5, <2>11, <2>6, <2>7, <2>9, <2>2 DEF LayersUp, InitLocked
  <2>13. ~EarlyPool => PoolUp'
    BY <1>1, <2>1, <2>5, <2>11, <2>6, <2>7, <2>9, <2>2, SMTT(40) DEF LibShape, PoolUp, PoolCallers, InPool,
       InitLocked
  <2>14. LineBegun'
    BY <2>1, <2>5, <2>11, SMTT(60) DEF LibShape, LineBegun
  <2> QED
    BY <2>4, <2>8, <2>9, <2>10, <2>12, <2>13, <2>14
<1>2. CASE lib.count # 0
  <2>1. /\ lib.at[t] \in {"out", "in"} /\ lib.init_lock = Nobody /\ lib'.init_lock = lib.init_lock
        /\ lib'.count = lib.count + 1 /\ lib'.nest = [lib.nest EXCEPT ![t] = lib.nest[t] + 1]
        /\ lib'.at = [lib.at EXCEPT ![t] = "in"] /\ lib'.got = lib.got
        /\ lib'.inits = lib.inits + 1
        /\ lib'.pool_lock = lib.pool_lock /\ lib'.log_lock = lib.log_lock /\ lib'.pool = lib.pool
        /\ lib'.log = lib.log /\ lib'.ssl = lib.ssl /\ lib'.blocking = lib.blocking
        /\ lib'.ret = lib.ret /\ lib'.written = lib.written /\ lib'.woken = lib.woken
        /\ lib'.out = lib.out /\ lib'.lines = lib.lines
    BY <1>2, LibConstants DEF InitLibrary, Goes, LibShape
  <2>2. /\ lib.count \in Nat /\ lib.count + 1 \in Nat /\ lib.inits \in Nat /\ lib'.inits \in 0..MaxInits
        /\ lib.nest[t] \in Nat /\ lib.nest[t] + 1 \in 0..MaxInits /\ lib.nest[t] < MaxInits
    <3>1. lib.nest[t] \in 0..MaxInits /\ lib.inits \in 0..MaxInits /\ lib.count \in Nat
      BY DEF LibShape
    <3>2. lib.inits < MaxInits /\ lib.nest[t] <= lib.inits
      BY DEF InitLibrary, Counted
    <3> QED
      BY <2>1, <3>1, <3>2, LibConstants
  <2>3. lib' = [lib EXCEPT !.count = lib.count + 1,
                           !.nest = [lib.nest EXCEPT ![t] = lib.nest[t] + 1],
                           !.at = [lib.at EXCEPT ![t] = "in"],
                           !.inits = lib.inits + 1]
    BY <1>2, <2>1, ZenonT(60) DEF InitLibrary, Goes, LibShape
  <2>4. LibShape'
    BY <2>2, <2>1, <2>3, ZenonT(60) DEF LibShape, LibPlaces
  <2>5. \A u \in LibThreads \ {t} : lib'.at[u] = lib.at[u] /\ lib'.ret[u] = lib.ret[u]
    BY <2>1 DEF LibShape
  <2>6. \A u \in LibThreads \ {t} :
          (Starting(u)' <=> Starting(u)) /\ (Ending(u)' <=> Ending(u)) /\ (Inside(u)' <=> Inside(u))
    BY <2>5, OthersStay
  <2>7. /\ ~Starting(t) /\ ~Ending(t) 
        /\ ~Starting(t)' /\ ~Ending(t)' /\ Inside(t)'
    BY <1>2, <2>1, <2>2, InsidersReady, ZenonT(60) DEF LibShape, Starting, Ending, Inside, InPool
  <2>8. PoolCallers'
    BY <2>1, <2>5 DEF LibShape, PoolCallers, InPool
  <2>9. InitLocked'
    BY <2>1, <2>6, <2>7 DEF LibShape, InitLocked
  <2>10. Counted'
    <3>1. <<t, lib.nest[t] + 1>> \notin Calls /\ Calls' = Calls \cup {<<t, lib.nest[t] + 1>>}
      BY <2>1, <2>2, CallsMove
    <3>2. \A u \in LibThreads : ~Starting(u) /\ ~Ending(u)
      BY <2>1 DEF InitLocked
    <3>3. Cardinality(Calls') = Cardinality(Calls) + 1
      BY <3>1, CallsChange
    <3>4. lib'.count = Cardinality(Calls') /\ lib'.count <= lib'.inits
      BY <2>1, <2>2, <3>3 DEF Counted
    <3>5. /\ lib'.nest[t] = lib.nest[t] + 1
          /\ \A u \in LibThreads \ {t} : lib'.nest[u] = lib.nest[u] /\ lib.nest[u] \in Nat
          /\ \A u \in LibThreads : /\ lib.nest[u] <= lib.inits
                                   /\ lib.nest[u] > 0 <=> Inside(u) \/ Starting(u)
      BY <2>1, SMTT(40) DEF LibShape, Counted
    <3>6. \A u \in LibThreads : lib'.nest[u] <= lib'.inits
      BY <2>1, <2>2, <3>5
    <3>7. \A u \in LibThreads : lib'.nest[u] > 0 <=> Inside(u)' \/ Starting(u)'
      BY <1>2, <2>2, <2>6, <2>7, <3>5
    <3>8. \A u \in LibThreads : ~Starting(u)' /\ ~Ending(u)'
      BY <2>6, <2>7, <3>2
    <3> QED
      BY <3>4, <3>6, <3>7, <3>8 DEF Counted
  <2>11. /\ lib'.at[t] = "in" /\ lib'.ret[t] = lib.ret[t] /\ lib'.got[t] = lib.got[t]
         /\ \A u \in LibThreads \ {t} : lib'.got[u] = lib.got[u]
    BY <2>1 DEF LibShape
  <2>12. LayersUp'
    BY <1>2, <2>1, <2>5, <2>11, <2>6, <2>7, <2>9, <2>2 DEF LayersUp, InitLocked
  <2>13. ~EarlyPool => PoolUp'
    BY <1>2, <2>1, <2>5, <2>11, <2>6, <2>7, <2>9, <2>2, SMTT(40) DEF LibShape, PoolUp, PoolCallers, InPool,
       InitLocked
  <2>14. LineBegun'
    BY <2>1, <2>5, <2>11, SMTT(60) DEF LibShape, LineBegun
  <2> QED
    BY <2>4, <2>8, <2>9, <2>10, <2>12, <2>13, <2>14
<1> QED
  BY <1>1, <1>2

\* ks_shutdown: the last caller takes the spinlock, another only counts, and
\* leaves when it has shut down as often as it has called ks_init.
LEMMA ShutdownLibraryKeeps ==
    ASSUME LibIInv, NEW t \in LibThreads, ShutdownLibrary(t) PROVE LibIInv'
<1> USE LibConstants DEF LibIInv, LibControl
<1>0. ASSUME lib.count = 1 PROVE lib.nest[t] = 1
  <2>1. Inside(t) /\ lib.nest[t] > 0
    BY DEF ShutdownLibrary, Inside, Counted
  <2>2. <<t, 1>> \in Calls /\ <<t, lib.nest[t]>> \in Calls
    BY <2>1, FirstCall
  <2>3. Calls = {<<t, 1>>}
    BY <1>0, <2>2, CallsCount DEF Counted
  <2> QED
    BY <2>2, <2>3
<1>1. CASE lib.count = 1 /\ lib.nest[t] = 1
  <2>1. /\ lib.at[t] = "in" /\ lib.init_lock = Nobody /\ lib'.init_lock = t
        /\ lib'.count = lib.count - 1 /\ lib'.nest = [lib.nest EXCEPT ![t] = lib.nest[t] - 1]
        /\ lib'.at = [lib.at EXCEPT ![t] = "down_ssl"] /\ lib'.got = [lib.got EXCEPT ![t] = "null"]
        /\ lib'.inits = lib.inits
        /\ lib'.pool_lock = lib.pool_lock /\ lib'.log_lock = lib.log_lock /\ lib'.pool = lib.pool
        /\ lib'.log = lib.log /\ lib'.ssl = lib.ssl /\ lib'.blocking = lib.blocking
        /\ lib'.ret = lib.ret /\ lib'.written = lib.written /\ lib'.woken = lib.woken
        /\ lib'.out = lib.out /\ lib'.lines = lib.lines
    BY <1>1, LibConstants DEF ShutdownLibrary, Goes, LibShape
  <2>2. /\ lib.count \in Nat /\ lib.count - 1 \in Nat /\ lib.inits \in Nat /\ lib'.inits \in 0..MaxInits
        /\ lib.nest[t] \in Nat /\ lib.nest[t] - 1 \in 0..MaxInits /\ lib.nest[t] > 0
    <3>1. Inside(t) /\ lib.nest[t] > 0
      BY <2>1 DEF Inside, Counted
    <3>2. lib.count > 0
      BY <3>1, FirstCall
    <3>3. lib.nest[t] \in 0..MaxInits /\ lib.inits \in 0..MaxInits /\ lib.count \in Nat
      BY DEF LibShape
    <3> QED
      BY <2>1, <3>1, <3>2, <3>3, LibConstants
  <2>3. lib' = [lib EXCEPT !.count = lib.count - 1,
                           !.nest = [lib.nest EXCEPT ![t] = lib.nest[t] - 1],
                           !.init_lock = t,
                           !.at = [lib.at EXCEPT ![t] = "down_ssl"],
                           !.got = [lib.got EXCEPT ![t] = "null"]]
    BY <1>1, <2>1, ZenonT(60) DEF ShutdownLibrary, Goes, LibShape
  <2>4. LibShape'
    <3>1. /\ lib'.nest \in [LibThreads -> 0..MaxInits] /\ lib'.at \in [LibThreads -> LibPlaces]
          /\ lib'.got \in [LibThreads -> {"null", "half", "open"}]
      <4>1. lib'.nest \in [LibThreads -> 0..MaxInits]
        BY <2>1, <2>2 DEF LibShape
      <4>2. lib'.at \in [LibThreads -> LibPlaces]
        BY <2>1 DEF LibShape, LibPlaces
      <4>3. lib'.got \in [LibThreads -> {"null", "half", "open"}]
        BY <2>1 DEF LibShape
      <4> QED
        BY <4>1, <4>2, <4>3
    <3>2. PICK ne \in [LibThreads -> 0..MaxInits], at2 \in [LibThreads -> LibPlaces],
               go \in [LibThreads -> {"null", "half", "open"}], c \in Nat, i \in 0..MaxInits :
            ne = lib'.nest /\ at2 = lib'.at /\ go = lib'.got /\ c = lib'.count /\ i = lib'.inits
      BY <2>1, <2>2, <3>1
    <3>3. lib' = [lib EXCEPT !.count = c, !.nest = ne, !.init_lock = t, !.at = at2, !.got = go,
                             !.inits = i]
      BY <2>3, <2>1, <3>2, ZenonT(60) DEF LibShape
    <3> QED
      BY <3>2, <3>3 DEF LibShape
  <2>5. \A u \in LibThreads \ {t} : lib'.at[u] = lib.at[u] /\ lib'.ret[u] = lib.ret[u]
    BY <2>1 DEF LibShape
  <2>6. \A u \in LibThreads \ {t} :
          (Starting(u)' <=> Starting(u)) /\ (Ending(u)' <=> Ending(u)) /\ (Inside(u)' <=> Inside(u))
    BY <2>5, OthersStay
  <2>7. /\ ~Starting(t) /\ ~Ending(t) /\ Inside(t)
        /\ ~Starting(t)' /\ Ending(t)' /\ ~Inside(t)'
    BY <1>1, <2>1, InsidersReady DEF LibShape, Starting, Ending, Inside, InPool
  <2>8. PoolCallers'
    BY <2>1, <2>5 DEF LibShape, PoolCallers, InPool
  <2>9. InitLocked'
    BY <2>1, <2>6, <2>7, SMTT(40) DEF LibShape, InitLocked
  <2>10. Counted'
    <3>1. <<t, lib.nest[t]>> \in Calls /\ Calls' = Calls \ {<<t, lib.nest[t]>>}
      BY <2>1, <2>2, CallsMove
    <3>2. \A u \in LibThreads : ~Starting(u) /\ ~Ending(u)
      BY <2>1 DEF InitLocked
    <3>3. Cardinality(Calls') = Cardinality(Calls) - 1
      BY <3>1, CallsChange
    <3>4. lib'.count = Cardinality(Calls') /\ lib'.count <= lib'.inits
      BY <2>1, <2>2, <3>3 DEF Counted
    <3>5. /\ lib'.nest[t] = lib.nest[t] - 1
          /\ \A u \in LibThreads \ {t} : lib'.nest[u] = lib.nest[u] /\ lib.nest[u] \in Nat
          /\ \A u \in LibThreads : /\ lib.nest[u] <= lib.inits
                                   /\ lib.nest[u] > 0 <=> Inside(u) \/ Starting(u)
      BY <2>1, SMTT(40) DEF LibShape, Counted
    <3>6. \A u \in LibThreads : lib'.nest[u] <= lib'.inits
      BY <2>1, <2>2, <3>5
    <3>7. \A u \in LibThreads : lib'.nest[u] > 0 <=> Inside(u)' \/ Starting(u)'
      BY <1>1, <2>2, <2>6, <2>7, <3>5
    <3>8. Calls' = {}
      BY <1>1, <2>2, <3>3, <3>1, CallsCount, FS_RemoveElement, FS_EmptySet DEF Counted
    <3> QED
      BY <2>6, <2>7, <3>2, <3>4, <3>6, <3>7, <3>8 DEF Counted
  <2>11. /\ lib'.at[t] = "down_ssl" /\ lib'.ret[t] = lib.ret[t] /\ lib'.got[t] = "null"
         /\ \A u \in LibThreads \ {t} : lib'.got[u] = lib.got[u]
    BY <2>1 DEF LibShape
  <2>12. LayersUp'
    BY <1>1, <2>1, <2>5, <2>11, <2>6, <2>7, <2>9, <2>2 DEF LayersUp, InitLocked
  <2>13. ~EarlyPool => PoolUp'
    BY <1>1, <2>1, <2>5, <2>11, <2>6, <2>7, <2>9, <2>2 DEF LibShape, PoolUp, PoolCallers, InPool,
       InitLocked
  <2>14. LineBegun'
    BY <2>1, <2>5, <2>11, SMTT(40) DEF LibShape, LineBegun
  <2> QED
    BY <2>4, <2>8, <2>9, <2>10, <2>12, <2>13, <2>14
<1>2. CASE lib.count # 1 /\ lib.nest[t] = 1
  <2>1. /\ lib.at[t] = "in" /\ lib.init_lock = Nobody /\ lib'.init_lock = lib.init_lock
        /\ lib'.count = lib.count - 1 /\ lib'.nest = [lib.nest EXCEPT ![t] = lib.nest[t] - 1]
        /\ lib'.at = [lib.at EXCEPT ![t] = "out"] /\ lib'.got = [lib.got EXCEPT ![t] = "null"]
        /\ lib'.inits = lib.inits
        /\ lib'.pool_lock = lib.pool_lock /\ lib'.log_lock = lib.log_lock /\ lib'.pool = lib.pool
        /\ lib'.log = lib.log /\ lib'.ssl = lib.ssl /\ lib'.blocking = lib.blocking
        /\ lib'.ret = lib.ret /\ lib'.written = lib.written /\ lib'.woken = lib.woken
        /\ lib'.out = lib.out /\ lib'.lines = lib.lines
    BY <1>2, LibConstants DEF ShutdownLibrary, Goes, LibShape
  <2>2. /\ lib.count \in Nat /\ lib.count - 1 \in Nat /\ lib.inits \in Nat /\ lib'.inits \in 0..MaxInits
        /\ lib.nest[t] \in Nat /\ lib.nest[t] - 1 \in 0..MaxInits /\ lib.nest[t] > 0
    <3>1. Inside(t) /\ lib.nest[t] > 0
      BY <2>1 DEF Inside, Counted
    <3>2. lib.count > 0
      BY <3>1, FirstCall
    <3>3. lib.nest[t] \in 0..MaxInits /\ lib.inits \in 0..MaxInits /\ lib.count \in Nat
      BY DEF LibShape
    <3> QED
      BY <2>1, <3>1, <3>2, <3>3, LibConstants
  <2>3. lib' = [lib EXCEPT !.count = lib.count - 1,
                           !.nest = [lib.nest EXCEPT ![t] = lib.nest[t] - 1],
                           !.at = [lib.at EXCEPT ![t] = "out"],
                           !.got = [lib.got EXCEPT ![t] = "null"]]
    BY <1>2, <2>1, ZenonT(60) DEF ShutdownLibrary, Goes, LibShape
  <2>4. LibShape'
    BY <2>2, <2>1, <2>3, ZenonT(60) DEF LibShape, LibPlaces
  <2>5. \A u \in LibThreads \ {t} : lib'.at[u] = lib.at[u] /\ lib'.ret[u] = lib.ret[u]
    BY <2>1 DEF LibShape
  <2>6. \A u \in LibThreads \ {t} :
          (Starting(u)' <=> Starting(u)) /\ (Ending(u)' <=> Ending(u)) /\ (Inside(u)' <=> Inside(u))
    BY <2>5, OthersStay
  <2>7. /\ ~Starting(t) /\ ~Ending(t) /\ Inside(t)
        /\ ~Starting(t)' /\ ~Ending(t)' /\ ~Inside(t)'
    BY <1>2, <2>1, InsidersReady DEF LibShape, Starting, Ending, Inside, InPool
  <2>8. PoolCallers'
    BY <2>1, <2>5 DEF LibShape, PoolCallers, InPool
  <2>9. InitLocked'
    BY <2>1, <2>6, <2>7 DEF LibShape, InitLocked
  <2>10. Counted'
    <3>1. <<t, lib.nest[t]>> \in Calls /\ Calls' = Calls \ {<<t, lib.nest[t]>>}
      BY <2>1, <2>2, CallsMove
    <3>2. \A u \in LibThreads : ~Starting(u) /\ ~Ending(u)
      BY <2>1 DEF InitLocked
    <3>3. Cardinality(Calls') = Cardinality(Calls) - 1
      BY <3>1, CallsChange
    <3>4. lib'.count = Cardinality(Calls') /\ lib'.count <= lib'.inits
      BY <2>1, <2>2, <3>3 DEF Counted
    <3>5. /\ lib'.nest[t] = lib.nest[t] - 1
          /\ \A u \in LibThreads \ {t} : lib'.nest[u] = lib.nest[u] /\ lib.nest[u] \in Nat
          /\ \A u \in LibThreads : /\ lib.nest[u] <= lib.inits
                                   /\ lib.nest[u] > 0 <=> Inside(u) \/ Starting(u)
      BY <2>1, SMTT(40) DEF LibShape, Counted
    <3>6. \A u \in LibThreads : lib'.nest[u] <= lib'.inits
      BY <2>1, <2>2, <3>5
    <3>7. \A u \in LibThreads : lib'.nest[u] > 0 <=> Inside(u)' \/ Starting(u)'
      BY <1>2, <2>2, <2>6, <2>7, <3>5
    <3>8. \A u \in LibThreads : ~Starting(u)' /\ ~Ending(u)'
      BY <2>6, <2>7, <3>2
    <3> QED
      BY <3>4, <3>6, <3>7, <3>8 DEF Counted
  <2>11. /\ lib'.at[t] = "out" /\ lib'.ret[t] = lib.ret[t] /\ lib'.got[t] = "null"
         /\ \A u \in LibThreads \ {t} : lib'.got[u] = lib.got[u]
    BY <2>1 DEF LibShape
  <2>12. LayersUp'
    BY <1>2, <2>1, <2>5, <2>11, <2>6, <2>7, <2>9, <2>2 DEF LayersUp, InitLocked
  <2>13. ~EarlyPool => PoolUp'
    BY <1>2, <2>1, <2>5, <2>11, <2>6, <2>7, <2>9, <2>2, SMTT(40) DEF LibShape, PoolUp, PoolCallers, InPool,
       InitLocked
  <2>14. LineBegun'
    BY <2>1, <2>5, <2>11, SMTT(40) DEF LibShape, LineBegun
  <2> QED
    BY <2>4, <2>8, <2>9, <2>10, <2>12, <2>13, <2>14
<1>3. CASE lib.count # 1 /\ lib.nest[t] # 1
  <2>1. /\ lib.at[t] = "in" /\ lib.init_lock = Nobody /\ lib'.init_lock = lib.init_lock
        /\ lib'.count = lib.count - 1 /\ lib'.nest = [lib.nest EXCEPT ![t] = lib.nest[t] - 1]
        /\ lib'.at = [lib.at EXCEPT ![t] = "in"] /\ lib'.got = lib.got
        /\ lib'.inits = lib.inits
        /\ lib'.pool_lock = lib.pool_lock /\ lib'.log_lock = lib.log_lock /\ lib'.pool = lib.pool
        /\ lib'.log = lib.log /\ lib'.ssl = lib.ssl /\ lib'.blocking = lib.blocking
        /\ lib'.ret = lib.ret /\ lib'.written = lib.written /\ lib'.woken = lib.woken
        /\ lib'.out = lib.out /\ lib'.lines = lib.lines
    BY <1>3, LibConstants DEF ShutdownLibrary, Goes, LibShape
  <2>2. /\ lib.count \in Nat /\ lib.count - 1 \in Nat /\ lib.inits \in Nat /\ lib'.inits \in 0..MaxInits
        /\ lib.nest[t] \in Nat /\ lib.nest[t] - 1 \in 0..MaxInits /\ lib.nest[t] > 0
    <3>1. Inside(t) /\ lib.nest[t] > 0
      BY <2>1 DEF Inside, Counted
    <3>2. lib.count > 0
      BY <3>1, FirstCall
    <3>3. lib.nest[t] \in 0..MaxInits /\ lib.inits \in 0..MaxInits /\ lib.count \in Nat
      BY DEF LibShape
    <3> QED
      BY <2>1, <3>1, <3>2, <3>3, LibConstants
  <2>3. lib' = [lib EXCEPT !.count = lib.count - 1,
                           !.nest = [lib.nest EXCEPT ![t] = lib.nest[t] - 1],
                           !.at = [lib.at EXCEPT ![t] = "in"]]
    BY <1>3, <2>1, ZenonT(60) DEF ShutdownLibrary, Goes, LibShape
  <2>4. LibShape'
    BY <2>2, <2>1, <2>3, ZenonT(60) DEF LibShape, LibPlaces
  <2>5. \A u \in LibThreads \ {t} : lib'.at[u] = lib.at[u] /\ lib'.ret[u] = lib.ret[u]
    BY <2>1 DEF LibShape
  <2>6. \A u \in LibThreads \ {t} :
          (Starting(u)' <=> Starting(u)) /\ (Ending(u)' <=> Ending(u)) /\ (Inside(u)' <=> Inside(u))
    BY <2>5, OthersStay
  <2>7. /\ ~Starting(t) /\ ~Ending(t) /\ Inside(t)
        /\ ~Starting(t)' /\ ~Ending(t)' /\ Inside(t)'
    BY <1>3, <2>1, InsidersReady DEF LibShape, Starting, Ending, Inside, InPool
  <2>8. PoolCallers'
    BY <2>1, <2>5 DEF LibShape, PoolCallers, InPool
  <2>9. InitLocked'
    BY <2>1, <2>6, <2>7 DEF LibShape, InitLocked
  <2>10. Counted'
    <3>1. <<t, lib.nest[t]>> \in Calls /\ Calls' = Calls \ {<<t, lib.nest[t]>>}
      BY <2>1, <2>2, CallsMove
    <3>2. \A u \in LibThreads : ~Starting(u) /\ ~Ending(u)
      BY <2>1 DEF InitLocked
    <3>3. Cardinality(Calls') = Cardinality(Calls) - 1
      BY <3>1, CallsChange
    <3>4. lib'.count = Cardinality(Calls') /\ lib'.count <= lib'.inits
      BY <2>1, <2>2, <3>3 DEF Counted
    <3>5. /\ lib'.nest[t] = lib.nest[t] - 1
          /\ \A u \in LibThreads \ {t} : lib'.nest[u] = lib.nest[u] /\ lib.nest[u] \in Nat
          /\ \A u \in LibThreads : /\ lib.nest[u] <= lib.inits
                                   /\ lib.nest[u] > 0 <=> Inside(u) \/ Starting(u)
      BY <2>1, SMTT(40) DEF LibShape, Counted
    <3>6. \A u \in LibThreads : lib'.nest[u] <= lib'.inits
      BY <2>1, <2>2, <3>5
    <3>7. \A u \in LibThreads : lib'.nest[u] > 0 <=> Inside(u)' \/ Starting(u)'
      BY <1>3, <2>2, <2>6, <2>7, <3>5
    <3>8. \A u \in LibThreads : ~Starting(u)' /\ ~Ending(u)'
      BY <2>6, <2>7, <3>2
    <3> QED
      BY <3>4, <3>6, <3>7, <3>8 DEF Counted
  <2>11. /\ lib'.at[t] = "in" /\ lib'.ret[t] = lib.ret[t] /\ lib'.got[t] = lib.got[t]
         /\ \A u \in LibThreads \ {t} : lib'.got[u] = lib.got[u]
    BY <2>1 DEF LibShape
  <2>12. LayersUp'
    BY <1>3, <2>1, <2>5, <2>11, <2>6, <2>7, <2>9, <2>2 DEF LayersUp, InitLocked
  <2>13. ~EarlyPool => PoolUp'
    BY <1>3, <2>1, <2>5, <2>11, <2>6, <2>7, <2>9, <2>2, SMTT(60) DEF LibShape, PoolUp, PoolCallers,
       InPool,
       InitLocked
  <2>14. LineBegun'
    BY <2>1, <2>5, <2>11, SMTT(40) DEF LibShape, LineBegun
  <2> QED
    BY <2>4, <2>8, <2>9, <2>10, <2>12, <2>13, <2>14
<1> QED
  BY <1>0, <1>1, <1>2, <1>3

\* ks_global_pool is entered; the caller stays where it belongs.
LEMMA AskPoolKeeps ==
    ASSUME LibIInv, NEW t \in LibThreads, AskPool(t) PROVE LibIInv'
<1> USE LibConstants DEF LibIInv, LibControl
<1>1. /\ (lib.at[t] = "in" \/ (EarlyPool /\ lib.at[t] = "out")) /\ lib.got[t] = "null"
      /\ lib'.at = [lib.at EXCEPT ![t] = "pool_test"] /\ lib'.ret = [lib.ret EXCEPT ![t] = lib.at[t]]
      /\ lib'.count = lib.count /\ lib'.nest = lib.nest
      /\ lib'.init_lock = lib.init_lock /\ lib'.pool_lock = lib.pool_lock
      /\ lib'.log_lock = lib.log_lock /\ lib'.pool = lib.pool /\ lib'.log = lib.log
      /\ lib'.ssl = lib.ssl /\ lib'.blocking = lib.blocking /\ lib'.got = lib.got
      /\ lib'.written = lib.written /\ lib'.woken = lib.woken /\ lib'.out = lib.out
      /\ lib'.inits = lib.inits /\ lib'.lines = lib.lines
  BY LibConstants DEF AskPool, Goes, LibShape
<1>2. LibShape'
  BY <1>1, ZenonT(60) DEF LibShape, LibPlaces, AskPool, Goes
<1>3. \A u \in LibThreads \ {t} : lib'.at[u] = lib.at[u] /\ lib'.ret[u] = lib.ret[u]
  BY <1>1 DEF LibShape
<1>4. \A u \in LibThreads \ {t} :
        (Starting(u)' <=> Starting(u)) /\ (Ending(u)' <=> Ending(u)) /\ (Inside(u)' <=> Inside(u))
  BY <1>3, OthersStay
<1>5. (Starting(t)' <=> Starting(t)) /\ (Ending(t)' <=> Ending(t)) /\ (Inside(t)' <=> Inside(t))
  BY <1>1, ZenonT(60) DEF LibShape, PoolCallers, Starting, Ending, Inside, InPool
<1>6. PoolCallers'
  BY <1>1, <1>3 DEF LibShape, PoolCallers, InPool
<1>7. InitLocked'
  BY <1>1, <1>4, <1>5, SMTT(40) DEF LibShape, InitLocked
<1>8. Counted'
  BY <1>1, <1>4, <1>5, CountedKept
<1>9. /\ lib'.at[t] = "pool_test" /\ lib'.ret[t] = lib.at[t] /\ lib'.got[t] = lib.got[t]
      /\ \A u \in LibThreads \ {t} : lib'.got[u] = lib.got[u]
  BY <1>1 DEF LibShape
<1>10. LayersUp'
  BY <1>1, <1>3, <1>9, <1>4, <1>5, <1>7 DEF LayersUp, InitLocked
<1>11. ~EarlyPool => PoolUp'
  BY <1>1, <1>3, <1>9, <1>4, <1>5, <1>7, SMTT(40) DEF LibShape, PoolUp, PoolCallers, InPool, InitLocked
<1>12. LineBegun'
  BY <1>1, <1>3, <1>9, SMTT(40) DEF LibShape, LineBegun
<1> QED
  BY <1>2, <1>6, <1>7, <1>8, <1>10, <1>11, <1>12

\* The logger takes its mutex and sets stdout not to block.
LEMMA BeginLineKeeps ==
    ASSUME LibIInv, NEW t \in LibThreads, BeginLine(t) PROVE LibIInv'
<1> USE LibConstants DEF LibIInv, LibControl
<1>1. /\ lib.at[t] = "in" /\ lib.log_lock = Nobody /\ lib'.at = [lib.at EXCEPT ![t] = "log"]
      /\ lib'.log_lock = t /\ lib'.blocking = FALSE /\ lib'.lines = lib.lines + 1
      /\ lib'.written = [lib.written EXCEPT ![t] = 0] /\ lib'.woken = [lib.woken EXCEPT ![t] = FALSE]
      /\ lib'.count = lib.count /\ lib'.nest = lib.nest
      /\ lib'.init_lock = lib.init_lock /\ lib'.pool_lock = lib.pool_lock
      /\ lib'.pool = lib.pool /\ lib'.log = lib.log /\ lib'.ssl = lib.ssl /\ lib'.ret = lib.ret
      /\ lib'.got = lib.got /\ lib'.out = lib.out /\ lib'.inits = lib.inits
  BY LibConstants DEF BeginLine, Goes, LibShape
<1>2. lib.lines + 1 \in 0..MaxLines /\ 0 \in 0..LineLen
  BY <1>1 DEF BeginLine, LibShape
<1>3. lib' = [lib EXCEPT !.at = [lib.at EXCEPT ![t] = "log"], !.log_lock = t, !.blocking = FALSE,
                         !.lines = lib.lines + 1, !.written = [lib.written EXCEPT ![t] = 0],
                         !.woken = [lib.woken EXCEPT ![t] = FALSE]]
  BY <1>1 DEF BeginLine, Goes, LibShape
<1>4. LibShape'
  BY <1>2, <1>3 DEF LibShape, LibPlaces, Goes
<1>5. \A u \in LibThreads \ {t} : lib'.at[u] = lib.at[u] /\ lib'.ret[u] = lib.ret[u]
  BY <1>1 DEF LibShape
<1>6. \A u \in LibThreads \ {t} :
        (Starting(u)' <=> Starting(u)) /\ (Ending(u)' <=> Ending(u)) /\ (Inside(u)' <=> Inside(u))
  BY <1>5, OthersStay
<1>7. /\ ~Starting(t) /\ ~Ending(t) /\ Inside(t)
      /\ ~Starting(t)' /\ ~Ending(t)' /\ Inside(t)'
  BY <1>1 DEF LibShape, Starting, Ending, Inside, InPool
<1>8. PoolCallers'
  BY <1>1, <1>5 DEF LibShape, PoolCallers, InPool
<1>9. InitLocked'
  BY <1>1, <1>6, <1>7 DEF LibShape, InitLocked
<1>10. Counted'
  BY <1>1, <1>6, <1>7, CountedKept
<1>11. /\ lib'.at[t] = "log" /\ lib'.ret[t] = lib.ret[t] /\ lib'.got[t] = lib.got[t]
       /\ \A u \in LibThreads \ {t} : lib'.got[u] = lib.got[u]
  BY <1>1 DEF LibShape
<1>12. LayersUp'
  BY <1>1, <1>5, <1>11, <1>6, <1>7, <1>9, <1>2 DEF LayersUp, InitLocked
<1>13. ~EarlyPool => PoolUp'
  <2>1. \A u \in LibThreads :
          /\ (Starting(u)' <=> Starting(u)) /\ (Ending(u)' <=> Ending(u))
          /\ Starting(u) \/ Ending(u) => lib'.at[u] = lib.at[u]
          /\ lib'.at[u] \in {"pool_lock", "pool_open"} => lib'.at[u] = lib.at[u]
          /\ lib'.got[u] = lib.got[u]
    BY <1>5, <1>6, <1>7, <1>11
  <2> QED
    BY <1>1, <2>1 DEF PoolUp
<1>14. LineBegun'
  BY <1>1, <1>5, <1>11, SMTT(40) DEF LibShape, LineBegun
<1> QED
  BY <1>4, <1>8, <1>9, <1>10, <1>12, <1>13, <1>14

\* ks_init makes the log's mutex, and goes on to the global pool.
LEMMA InitLogKeeps ==
    ASSUME LibIInv, NEW t \in LibThreads, InitLog(t) PROVE LibIInv'
<1> USE LibConstants DEF LibIInv, LibControl
<1>1. /\ lib.at[t] = "init_log" /\ lib'.at = [lib.at EXCEPT ![t] = "pool_test"] /\ lib'.log = TRUE
      /\ lib'.ret = [lib.ret EXCEPT ![t] = "init_ssl"]
      /\ lib'.count = lib.count /\ lib'.nest = lib.nest
      /\ lib'.init_lock = lib.init_lock /\ lib'.pool_lock = lib.pool_lock
      /\ lib'.log_lock = lib.log_lock /\ lib'.pool = lib.pool /\ lib'.ssl = lib.ssl
      /\ lib'.blocking = lib.blocking /\ lib'.got = lib.got /\ lib'.written = lib.written
      /\ lib'.woken = lib.woken /\ lib'.out = lib.out /\ lib'.inits = lib.inits
      /\ lib'.lines = lib.lines
  BY LibConstants DEF InitLog, Goes, LibShape
<1>2. LibShape'
  BY <1>1, ZenonT(60) DEF LibShape, LibPlaces, InitLog, Goes
<1>3. \A u \in LibThreads \ {t} : lib'.at[u] = lib.at[u] /\ lib'.ret[u] = lib.ret[u]
  BY <1>1 DEF LibShape
<1>4. \A u \in LibThreads \ {t} :
        (Starting(u)' <=> Starting(u)) /\ (Ending(u)' <=> Ending(u)) /\ (Inside(u)' <=> Inside(u))
  BY <1>3, OthersStay
<1>5. /\ Starting(t) /\ ~Ending(t) /\ ~Inside(t)
      /\ Starting(t)' /\ ~Ending(t)' /\ ~Inside(t)'
  BY <1>1 DEF LibShape, Starting, Ending, Inside, InPool
<1>6. PoolCallers'
  BY <1>1, <1>3 DEF LibShape, PoolCallers, InPool
<1>7. InitLocked'
  BY <1>1, <1>4, <1>5 DEF LibShape, InitLocked
<1>8. Counted'
  BY <1>1, <1>4, <1>5, CountedKept
<1>9. /\ lib'.at[t] = "pool_test" /\ lib'.ret[t] = "init_ssl" /\ lib'.got[t] = lib.got[t]
      /\ \A u \in LibThreads \ {t} : lib'.got[u] = lib.got[u]
  BY <1>1 DEF LibShape
<1>10. /\ lib.init_lock = t /\ \A u \in LibThreads \ {t} : ~Starting(u) /\ ~Ending(u)
       /\ lib.count > 0
  BY <1>5, OneAtATime
<1>11. LayersUp'
  BY <1>1, <1>3, <1>9, <1>4, <1>5, <1>7, <1>10 DEF LayersUp, InitLocked
<1>12. ~EarlyPool => PoolUp'
  BY <1>1, <1>3, <1>9, <1>4, <1>5, <1>7, <1>10, SMTT(40) DEF LibShape, PoolUp, PoolCallers, InPool, InitLocked
<1>13. LineBegun'
  BY <1>1, <1>3, <1>9, SMTT(40) DEF LibShape, LineBegun
<1> QED
  BY <1>2, <1>6, <1>7, <1>8, <1>11, <1>12, <1>13

\* ks_init makes the OpenSSL locks and lets go: all layers are up.
LEMMA InitSslKeeps ==
    ASSUME LibIInv, NEW t \in LibThreads, InitSsl(t) PROVE LibIInv'
<1> USE LibConstants DEF LibIInv, LibControl
<1>1. /\ lib.at[t] = "init_ssl" /\ lib'.at = [lib.at EXCEPT ![t] = "in"] /\ lib'.ssl = TRUE
      /\ lib'.init_lock = Nobody
      /\ lib'.count = lib.count /\ lib'.nest = lib.nest
      /\ lib'.pool_lock = lib.pool_lock /\ lib'.log_lock = lib.log_lock
      /\ lib'.pool = lib.pool /\ lib'.log = lib.log /\ lib'.blocking = lib.blocking
      /\ lib'.ret = lib.ret /\ lib'.got = lib.got /\ lib'.written = lib.written
      /\ lib'.woken = lib.woken /\ lib'.out = lib.out /\ lib'.inits = lib.inits
      /\ lib'.lines = lib.lines
  BY LibConstants DEF InitSsl, Goes, LibShape
<1>2. LibShape'
  BY <1>1 DEF LibShape, LibPlaces, InitSsl, Goes
<1>3. \A u \in LibThreads \ {t} : lib'.at[u] = lib.at[u] /\ lib'.ret[u] = lib.ret[u]
  BY <1>1 DEF LibShape
<1>4. \A u \in LibThreads \ {t} :
        (Starting(u)' <=> Starting(u)) /\ (Ending(u)' <=> Ending(u)) /\ (Inside(u)' <=> Inside(u))
  BY <1>3, OthersStay
<1>5. /\ Starting(t) /\ ~Ending(t) /\ ~Inside(t)
      /\ ~Starting(t)' /\ ~Ending(t)' /\ Inside(t)'
  BY <1>1 DEF LibShape, Starting, Ending, Inside, InPool
<1>6. PoolCallers'
  BY <1>1, <1>3 DEF LibShape, PoolCallers, InPool
<1>7. InitLocked'
  BY <1>1, <1>4, <1>5, SMTT(40) DEF LibShape, InitLocked
<1>8. Counted'
  BY <1>1, <1>4, <1>5, CountedKept
<1>9. /\ lib'.at[t] = "in" /\ lib'.ret[t] = lib.ret[t] /\ lib'.got[t] = lib.got[t]
      /\ \A u \in LibThreads \ {t} : lib'.got[u] = lib.got[u]
  BY <1>1 DEF LibShape
<1>10. /\ lib.init_lock = t /\ \A u \in LibThreads \ {t} : ~Starting(u) /\ ~Ending(u)
       /\ lib.count > 0
  BY <1>5, OneAtATime
<1>11. LayersUp'
  BY <1>1, <1>3, <1>9, <1>4, <1>5, <1>7, <1>10 DEF LayersUp, InitLocked
<1>12. ~EarlyPool => PoolUp'
  BY <1>1, <1>3, <1>9, <1>4, <1>5, <1>7, <1>10, SMTT(40) DEF LibShape, PoolUp, PoolCallers, InPool, InitLocked
<1>13. LineBegun'
  BY <1>1, <1>3, <1>9, SMTT(40) DEF LibShape, LineBegun
<1> QED
  BY <1>2, <1>6, <1>7, <1>8, <1>11, <1>12, <1>13

\* ks_shutdown frees the OpenSSL locks: nobody is inside.
LEMMA DestroySslKeeps ==
    ASSUME LibIInv, NEW t \in LibThreads, DestroySsl(t) PROVE LibIInv'
<1> USE LibConstants DEF LibIInv, LibControl
<1>1. /\ lib.at[t] = "down_ssl" /\ lib'.at = [lib.at EXCEPT ![t] = "down_pool"] /\ lib'.ssl = FALSE
      /\ lib'.count = lib.count /\ lib'.nest = lib.nest
      /\ lib'.init_lock = lib.init_lock /\ lib'.pool_lock = lib.pool_lock
      /\ lib'.log_lock = lib.log_lock /\ lib'.pool = lib.pool /\ lib'.log = lib.log
      /\ lib'.blocking = lib.blocking /\ lib'.ret = lib.ret /\ lib'.got = lib.got
      /\ lib'.written = lib.written /\ lib'.woken = lib.woken /\ lib'.out = lib.out
      /\ lib'.inits = lib.inits /\ lib'.lines = lib.lines
  BY LibConstants DEF DestroySsl, Goes, LibShape
<1>2. LibShape'
  BY <1>1 DEF LibShape, LibPlaces, DestroySsl, Goes
<1>3. \A u \in LibThreads \ {t} : lib'.at[u] = lib.at[u] /\ lib'.ret[u] = lib.ret[u]
  BY <1>1 DEF LibShape
<1>4. \A u \in LibThreads \ {t} :
        (Starting(u)' <=> Starting(u)) /\ (Ending(u)' <=> Ending(u)) /\ (Inside(u)' <=> Inside(u))
  BY <1>3, OthersStay
<1>5. /\ ~Starting(t) /\ Ending(t) /\ ~Inside(t)
      /\ ~Starting(t)' /\ Ending(t)' /\ ~Inside(t)'
  BY <1>1 DEF LibShape, Starting, Ending, Inside, InPool
<1>6. PoolCallers'
  BY <1>1, <1>3 DEF LibShape, PoolCallers, InPool
<1>7. InitLocked'
  BY <1>1, <1>4, <1>5, SMTT(40) DEF LibShape, InitLocked
<1>8. Counted'
  BY <1>1, <1>4, <1>5, CountedKept
<1>9. /\ lib'.at[t] = "down_pool" /\ lib'.ret[t] = lib.ret[t] /\ lib'.got[t] = lib.got[t]
      /\ \A u \in LibThreads \ {t} : lib'.got[u] = lib.got[u]
  BY <1>1 DEF LibShape
<1>10. /\ lib.init_lock = t /\ \A u \in LibThreads \ {t} : ~Starting(u) /\ ~Ending(u)
       /\ lib.count = 0
  BY <1>5, OneAtATime
<1>11. LayersUp'
  BY <1>1, <1>3, <1>9, <1>4, <1>5, <1>7, <1>10 DEF LayersUp, InitLocked
<1>12. ~EarlyPool => PoolUp'
  BY <1>1, <1>3, <1>9, <1>4, <1>5, <1>7, <1>10, SMTT(40) DEF LibShape, PoolUp, PoolCallers, InPool, InitLocked
<1>13. LineBegun'
  BY <1>1, <1>3, <1>9, SMTT(40) DEF LibShape, LineBegun
<1> QED
  BY <1>2, <1>6, <1>7, <1>8, <1>11, <1>12, <1>13

\* ks_shutdown closes the global pool: nobody is inside.
LEMMA CloseGlobalPoolKeeps ==
    ASSUME LibIInv, NEW t \in LibThreads, CloseGlobalPool(t) PROVE LibIInv'
<1> USE LibConstants DEF LibIInv, LibControl
<1>1. /\ lib.at[t] = "down_pool" /\ lib'.at = [lib.at EXCEPT ![t] = "down_log"] /\ lib'.pool = "null"
      /\ lib'.count = lib.count /\ lib'.nest = lib.nest
      /\ lib'.init_lock = lib.init_lock /\ lib'.pool_lock = lib.pool_lock
      /\ lib'.log_lock = lib.log_lock /\ lib'.log = lib.log /\ lib'.ssl = lib.ssl
      /\ lib'.blocking = lib.blocking /\ lib'.ret = lib.ret /\ lib'.got = lib.got
      /\ lib'.written = lib.written /\ lib'.woken = lib.woken /\ lib'.out = lib.out
      /\ lib'.inits = lib.inits /\ lib'.lines = lib.lines
  BY LibConstants DEF CloseGlobalPool, Goes, LibShape
<1>2. LibShape'
  BY <1>1 DEF LibShape, LibPlaces, CloseGlobalPool, Goes
<1>3. \A u \in LibThreads \ {t} : lib'.at[u] = lib.at[u] /\ lib'.ret[u] = lib.ret[u]
  BY <1>1 DEF LibShape
<1>4. \A u \in LibThreads \ {t} :
        (Starting(u)' <=> Starting(u)) /\ (Ending(u)' <=> Ending(u)) /\ (Inside(u)' <=> Inside(u))
  BY <1>3, OthersStay
<1>5. /\ ~Starting(t) /\ Ending(t) /\ ~Inside(t)
      /\ ~Starting(t)' /\ Ending(t)' /\ ~Inside(t)'
  BY <1>1 DEF LibShape, Starting, Ending, Inside, InPool
<1>6. PoolCallers'
  BY <1>1, <1>3 DEF LibShape, PoolCallers, InPool
<1>7. InitLocked'
  BY <1>1, <1>4, <1>5, SMTT(40) DEF LibShape, InitLocked
<1>8. Counted'
  BY <1>1, <1>4, <1>5, CountedKept
<1>9. /\ lib'.at[t] = "down_log" /\ lib'.ret[t] = lib.ret[t] /\ lib'.got[t] = lib.got[t]
      /\ \A u \in LibThreads \ {t} : lib'.got[u] = lib.got[u]
  BY <1>1 DEF LibShape
<1>10. /\ lib.init_lock = t /\ \A u \in LibThreads \ {t} : ~Starting(u) /\ ~Ending(u)
       /\ lib.count = 0
  BY <1>5, OneAtATime
<1>11. LayersUp'
  BY <1>1, <1>3, <1>9, <1>4, <1>5, <1>7, <1>10 DEF LayersUp, InitLocked
<1>12. ~EarlyPool => PoolUp'
  BY <1>1, <1>3, <1>9, <1>4, <1>5, <1>7, <1>10, SMTT(40) DEF LibShape, PoolUp, PoolCallers, InPool, InitLocked
<1>13. LineBegun'
  BY <1>1, <1>3, <1>9, SMTT(40) DEF LibShape, LineBegun
<1> QED
  BY <1>2, <1>6, <1>7, <1>8, <1>11, <1>12, <1>13

\* ks_shutdown frees the log's mutex and lets go: no layer is left.
LEMMA ShutdownLogKeeps ==
    ASSUME LibIInv, NEW t \in LibThreads, ShutdownLog(t) PROVE LibIInv'
<1> USE LibConstants DEF LibIInv, LibControl
<1>1. /\ lib.at[t] = "down_log" /\ lib'.at = [lib.at EXCEPT ![t] = "out"] /\ lib'.log = FALSE
      /\ lib'.init_lock = Nobody
      /\ lib'.count = lib.count /\ lib'.nest = lib.nest
      /\ lib'.pool_lock = lib.pool_lock /\ lib'.log_lock = lib.log_lock
      /\ lib'.pool = lib.pool /\ lib'.ssl = lib.ssl /\ lib'.blocking = lib.blocking
      /\ lib'.ret = lib.ret /\ lib'.got = lib.got /\ lib'.written = lib.written
      /\ lib'.woken = lib.woken /\ lib'.out = lib.out /\ lib'.inits = lib.inits
      /\ lib'.lines = lib.lines
  BY LibConstants DEF ShutdownLog, Goes, LibShape
<1>2. LibShape'
  BY <1>1 DEF LibShape, LibPlaces, ShutdownLog, Goes
<1>3. \A u \in LibThreads \ {t} : lib'.at[u] = lib.at[u] /\ lib'.ret[u] = lib.ret[u]
  BY <1>1 DEF LibShape
<1>4. \A u \in LibThreads \ {t} :
        (Starting(u)' <=> Starting(u)) /\ (Ending(u)' <=> Ending(u)) /\ (Inside(u)' <=> Inside(u))
  BY <1>3, OthersStay
<1>5. /\ ~Starting(t) /\ Ending(t) /\ ~Inside(t)
      /\ ~Starting(t)' /\ ~Ending(t)' /\ ~Inside(t)'
  BY <1>1 DEF LibShape, Starting, Ending, Inside, InPool
<1>6. PoolCallers'
  BY <1>1, <1>3 DEF LibShape, PoolCallers, InPool
<1>7. InitLocked'
  BY <1>1, <1>4, <1>5, SMTT(40) DEF LibShape, InitLocked
<1>8. Counted'
  BY <1>1, <1>4, <1>5, CountedKept
<1>9. /\ lib'.at[t] = "out" /\ lib'.ret[t] = lib.ret[t] /\ lib'.got[t] = lib.got[t]
      /\ \A u \in LibThreads \ {t} : lib'.got[u] = lib.got[u]
  BY <1>1 DEF LibShape
<1>10. /\ lib.init_lock = t /\ \A u \in LibThreads \ {t} : ~Starting(u) /\ ~Ending(u)
       /\ lib.count = 0
  BY <1>5, OneAtATime
<1>11. LayersUp'
  BY <1>1, <1>3, <1>9, <1>4, <1>5, <1>7, <1>10 DEF LayersUp, InitLocked
<1>12. ~EarlyPool => PoolUp'
  BY <1>1, <1>3, <1>9, <1>4, <1>5, <1>7, <1>10, SMTT(40) DEF LibShape, PoolUp, PoolCallers, InPool, InitLocked
<1>13. LineBegun'
  BY <1>1, <1>3, <1>9, SMTT(40) DEF LibShape, LineBegun
<1> QED
  BY <1>2, <1>6, <1>7, <1>8, <1>11, <1>12, <1>13

\* The unlocked test: without EarlyPool only the first ks_init finds no pool.
LEMMA TestPoolKeeps ==
    ASSUME LibIInv, NEW t \in LibThreads, TestPool(t) PROVE LibIInv'
<1> USE LibConstants DEF LibIInv, LibControl
<1>1. CASE lib.pool # "null"
  <2>1. /\ lib.at[t] = "pool_test" /\ lib'.at = [lib.at EXCEPT ![t] = lib.ret[t]]
        /\ lib'.got = [lib.got EXCEPT ![t] = lib.pool]
        /\ lib'.count = lib.count /\ lib'.nest = lib.nest
        /\ lib'.init_lock = lib.init_lock /\ lib'.pool_lock = lib.pool_lock
        /\ lib'.log_lock = lib.log_lock /\ lib'.pool = lib.pool /\ lib'.log = lib.log
        /\ lib'.ssl = lib.ssl /\ lib'.blocking = lib.blocking /\ lib'.ret = lib.ret
        /\ lib'.written = lib.written /\ lib'.woken = lib.woken /\ lib'.out = lib.out
        /\ lib'.inits = lib.inits /\ lib'.lines = lib.lines
    BY <1>1, LibConstants DEF TestPool, Returns, Goes, LibShape
  <2>2. LibShape'
    BY <1>1, <2>1, ZenonT(60) DEF LibShape, LibPlaces, TestPool, Returns, Goes
  <2>3. lib.ret[t] \in {"init_ssl", "in", "out"}
    BY <2>1 DEF PoolCallers, InPool
  <2>4. \A u \in LibThreads \ {t} : lib'.at[u] = lib.at[u] /\ lib'.ret[u] = lib.ret[u]
    BY <2>1 DEF LibShape
  <2>5. \A u \in LibThreads \ {t} :
          (Starting(u)' <=> Starting(u)) /\ (Ending(u)' <=> Ending(u)) /\ (Inside(u)' <=> Inside(u))
    BY <2>4, OthersStay
  <2>6. (Starting(t)' <=> Starting(t)) /\ (Ending(t)' <=> Ending(t)) /\ (Inside(t)' <=> Inside(t))
    BY <2>1, <2>3 DEF LibShape, PoolCallers, Starting, Ending, Inside, InPool
  <2>7. PoolCallers'
    BY <2>1, <2>3, <2>4 DEF LibShape, PoolCallers, InPool
  <2>8. InitLocked'
    BY <2>1, <2>5, <2>6, SMTT(40) DEF LibShape, InitLocked
  <2>9. Counted'
    BY <2>1, <2>5, <2>6, CountedKept
  <2>10. /\ lib'.at[t] = lib.ret[t] /\ lib'.ret[t] = lib.ret[t] /\ lib'.got[t] = lib.pool
         /\ \A u \in LibThreads \ {t} : lib'.got[u] = lib.got[u]
    BY <2>1 DEF LibShape
  <2>11. ~EarlyPool => lib.ret[t] = "in" /\ lib.pool = "open"
    <3>1. SUFFICES ASSUME ~EarlyPool PROVE lib.ret[t] = "in" /\ lib.pool = "open"
      OBVIOUS
    <3>2. lib.ret[t] = "in"
      BY <1>1, <2>1, <2>3, <3>1 DEF LibShape, PoolUp, PoolCallers, InPool, Starting
    <3>3. Inside(t)
      BY <2>1, <3>2 DEF Inside
    <3> QED
      BY <3>1, <3>2, <3>3, InsidersReady DEF PoolUp
  <2>12. LayersUp'
    BY <1>1, <2>1, <2>4, <2>10, <2>5, <2>6, <2>8, <2>3, <2>11 DEF LayersUp, InitLocked
  <2>13. ~EarlyPool => PoolUp'
    BY <1>1, <2>1, <2>4, <2>10, <2>5, <2>6, <2>8, <2>3, <2>11, SMTT(60) DEF LibShape, PoolUp,
       PoolCallers,
       InPool, InitLocked
  <2>14. LineBegun'
    BY <2>1, <2>4, <2>10, <2>3, SMTT(40) DEF LibShape, LineBegun
  <2> QED
    BY <2>2, <2>7, <2>8, <2>9, <2>12, <2>13, <2>14
<1>2. CASE lib.pool = "null"
  <2>1. /\ lib.at[t] = "pool_test" /\ lib'.at = [lib.at EXCEPT ![t] = "pool_lock"]
        /\ lib'.count = lib.count /\ lib'.nest = lib.nest
        /\ lib'.init_lock = lib.init_lock /\ lib'.pool_lock = lib.pool_lock
        /\ lib'.log_lock = lib.log_lock /\ lib'.pool = lib.pool /\ lib'.log = lib.log
        /\ lib'.ssl = lib.ssl /\ lib'.blocking = lib.blocking /\ lib'.ret = lib.ret
        /\ lib'.got = lib.got /\ lib'.written = lib.written /\ lib'.woken = lib.woken
        /\ lib'.out = lib.out /\ lib'.inits = lib.inits /\ lib'.lines = lib.lines
    BY <1>2, LibConstants DEF TestPool, Returns, Goes, LibShape
  <2>2. LibShape'
    BY <1>2, <2>1, ZenonT(60) DEF LibShape, LibPlaces, TestPool, Returns, Goes
  <2>3. \A u \in LibThreads \ {t} : lib'.at[u] = lib.at[u] /\ lib'.ret[u] = lib.ret[u]
    BY <2>1 DEF LibShape
  <2>4. \A u \in LibThreads \ {t} :
          (Starting(u)' <=> Starting(u)) /\ (Ending(u)' <=> Ending(u)) /\ (Inside(u)' <=> Inside(u))
    BY <2>3, OthersStay
  <2>5. (Starting(t)' <=> Starting(t)) /\ (Ending(t)' <=> Ending(t)) /\ (Inside(t)' <=> Inside(t))
    BY <2>1, SMTT(40) DEF LibShape, PoolCallers, Starting, Ending, Inside, InPool
  <2>6. PoolCallers'
    BY <2>1, <2>3 DEF LibShape, PoolCallers, InPool
  <2>7. InitLocked'
    BY <2>1, <2>4, <2>5, ZenonT(60) DEF LibShape, InitLocked
  <2>8. Counted'
    BY <2>1, <2>4, <2>5, CountedKept
  <2>9. /\ lib'.at[t] = "pool_lock" /\ lib'.ret[t] = lib.ret[t] /\ lib'.got[t] = lib.got[t]
        /\ \A u \in LibThreads \ {t} : lib'.got[u] = lib.got[u]
    BY <2>1 DEF LibShape
  <2>10. ~EarlyPool => /\ Starting(t)
                       /\ \A u \in LibThreads \ {t} : ~Starting(u) /\ ~Ending(u)
    <3>1. SUFFICES ASSUME ~EarlyPool PROVE Starting(t)
      BY OneAtATime
    <3>2. CASE lib.ret[t] = "in"
      <4>1. Inside(t)
        BY <2>1, <3>2 DEF Inside
      <4> QED
        BY <1>2, <3>1, <4>1, InsidersReady DEF PoolUp
    <3>3. CASE lib.ret[t] = "init_ssl"
      BY <2>1, <3>3 DEF Starting, InPool
    <3> QED
      BY <3>1, <3>2, <3>3, <2>1 DEF PoolCallers, InPool
  <2>11. LayersUp'
    BY <1>2, <2>1, <2>3, <2>9, <2>4, <2>5, <2>7, <2>10 DEF LayersUp, InitLocked
  <2>12. ~EarlyPool => PoolUp'
    BY <1>2, <2>1, <2>3, <2>9, <2>4, <2>5, <2>7, <2>10, SMTT(40) DEF LibShape, PoolUp, PoolCallers, InPool,
       InitLocked
  <2>13. LineBegun'
    BY <2>1, <2>3, <2>9, SMTT(40) DEF LibShape, LineBegun
  <2> QED
    BY <2>2, <2>6, <2>7, <2>8, <2>11, <2>12, <2>13
<1> QED
  BY <1>1, <1>2

\* The test under the lock, and the first half of ks_pool_open.
LEMMA LockPoolKeeps ==
    ASSUME LibIInv, NEW t \in LibThreads, LockPool(t) PROVE LibIInv'
<1> USE LibConstants DEF LibIInv, LibControl
<1>1. CASE lib.pool # "null"
  <2>1. /\ lib.at[t] = "pool_lock" /\ lib.pool_lock = Nobody
        /\ lib'.at = [lib.at EXCEPT ![t] = lib.ret[t]] /\ lib'.got = [lib.got EXCEPT ![t] = lib.pool]
        /\ lib'.count = lib.count /\ lib'.nest = lib.nest
        /\ lib'.init_lock = lib.init_lock /\ lib'.pool_lock = lib.pool_lock
        /\ lib'.log_lock = lib.log_lock /\ lib'.pool = lib.pool /\ lib'.log = lib.log
        /\ lib'.ssl = lib.ssl /\ lib'.blocking = lib.blocking /\ lib'.ret = lib.ret
        /\ lib'.written = lib.written /\ lib'.woken = lib.woken /\ lib'.out = lib.out
        /\ lib'.inits = lib.inits /\ lib'.lines = lib.lines
    BY <1>1, LibConstants DEF LockPool, Returns, Goes, LibShape
  <2>2. LibShape'
    BY <1>1, <2>1, ZenonT(60) DEF LibShape, LibPlaces, LockPool, Returns, Goes
  <2>3. lib.ret[t] \in {"init_ssl", "in", "out"}
    BY <2>1 DEF PoolCallers, InPool
  <2>4. \A u \in LibThreads \ {t} : lib'.at[u] = lib.at[u] /\ lib'.ret[u] = lib.ret[u]
    BY <2>1 DEF LibShape
  <2>5. \A u \in LibThreads \ {t} :
          (Starting(u)' <=> Starting(u)) /\ (Ending(u)' <=> Ending(u)) /\ (Inside(u)' <=> Inside(u))
    BY <2>4, OthersStay
  <2>6. (Starting(t)' <=> Starting(t)) /\ (Ending(t)' <=> Ending(t)) /\ (Inside(t)' <=> Inside(t))
    BY <2>1, <2>3, SMTT(40) DEF LibShape, PoolCallers, Starting, Ending, Inside, InPool
  <2>7. PoolCallers'
    BY <2>1, <2>3, <2>4 DEF LibShape, PoolCallers, InPool
  <2>8. InitLocked'
    BY <2>1, <2>5, <2>6, SMTT(40) DEF LibShape, InitLocked
  <2>9. Counted'
    BY <2>1, <2>5, <2>6, CountedKept
  <2>10. /\ lib'.at[t] = lib.ret[t] /\ lib'.ret[t] = lib.ret[t] /\ lib'.got[t] = lib.pool
         /\ \A u \in LibThreads \ {t} : lib'.got[u] = lib.got[u]
    BY <2>1 DEF LibShape
  <2>11. ~EarlyPool => /\ Starting(t) /\ lib.ret[t] = "init_ssl"
                       /\ \A u \in LibThreads \ {t} : ~Starting(u) /\ ~Ending(u)
    <3>1. SUFFICES ASSUME ~EarlyPool PROVE Starting(t)
      BY <2>1, OneAtATime DEF Starting, InPool
    <3> QED
      BY <3>1, <2>1 DEF PoolUp
  <2>12. LayersUp'
    BY <1>1, <2>1, <2>4, <2>10, <2>5, <2>6, <2>8, <2>3, <2>11 DEF LayersUp, InitLocked
  <2>13. ~EarlyPool => PoolUp'
    BY <1>1, <2>1, <2>4, <2>10, <2>5, <2>6, <2>8, <2>3, <2>11 DEF LibShape, PoolUp, PoolCallers,
       InPool, InitLocked
  <2>14. LineBegun'
    BY <2>1, <2>4, <2>10, <2>3, SMTT(40) DEF LibShape, LineBegun
  <2> QED
    BY <2>2, <2>7, <2>8, <2>9, <2>12, <2>13, <2>14
<1>2. CASE lib.pool = "null"
  <2>1. /\ lib.at[t] = "pool_lock" /\ lib.pool_lock = Nobody
        /\ lib'.at = [lib.at EXCEPT ![t] = "pool_open"] /\ lib'.pool_lock = t /\ lib'.pool = "half"
        /\ lib'.count = lib.count /\ lib'.nest = lib.nest
        /\ lib'.init_lock = lib.init_lock /\ lib'.log_lock = lib.log_lock
        /\ lib'.log = lib.log /\ lib'.ssl = lib.ssl /\ lib'.blocking = lib.blocking
        /\ lib'.ret = lib.ret /\ lib'.got = lib.got /\ lib'.written = lib.written
        /\ lib'.woken = lib.woken /\ lib'.out = lib.out /\ lib'.inits = lib.inits
        /\ lib'.lines = lib.lines
    BY <1>2, LibConstants DEF LockPool, Returns, Goes, LibShape
  <2>2. LibShape'
    BY <1>2, <2>1, ZenonT(60) DEF LibShape, LibPlaces, LockPool, Returns, Goes
  <2>3. \A u \in LibThreads \ {t} : lib'.at[u] = lib.at[u] /\ lib'.ret[u] = lib.ret[u]
    BY <2>1 DEF LibShape
  <2>4. \A u \in LibThreads \ {t} :
          (Starting(u)' <=> Starting(u)) /\ (Ending(u)' <=> Ending(u)) /\ (Inside(u)' <=> Inside(u))
    BY <2>3, OthersStay
  <2>5. (Starting(t)' <=> Starting(t)) /\ (Ending(t)' <=> Ending(t)) /\ (Inside(t)' <=> Inside(t))
    BY <2>1, SMTT(40) DEF LibShape, PoolCallers, Starting, Ending, Inside, InPool
  <2>6. PoolCallers'
    BY <2>1, <2>3 DEF LibShape, PoolCallers, InPool
  <2>7. InitLocked'
    BY <2>1, <2>4, <2>5, SMTT(40) DEF LibShape, InitLocked
  <2>8. Counted'
    BY <2>1, <2>4, <2>5, CountedKept
  <2>9. /\ lib'.at[t] = "pool_open" /\ lib'.ret[t] = lib.ret[t] /\ lib'.got[t] = lib.got[t]
        /\ \A u \in LibThreads \ {t} : lib'.got[u] = lib.got[u]
    BY <2>1 DEF LibShape
  <2>10. ~EarlyPool => /\ Starting(t) /\ lib.ret[t] = "init_ssl"
                       /\ \A u \in LibThreads \ {t} : ~Starting(u) /\ ~Ending(u)
    <3>1. SUFFICES ASSUME ~EarlyPool PROVE Starting(t)
      BY <2>1, OneAtATime DEF Starting, InPool
    <3> QED
      BY <3>1, <2>1 DEF PoolUp
  <2>11. LayersUp'
    BY <1>2, <2>1, <2>3, <2>9, <2>4, <2>5, <2>7, <2>10 DEF LayersUp, InitLocked
  <2>12. ~EarlyPool => PoolUp'
    BY <1>2, <2>1, <2>3, <2>9, <2>4, <2>5, <2>7, <2>10 DEF LibShape, PoolUp, PoolCallers, InPool,
       InitLocked
  <2>13. LineBegun'
    BY <2>1, <2>3, <2>9, SMTT(40) DEF LibShape, LineBegun
  <2> QED
    BY <2>2, <2>6, <2>7, <2>8, <2>11, <2>12, <2>13
<1> QED
  BY <1>1, <1>2

\* The pool gets its mutex and is handed to who opened it.
LEMMA OpenPoolKeeps ==
    ASSUME LibIInv, NEW t \in LibThreads, OpenPool(t) PROVE LibIInv'
<1> USE LibConstants DEF LibIInv, LibControl
<1>1. /\ lib.at[t] = "pool_open" /\ lib'.at = [lib.at EXCEPT ![t] = lib.ret[t]]
      /\ lib'.pool_lock = Nobody /\ lib'.pool = "open" /\ lib'.got = [lib.got EXCEPT ![t] = "open"]
      /\ lib'.count = lib.count /\ lib'.nest = lib.nest
      /\ lib'.init_lock = lib.init_lock /\ lib'.log_lock = lib.log_lock
      /\ lib'.log = lib.log /\ lib'.ssl = lib.ssl /\ lib'.blocking = lib.blocking
      /\ lib'.ret = lib.ret /\ lib'.written = lib.written /\ lib'.woken = lib.woken
      /\ lib'.out = lib.out /\ lib'.inits = lib.inits /\ lib'.lines = lib.lines
  BY LibConstants DEF OpenPool, Goes, LibShape
<1>2. LibShape'
  BY <1>1, ZenonT(60) DEF LibShape, LibPlaces, OpenPool, Goes
<1>3. lib.ret[t] \in {"init_ssl", "in", "out"}
  BY <1>1 DEF PoolCallers, InPool
<1>4. \A u \in LibThreads \ {t} : lib'.at[u] = lib.at[u] /\ lib'.ret[u] = lib.ret[u]
  BY <1>1 DEF LibShape
<1>5. \A u \in LibThreads \ {t} :
        (Starting(u)' <=> Starting(u)) /\ (Ending(u)' <=> Ending(u)) /\ (Inside(u)' <=> Inside(u))
  BY <1>4, OthersStay
<1>6. (Starting(t)' <=> Starting(t)) /\ (Ending(t)' <=> Ending(t)) /\ (Inside(t)' <=> Inside(t))
  BY <1>1, <1>3, ZenonT(60) DEF LibShape, PoolCallers, Starting, Ending, Inside, InPool
<1>7. PoolCallers'
  BY <1>1, <1>3, <1>4 DEF LibShape, PoolCallers, InPool
<1>8. InitLocked'
  BY <1>1, <1>5, <1>6, SMTT(40) DEF LibShape, InitLocked
<1>9. Counted'
  BY <1>1, <1>5, <1>6, CountedKept
<1>10. /\ lib'.at[t] = lib.ret[t] /\ lib'.ret[t] = lib.ret[t] /\ lib'.got[t] = "open"
       /\ \A u \in LibThreads \ {t} : lib'.got[u] = lib.got[u]
  BY <1>1 DEF LibShape
<1>11. ~EarlyPool => /\ Starting(t) /\ lib.ret[t] = "init_ssl"
                     /\ \A u \in LibThreads \ {t} : ~Starting(u) /\ ~Ending(u)
  <2>1. SUFFICES ASSUME ~EarlyPool PROVE Starting(t)
    BY <1>1, OneAtATime DEF Starting, InPool
  <2> QED
    BY <2>1, <1>1 DEF PoolUp
<1>12. LayersUp'
  BY <1>1, <1>4, <1>10, <1>5, <1>6, <1>8, <1>3, <1>11 DEF LayersUp, InitLocked
<1>13. ~EarlyPool => PoolUp'
  BY <1>1, <1>4, <1>10, <1>5, <1>6, <1>8, <1>3, <1>11, SMTT(40) DEF LibShape, PoolUp, PoolCallers, InPool,
     InitLocked
<1>14. LineBegun'
  BY <1>1, <1>4, <1>10, <1>3, SMTT(40) DEF LibShape, LineBegun
<1> QED
  BY <1>2, <1>7, <1>8, <1>9, <1>12, <1>13, <1>14

\* A step of a thread that writes moves nothing but the line.
LEMMA LineStep ==
    ASSUME LibIInv, LibShape', NEW t \in LibThreads, lib.at[t] = "log", lib'.at[t] \in {"log", "in"},
           \A u \in LibThreads \ {t} : lib'.at[u] = lib.at[u],
           lib'.ret = lib.ret, lib'.count = lib.count, lib'.nest = lib.nest,
           lib'.inits = lib.inits, lib'.init_lock = lib.init_lock,
           lib'.log = lib.log, lib'.ssl = lib.ssl, lib'.pool = lib.pool, lib'.got = lib.got
    PROVE  PoolCallers' /\ InitLocked' /\ Counted' /\ LayersUp' /\ (~EarlyPool => PoolUp')
<1> USE LibConstants DEF LibIInv, LibControl
<1>1. \A u \in LibThreads \ {t} :
        (Starting(u)' <=> Starting(u)) /\ (Ending(u)' <=> Ending(u)) /\ (Inside(u)' <=> Inside(u))
  BY OthersStay
<1>2. /\ ~Starting(t) /\ ~Ending(t) /\ Inside(t)
      /\ ~Starting(t)' /\ ~Ending(t)' /\ Inside(t)'
  BY DEF Starting, Ending, Inside, InPool
<1>3. PoolCallers'
  BY DEF PoolCallers, InPool
<1>4. InitLocked'
  BY <1>1, <1>2 DEF InitLocked
<1>5. Counted'
  BY <1>1, <1>2, CountedKept
<1>6. LayersUp'
  BY <1>1, <1>2 DEF LayersUp
<1>7. ~EarlyPool => PoolUp'
  BY <1>1, <1>2 DEF PoolUp
<1> QED
  BY <1>3, <1>4, <1>5, <1>6, <1>7

\* The last k bytes of s are t's.
EndsWith(s, k, t) == k <= Len(s) /\ \A i \in 0..(k - 1) : s[Len(s) - i] = t

Bytes(n, t) == [i \in 1..n |-> t]

\* n more bytes of t behind a sequence that ends with k of them.
LEMMA MoreBytes ==
    ASSUME NEW s \in Seq(LibThreads), NEW t \in LibThreads, NEW n \in Nat, NEW k \in Nat,
           EndsWith(s, k, t)
    PROVE  s \o Bytes(n, t) \in Seq(LibThreads) /\ EndsWith(s \o Bytes(n, t), k + n, t)
<1>1. Bytes(n, t) \in Seq(LibThreads) /\ Len(Bytes(n, t)) = n /\ \A i \in 1..n : Bytes(n, t)[i] = t
  BY DEF Bytes
<1> DEFINE bytes == Bytes(n, t)
           z == s \o bytes
<1> HIDE DEF z
<1>2. k <= Len(s) /\ \A i \in 0..(k - 1) : s[Len(s) - i] = t
  BY DEF EndsWith
<1> DEFINE m == Len(s)
<1>3. m \in Nat
  OBVIOUS
<1>4. /\ z \in Seq(LibThreads) /\ Len(z) = m + n
      /\ \A i \in 1..(m + n) : z[i] = IF i <= m THEN s[i] ELSE bytes[i - m]
  BY <1>1, ConcatProperties DEF z
<1>5. ASSUME NEW i \in 0..(k + n - 1) PROVE z[m + n - i] = t
  <2>1. i \in Nat /\ i <= k + n - 1
    BY <1>5
  <2>2. CASE i < n
    <3>1. m + n - i \in 1..(m + n) /\ ~(m + n - i <= m) /\ m + n - i - m \in 1..n
      BY <1>3, <2>1, <2>2
    <3>2. z[m + n - i] = bytes[m + n - i - m]
      BY <1>4, <3>1
    <3> QED
      BY <1>1, <3>1, <3>2
  <2>3. CASE ~(i < n)
    <3> DEFINE j == i - n
    <3>1. j \in 0..(k - 1) /\ m + n - i = m - j /\ m - j \in 1..(m + n) /\ m - j <= m
      BY <1>2, <1>3, <2>1, <2>3
    <3> HIDE DEF j
    <3> QED
      BY <1>2, <1>4, <3>1
  <2> QED
    BY <2>2, <2>3
<1>6. k + n <= Len(z)
  BY <1>2, <1>3, <1>4
<1> QED
  BY <1>4, <1>5, <1>6 DEF EndsWith, z

\* Some bytes of the line are written, perhaps the last ones.
LEMMA WriteLineKeeps ==
    ASSUME LibIInv, NEW t \in LibThreads, WriteLine(t) PROVE LibIInv'
<1> USE LibConstants DEF LibIInv, LibControl
<1>1. PICK n \in 1..(LineLen - lib.written[t]) :
        /\ lib.at[t] = "log"
        /\ LET l == [lib EXCEPT !.written[t] = @ + n, !.out = @ \o [i \in 1..n |-> t]]
           IN lib' = IF l.written[t] = LineLen THEN EndLine(l, t) ELSE l
  BY DEF WriteLine
<1> DEFINE w == lib.written[t] + n
           z == lib.out \o Bytes(n, t)
<1>2. lib.written[t] \in Nat /\ n \in Nat /\ w \in 0..LineLen
  BY <1>1, SMTT(40) DEF LibShape
<1>3. lib.out \in Seq(LibThreads) /\ EndsWith(lib.out, lib.written[t], t)
  BY <1>1 DEF LibShape, LineBegun, EndsWith
\* What is on stdout ends with what the thread has written.
<1>4. z \in Seq(LibThreads) /\ EndsWith(z, w, t)
  BY <1>2, <1>3, MoreBytes
<1> HIDE DEF w, z
<1> DEFINE l == [lib EXCEPT !.written = [lib.written EXCEPT ![t] = w], !.out = z]
<1>8. l.written[t] = w /\ lib' = IF w = LineLen THEN EndLine(l, t) ELSE l
  BY <1>1 DEF LibShape, w, z, Bytes
<1>9. CASE w = LineLen
  <2>1. lib' = [l EXCEPT !.at = [lib.at EXCEPT ![t] = "in"], !.log_lock = Nobody, !.blocking = TRUE]
    BY <1>8, <1>9 DEF EndLine, Goes, LibShape
  <2>2. /\ lib'.at = [lib.at EXCEPT ![t] = "in"] /\ lib'.log_lock = Nobody /\ lib'.blocking = TRUE
        /\ lib'.ret = lib.ret /\ lib'.count = lib.count /\ lib'.nest = lib.nest
        /\ lib'.inits = lib.inits /\ lib'.init_lock = lib.init_lock
        /\ lib'.log = lib.log /\ lib'.ssl = lib.ssl /\ lib'.pool = lib.pool /\ lib'.got = lib.got
    BY <2>1 DEF LibShape
  <2>3. LibShape'
    BY <1>2, <1>4, <2>1 DEF LibShape, LibPlaces
  <2>4. lib'.at[t] = "in" /\ \A u \in LibThreads \ {t} : lib'.at[u] = lib.at[u]
    BY <2>2 DEF LibShape
  <2>5. PoolCallers' /\ InitLocked' /\ Counted' /\ LayersUp' /\ (~EarlyPool => PoolUp')
    BY <1>1, <2>2, <2>3, <2>4, LineStep
  <2>6. \A u \in LibThreads : lib'.at[u] # "log"
    BY <1>1, <2>4 DEF LineBegun
  <2>7. LineBegun'
    BY <2>2, <2>6 DEF LineBegun
  <2> QED
    BY <2>3, <2>5, <2>7
<1>10. CASE w # LineLen
  <2>1. lib' = l
    BY <1>8, <1>10
  <2>2. /\ lib'.written = [lib.written EXCEPT ![t] = w] /\ lib'.out = z
        /\ lib'.log_lock = lib.log_lock /\ lib'.blocking = lib.blocking /\ lib'.at = lib.at
        /\ lib'.ret = lib.ret /\ lib'.count = lib.count /\ lib'.nest = lib.nest
        /\ lib'.inits = lib.inits /\ lib'.init_lock = lib.init_lock
        /\ lib'.log = lib.log /\ lib'.ssl = lib.ssl /\ lib'.pool = lib.pool /\ lib'.got = lib.got
    BY <2>1, SMTT(40) DEF LibShape
  <2>3. LibShape'
    BY <1>2, <1>4, <2>1 DEF LibShape, LibPlaces
  <2>5. PoolCallers' /\ InitLocked' /\ Counted' /\ LayersUp' /\ (~EarlyPool => PoolUp')
    BY <1>1, <2>2, <2>3, LineStep
  <2>6. /\ \A u \in LibThreads : lib'.at[u] = "log" => u = t
        /\ lib'.written[t] = w
    BY <1>1, <2>2, SMTT(60) DEF LibShape, LineBegun
  <2>7. LineBegun'
    <3>1. lib'.at[t] = "log" /\ lib.log_lock = t /\ t # Nobody
      BY <1>1, <2>2 DEF LineBegun
    <3>2. /\ \A u \in LibThreads : lib'.log_lock = u <=> lib'.at[u] = "log"
          /\ lib'.blocking <=> lib'.log_lock = Nobody
      BY <2>2, <2>6, <3>1 DEF LineBegun
    <3>3. \A u \in LibThreads : lib'.at[u] = "log" =>
            /\ lib'.written[u] <= Len(lib'.out)
            /\ \A i \in 0..(lib'.written[u] - 1) : lib'.out[Len(lib'.out) - i] = u
      BY <1>4, <2>2, <2>6 DEF EndsWith
    <3> QED
      BY <3>2, <3>3 DEF LineBegun
  <2> QED
    BY <2>3, <2>5, <2>7
<1> QED
  BY <1>9, <1>10

\* stdout takes nothing: it is woken once, then the line is given up.
LEMMA StdoutFullKeeps ==
    ASSUME LibIInv, NEW t \in LibThreads, StdoutFull(t) PROVE LibIInv'
<1> USE LibConstants DEF LibIInv, LibControl
<1>1. /\ lib.at[t] = "log"
      /\ lib' = EndLine(lib, t) \/ lib' = [lib EXCEPT !.woken[t] = TRUE]
  BY DEF StdoutFull
<1>2. CASE lib' = EndLine(lib, t)
  <2>1. lib' = [lib EXCEPT !.at = [lib.at EXCEPT ![t] = "in"], !.log_lock = Nobody, !.blocking = TRUE]
    BY <1>2 DEF EndLine, Goes, LibShape
  <2>2. /\ lib'.at = [lib.at EXCEPT ![t] = "in"] /\ lib'.log_lock = Nobody /\ lib'.blocking = TRUE
        /\ lib'.ret = lib.ret /\ lib'.count = lib.count /\ lib'.nest = lib.nest
        /\ lib'.inits = lib.inits /\ lib'.init_lock = lib.init_lock
        /\ lib'.log = lib.log /\ lib'.ssl = lib.ssl /\ lib'.pool = lib.pool /\ lib'.got = lib.got
    BY <2>1 DEF LibShape
  <2>3. LibShape'
    BY <2>1 DEF LibShape, LibPlaces
  <2>4. lib'.at[t] = "in" /\ \A u \in LibThreads \ {t} : lib'.at[u] = lib.at[u]
    BY <2>2 DEF LibShape
  <2>5. PoolCallers' /\ InitLocked' /\ Counted' /\ LayersUp' /\ (~EarlyPool => PoolUp')
    BY <1>1, <2>2, <2>3, <2>4, LineStep
  <2>6. \A u \in LibThreads : lib'.at[u] # "log"
    BY <1>1, <2>4 DEF LineBegun
  <2>7. LineBegun'
    BY <2>2, <2>6 DEF LineBegun
  <2> QED
    BY <2>3, <2>5, <2>7
<1>3. CASE lib' = [lib EXCEPT !.woken[t] = TRUE]
  <2>2. /\ lib'.written = lib.written /\ lib'.out = lib.out
        /\ lib'.log_lock = lib.log_lock /\ lib'.blocking = lib.blocking /\ lib'.at = lib.at
        /\ lib'.ret = lib.ret /\ lib'.count = lib.count /\ lib'.nest = lib.nest
        /\ lib'.inits = lib.inits /\ lib'.init_lock = lib.init_lock
        /\ lib'.log = lib.log /\ lib'.ssl = lib.ssl /\ lib'.pool = lib.pool /\ lib'.got = lib.got
    BY <1>3 DEF LibShape
  <2>3. LibShape'
    BY <1>3 DEF LibShape, LibPlaces
  <2>5. PoolCallers' /\ InitLocked' /\ Counted' /\ LayersUp' /\ (~EarlyPool => PoolUp')
    BY <1>1, <2>2, <2>3, LineStep
  <2>7. LineBegun'
    BY <2>2 DEF LineBegun
  <2> QED
    BY <2>3, <2>5, <2>7
<1> QED
  BY <1>1, <1>2, <1>3

-----------------------------------------------------------------------------
(* The theorems                                                            *)

\* The library starts in the invariant.
LEMMA InitIInv == LibInit => LibIInv
<1> SUFFICES ASSUME LibInit PROVE LibIInv
  OBVIOUS
<1> USE LibConstants DEF LibInit, NewLib
<1>1. LibShape
  BY DEF LibShape, LibPlaces
<1>2. \A t \in LibThreads : lib.at[t] = "out" /\ lib.got[t] = "null"
  OBVIOUS
<1>3. \A t \in LibThreads : ~Starting(t) /\ ~Ending(t) /\ ~Inside(t) /\ ~InPool(t)
  BY <1>2 DEF Starting, Ending, Inside, InPool
<1>4. PoolCallers /\ InitLocked
  BY <1>3 DEF PoolCallers, InitLocked
<1>5. Counted
  <2>1. Calls = {}
    <3>1. ASSUME NEW t \in LibThreads, NEW n \in 1..MaxInits PROVE ~(n <= lib.nest[t])
      OBVIOUS
    <3> QED
      BY <3>1 DEF Calls
  <2>2. lib.count = 0 /\ lib.inits = 0 /\ \A t \in LibThreads : lib.nest[t] = 0
    OBVIOUS
  <2> QED
    BY <1>3, <2>1, <2>2, FS_EmptySet DEF Counted
<1>6. LayersUp /\ PoolUp
  BY <1>2, <1>3 DEF LayersUp, PoolUp
<1>7. LineBegun
  BY <1>2 DEF LineBegun
<1> QED
  BY <1>1, <1>4, <1>5, <1>6, <1>7 DEF LibIInv, LibControl

\* Every step keeps it.
LEMMA NextIInv == LibIInv /\ [LibNext]_lib => LibIInv'
<1>1. ASSUME LibIInv, LibNext PROVE LibIInv'
  <2>1. PICK t \in LibThreads :
          InitLibrary(t) \/ ShutdownLibrary(t) \/ AskPool(t) \/ BeginLine(t) \/ LibStep(t)
    BY <1>1 DEF LibNext
  <2>2. CASE InitLibrary(t) \/ ShutdownLibrary(t) \/ AskPool(t) \/ BeginLine(t)
    BY <1>1, <2>2, InitLibraryKeeps, ShutdownLibraryKeeps, AskPoolKeeps, BeginLineKeeps
  <2>3. CASE LibStep(t)
    BY <1>1, <2>3, InitLogKeeps, InitSslKeeps, DestroySslKeeps, CloseGlobalPoolKeeps,
       ShutdownLogKeeps,
       TestPoolKeeps, LockPoolKeeps, OpenPoolKeeps, WriteLineKeeps, StdoutFullKeeps DEF LibStep
  <2> QED
    BY <2>1, <2>2, <2>3
<1>2. ASSUME LibIInv, UNCHANGED lib PROVE LibIInv'
  <2>1. LibShape' /\ PoolCallers' /\ InitLocked' /\ LayersUp' /\ LineBegun' /\ (~EarlyPool => PoolUp')
    BY <1>2 DEF LibIInv, LibControl, LibShape, PoolCallers, InitLocked, LayersUp, LineBegun, PoolUp,
                Starting, Ending, InPool
  <2>2. Counted'
    BY <1>2, CountedKept DEF LibIInv, LibControl, Starting, Ending, Inside, InPool
  <2> QED
    BY <2>1, <2>2 DEF LibIInv, LibControl
<1> QED
  BY <1>1, <1>2

\* It holds throughout.
LEMMA Invariant == LibSpec => []LibIInv
BY InitIInv, NextIInv, PTL DEF LibSpec

\* Every variable of the library keeps its type: in particular g_init_count
\* never goes below zero (ks_shutdown asserts it) nor above the number of
\* calls of ks_init, however deep the threads nest ks_init and ks_shutdown and
\* however those, ks_global_pool and the logger are interleaved.
THEOREM LibTyped == LibSpec => []LibTypeOK
<1>1. LibIInv => LibTypeOK
  <2> SUFFICES ASSUME LibIInv PROVE LibTypeOK
    OBVIOUS
  <2>1. lib.count \in 0..lib.inits
    BY LibConstants DEF LibIInv, LibControl, Counted, LibShape
  <2> QED
    BY <2>1 DEF LibIInv, LibControl, LibShape, LibTypeOK
<1> QED
  BY <1>1, Invariant, PTL

\* Lines on stdout never run into each other, and stdout is left blocking,
\* whether or not ks_global_pool is called before ks_init.
THEOREM LibLines == LibSpec => []LinesApart
<1>1. LibIInv => LinesApart
  BY DEF LibIInv, LibControl, LineBegun, LinesApart
<1> QED
  BY <1>1, Invariant, PTL

\* When the program asks for the global pool only between ks_init and
\* ks_shutdown, every thread that is inside finds the log's mutex, the OpenSSL
\* locks and an open pool, is never handed a pool without its mutex, and the
\* last ks_shutdown leaves nothing behind.  The hypothesis is what ks.c relies
\* on: ks_global_pool tests g_pool without the lock, so with an early call a
\* thread can be handed the pool before ks_pool_open has made its mutex.
THEOREM LibReady == ASSUME ~EarlyPool PROVE LibSpec => []LibSound
<1>1. LibIInv => LibSound
  <2> SUFFICES ASSUME LibIInv PROVE LibSound
    OBVIOUS
  <2> USE DEF LibIInv
  <2>1. ASSUME NEW t \in LibThreads, Inside(t)
        PROVE  lib.count > 0 /\ lib.log /\ lib.ssl /\ lib.pool = "open"
    BY <2>1, InsidersReady DEF PoolUp
  <2>2. lib.count = 0 /\ lib.init_lock = Nobody => ~lib.log /\ ~lib.ssl /\ lib.pool = "null"
    BY DEF LibControl, LayersUp, PoolUp
  <2>3. PoolWhole
    BY DEF PoolUp, PoolWhole
  <2>4. LinesApart
    BY DEF LibControl, LineBegun, LinesApart
  <2> QED
    BY <2>1, <2>2, <2>3, <2>4 DEF LibSound, LayersReady
<1> QED
  BY <1>1, Invariant, PTL

-----------------------------------------------------------------------------
(* The read-write lock (KsRwl)                                            *)

\* Who holds the pthread lock: the thread that was granted it, or one that
\* is about to remember itself in write_locker, or one that has just cleared
\* it. A thread in the middle of a call has no grant.
Holder ==
    /\ \A t \in Threads : writer = t <=> depth[t] > 0 \/ at[t] \in {"claim", "unlock"}
    /\ \A t \in Threads : at[t] # "out" => depth[t] = 0
    /\ writer # NoThread => \A u \in Threads : reads[u] = 0

RwlIInv == RwlTypeOK /\ WriterKnown /\ Holder

LEMMA RwlInitIInv == RwlInit => RwlIInv
BY NoThreadIsNone DEF RwlInit, RwlIInv, RwlTypeOK, WriterKnown, Holder

\* Every step keeps the inductive invariant.
LEMMA RwlNextIInv == RwlIInv /\ [RwlNext]_rwlVars => RwlIInv'
<1> SUFFICES ASSUME RwlIInv, [RwlNext]_rwlVars PROVE RwlIInv'
  OBVIOUS
<1> USE NoThreadIsNone, DepthBounded DEF RwlIInv, RwlTypeOK, WriterKnown, Holder, pthreadVars
<1>1. CASE UNCHANGED rwlVars
  BY <1>1 DEF rwlVars
<1>2. ASSUME NEW t \in Threads, WriteLockAgain(t) PROVE RwlIInv'
  BY <1>2 DEF WriteLockAgain, Granted
<1>3. ASSUME NEW t \in Threads, NEW call \in {"wrlock", "trywrlock"}, WriteLockLook(t, call)
      PROVE RwlIInv'
  BY <1>3 DEF WriteLockLook
<1>4. ASSUME NEW t \in Threads, WriteLockGet(t) PROVE RwlIInv'
  BY <1>4 DEF WriteLockGet, WriteFree
<1>5. ASSUME NEW t \in Threads, TryWriteLockFails(t) PROVE RwlIInv'
  BY <1>5 DEF TryWriteLockFails
<1>6. ASSUME NEW t \in Threads, WriteLockClaim(t) PROVE RwlIInv'
  BY <1>6 DEF WriteLockClaim, Granted
<1>7. ASSUME NEW t \in Threads, WriteUnlockInner(t) PROVE RwlIInv'
  BY <1>7 DEF WriteUnlockInner, GivenBack
<1>8. ASSUME NEW t \in Threads, WriteUnlockLast(t) PROVE RwlIInv'
  BY <1>8 DEF WriteUnlockLast, GivenBack
<1>9. ASSUME NEW t \in Threads, WriteUnlockRelease(t) PROVE RwlIInv'
  BY <1>9 DEF WriteUnlockRelease
<1>10. ASSUME NEW t \in Threads, ReadLock(t) PROVE RwlIInv'
  BY <1>10 DEF ReadLock, ReadFree
<1>11. ASSUME NEW t \in Threads, ReadUnlock(t) PROVE RwlIInv'
  BY <1>11 DEF ReadUnlock
<1>12. QED
  BY <1>1, <1>2, <1>3, <1>4, <1>5, <1>6, <1>7, <1>8, <1>9, <1>10, <1>11 DEF RwlNext

THEOREM RwlSpecIInv == RwlSpec => []RwlIInv
BY RwlInitIInv, RwlNextIInv, PTL DEF RwlSpec

\* write_locker, read without the lock, tells a thread the truth about
\* itself, and wlc counts its recursion.
THEOREM RwlSpecWriterKnown == RwlSpec => []WriterKnown
<1>1. RwlIInv => WriterKnown
  BY DEF RwlIInv
<1>2. QED
  BY <1>1, RwlSpecIInv, PTL

\* Every step is a step of the abstract lock or none.
LEMMA RwlStepRefines == RwlIInv /\ [RwlNext]_rwlVars => [Lock!LockNext]_<<depth, reads>>
<1> SUFFICES ASSUME RwlIInv, [RwlNext]_rwlVars PROVE [Lock!LockNext]_<<depth, reads>>
  OBVIOUS
<1> USE NoThreadIsNone DEF RwlIInv, RwlTypeOK, WriterKnown, Holder, pthreadVars, Lock!LockNext
<1>1. CASE UNCHANGED rwlVars
  BY <1>1 DEF rwlVars
<1>2. ASSUME NEW t \in Threads, WriteLockAgain(t) \/ WriteLockClaim(t)
      PROVE Lock!GrantWrite(t)
  BY <1>2 DEF WriteLockAgain, WriteLockClaim, Granted, Lock!GrantWrite, Lock!MayWrite
<1>3. ASSUME NEW t \in Threads,
             \/ WriteLockLook(t, "wrlock") \/ WriteLockLook(t, "trywrlock")
             \/ WriteLockGet(t) \/ TryWriteLockFails(t) \/ WriteUnlockRelease(t)
      PROVE UNCHANGED <<depth, reads>>
  BY <1>3 DEF WriteLockLook, WriteLockGet, TryWriteLockFails, WriteUnlockRelease
<1>4. ASSUME NEW t \in Threads, WriteUnlockInner(t) \/ WriteUnlockLast(t)
      PROVE Lock!GiveBackWrite(t)
  BY <1>4 DEF WriteUnlockInner, WriteUnlockLast, GivenBack, Lock!GiveBackWrite
<1>5. ASSUME NEW t \in Threads, ReadLock(t) PROVE Lock!GrantRead(t)
  BY <1>5 DEF ReadLock, ReadFree, Lock!GrantRead
<1>6. ASSUME NEW t \in Threads, ReadUnlock(t) PROVE Lock!GiveBackRead(t)
  BY <1>6 DEF ReadUnlock, Lock!GiveBackRead
<1>7. QED
  BY <1>1, <1>2, <1>3, <1>4, <1>5, <1>6 DEF RwlNext

\* ks_rwl implements a read-write lock with a recursive writer.
THEOREM RwlImplementsLock == RwlSpec => LockSpec
<1>1. RwlInit => Lock!LockInit
  BY DEF RwlInit, Lock!LockInit
<1>2. QED
  BY <1>1, RwlSpecIInv, RwlStepRefines, PTL DEF RwlSpec, LockSpec, Lock!LockSpec
=============================================================================
