----------------------------- MODULE KsPoolProofs -----------------------------
(***************************************************************************)
(* Proofs about KsPool, for any number of blocks and any sizes.            *)
(***************************************************************************)
EXTENDS KsPool, FiniteSetTheorems, SequenceTheorems, WellFoundedInduction, TLAPS

-----------------------------------------------------------------------------
(* The inductive invariant                                                 *)

FreeOps == {"announce", "teardown", "destroy", "unlink"}

\* What a callback was told when it has heard of the first n phases.
Said == [n \in 0 .. 3 |-> CASE n = 0 -> <<>> [] n = 1 -> <<"ANNOUNCE">>
                            [] n = 2 -> <<"ANNOUNCE", "TEARDOWN">> [] n = 3 -> Phases]

Links == Blocks \cup {NULL}
Callbacks == {NULL, "PLAIN", "TEARDOWN", "DESTROY"}
Frames == [op : Ops, b : Links]
Told3 == {Said[n] : n \in 0 .. 3}
Counters == 0 .. SizeSpan - 1

PTypes ==
    /\ next \in [Blocks -> Links] /\ prev \in [Blocks -> Links]
    /\ first \in Links /\ last \in Links
    /\ refs \in [Blocks -> 0 .. MaxRefs] /\ size \in [Blocks -> BlockSizes \cup {0}]
    /\ cleanup_callback \in [Blocks -> Callbacks]
    /\ child \in [Blocks -> Links]
    /\ live \in SUBSET Blocks
    /\ alloc_c \in Counters /\ user_alloc \in Counters
    /\ cleaning_up \in BOOLEAN /\ resizes \in 0 .. MaxResizes
    /\ stack \in Seq(Frames)
    /\ phases \in [Blocks -> Told3]
    /\ opened \in {"open", "clearing", "closing", "closed"}

\* The list counts down from pool->first to zero at pool->last.
Ends == IF live = {} THEN first = NULL /\ last = NULL ELSE first \in live /\ last \in live

Chain(rank) ==
    /\ \A b, c \in live : rank[b] = rank[c] => b = c
    /\ \A b \in live :
        /\ rank[b] <= rank[first]
        /\ next[b] = NULL => rank[b] = 0
        /\ next[b] # NULL => next[b] \in live /\ prev[next[b]] = b /\ rank[b] = rank[next[b]] + 1
        /\ prev[b] # NULL => prev[b] \in live /\ next[prev[b]] = b
        /\ prev[b] = NULL <=> first = b
        /\ next[b] = NULL <=> last = b

\* What an object frees is newer than the object.
Younger(rank) ==
    \A o \in live : child[o] # NULL => child[o] \in live /\ rank[o] < rank[child[o]]

\* In a clean-up the callbacks that the pass has behind it have heard of its
\* phase, and the others of the phases before it.
InPass(rank) ==
    \A n \in 1 .. 3 : stack # <<>> /\ stack[1].op = Phases[n] =>
        \A b \in live : cleanup_callback[b] # NULL =>
            phases[b] = IF stack[1].b # NULL /\ rank[b] <= rank[stack[1].b]
                        THEN Said[n - 1] ELSE Said[n]

Ranks == [Blocks -> Nat]

Linked == Ends /\ \E rank \in Ranks : Chain(rank) /\ Younger(rank) /\ InPass(rank)

\* A block that an object owns is referred to, and has one owner.
Owning ==
    /\ \A o \in live : child[o] # NULL => refs[child[o]] > 0
    /\ \A o, p \in live : child[o] # NULL /\ child[o] = child[p] => o = p

\* The calls in progress: frees within frees, or a clean-up with one free in it.
Calls ==
    /\ \A i \in 1 .. Len(stack) :
        /\ stack[i].b # NULL => stack[i].b \in live
        /\ stack[i].op \in FreeOps => stack[i].b # NULL
        /\ stack[i].op = "free_all" => stack[i].b = NULL /\ Len(stack) = 1
        /\ stack[i].op \notin FreeOps => i = 1 /\ cleaning_up /\ opened \in {"clearing", "closing"}
        /\ cleaning_up /\ stack[i].op \in FreeOps =>
             stack[i].op = "unlink" /\ i = Len(stack) /\ i = (IF opened = "open" THEN 1 ELSE 2)
    /\ opened \in {"clearing", "closing"} => cleaning_up /\ stack # <<>> /\ stack[1].op \notin FreeOps
    /\ opened = "closed" => stack = <<>> /\ cleaning_up

\* Each frame has a block of its own, and the blocks of the frees are those
\* without a reference.
Distinct == \A i, j \in 1 .. Len(stack) : stack[i].b # NULL /\ stack[i].b = stack[j].b => i = j

Unreferenced ==
    \A b \in live : refs[b] = 0 <=> \E i \in 1 .. Len(stack) : stack[i].op \in FreeOps /\ stack[i].b = b

\* Outside a clean-up only the callbacks of blocks that are being freed have
\* heard of anything.
Heard ==
    /\ cleaning_up /\ opened \in {"open", "closed"} => \A b \in live : phases[b] = Said[0]
    /\ ~cleaning_up =>
        /\ \A b \in live : refs[b] # 0 => phases[b] = Said[0]
        /\ \A i \in 1 .. Len(stack) :
            /\ stack[i].op = "announce" => phases[stack[i].b] = Said[0]
            /\ stack[i].op = "teardown" => phases[stack[i].b] = Said[1]
            /\ stack[i].op = "destroy" => phases[stack[i].b] = Said[2]
            /\ stack[i].op = "unlink" /\ cleanup_callback[stack[i].b] # NULL =>
                 phases[stack[i].b] = Said[3]

PoolIInv == PTypes /\ Linked /\ Owning /\ Calls /\ Distinct /\ Unreferenced /\ Heard /\ StatsExact

-----------------------------------------------------------------------------
(* The operators                                                           *)

\* A set of numbers that is not empty has a least one.
LEMMA Least ==
    ASSUME NEW S, S \subseteq Nat, S # {}
    PROVE  \E x \in S : \A y \in S : x <= y
<1>1. \E x \in S : \A y \in S : ~(<<y, x>> \in OpToRel(<, Nat))
  BY NatLessThanWellFounded, WFMin
<1>2. \A x, y \in Nat : <<y, x>> \in OpToRel(<, Nat) <=> y < x
  BY DEF OpToRel
<1>3. \E R : /\ \E x \in S : \A y \in S : ~(<<y, x>> \in R)
             /\ \A x, y \in Nat : <<y, x>> \in R <=> y < x
  BY <1>1, <1>2, Zenon
<1>4. PICK R : /\ \E x \in S : \A y \in S : ~(<<y, x>> \in R)
               /\ \A x, y \in Nat : <<y, x>> \in R <=> y < x
  BY <1>3
<1>5. PICK x \in S : \A y \in S : ~(<<y, x>> \in R)
  BY <1>4
<1>6. ASSUME NEW y \in S PROVE x <= y
  <2>1. x \in Nat /\ y \in Nat /\ ~(y < x)
    BY <1>4, <1>5
  <2> QED
    BY <2>1
<1> QED
  BY <1>6

\* What a step needs to know of the constants.
LEMMA Nothing ==
    /\ NULL \notin Blocks /\ Blocks \subseteq Nat /\ "ANNOUNCE" \notin Callbacks
    /\ Blocks \subseteq Links /\ NULL \in Links /\ IsFiniteSet(Blocks)
<1>3. MaxBlocks \in Nat
  BY BlocksBounded
<1>1. NULL \notin Blocks /\ Blocks \subseteq Nat
  BY <1>3, NullIsNone DEF Blocks
<1>2. IsFiniteSet(Blocks)
  BY <1>3, FS_Interval DEF Blocks
<1> QED
  BY <1>1, <1>2, NullIsNone DEF Callbacks, Links

\* malloc and realloc give a block that is not in use.
LEMMA FreeIs ==
    ASSUME live \in SUBSET Blocks, live # Blocks
    PROVE  Free \in Blocks /\ Free \notin live
<1>1. Blocks \ live \subseteq Nat
  BY Nothing
<1>3. Blocks \ live # {}
  OBVIOUS
<1>2. \E b \in Blocks \ live : \A c \in Blocks \ live : b <= c
  BY <1>1, <1>3, Least
<1> QED
  BY <1>2 DEF Free

\* The phases are told one after the other.
LEMMA PhaseNames ==
    /\ Phases[1] = "ANNOUNCE" /\ Phases[2] = "TEARDOWN" /\ Phases[3] = "DESTROY"
    /\ \A n \in 1 .. 3 : Phases[n] \in Passes /\ Phases[n] \notin FreeOps /\ Phases[n] # "free_all"
    /\ \A p \in Passes : \E n \in 1 .. 3 : p = Phases[n]
    /\ \A n, m \in 1 .. 3 : Phases[n] = Phases[m] => n = m
<1>1. Phases[1] = "ANNOUNCE" /\ Phases[2] = "TEARDOWN" /\ Phases[3] = "DESTROY"
  BY DEF Phases
<1>2. \A n \in 1 .. 3 : n = 1 \/ n = 2 \/ n = 3
  OBVIOUS
<1> QED
  BY <1>1, <1>2 DEF Passes, FreeOps

\* Appending to a tuple.
LEMMA Tuples ==
    ASSUME NEW x, NEW y, NEW z
    PROVE  Append(<<>>, x) = <<x>> /\ Append(<<x>>, y) = <<x, y>> /\ Append(<<x, y>>, z) = <<x, y, z>>
<1> DEFINE S == {x, y, z}
<1>1. <<>> \in Seq(S) /\ <<x>> \in Seq(S) /\ <<x, y>> \in Seq(S) /\ <<x, y, z>> \in Seq(S)
  OBVIOUS
<1>2. /\ Append(<<>>, x) \in Seq(S) /\ Append(<<x>>, y) \in Seq(S)
      /\ Append(<<x, y>>, z) \in Seq(S)
  BY <1>1
<1>3. Append(<<>>, x) = <<x>>
  OBVIOUS
<1>4. Append(<<x>>, y) = <<x, y>>
  <2>1. Len(Append(<<x>>, y)) = 2 /\ Append(<<x>>, y)[1] = x /\ Append(<<x>>, y)[2] = y
    BY <1>1
  <2>2. Len(<<x, y>>) = 2 /\ <<x, y>>[1] = x /\ <<x, y>>[2] = y
    OBVIOUS
  <2>3. \A i \in 1 .. 2 : Append(<<x>>, y)[i] = <<x, y>>[i]
    BY <2>1, <2>2
  <2> QED
    BY <1>1, <1>2, <2>1, <2>2, <2>3, SeqEqual
<1>5. Append(<<x, y>>, z) = <<x, y, z>>
  <2>1. /\ Len(Append(<<x, y>>, z)) = 3 /\ Append(<<x, y>>, z)[1] = x
        /\ Append(<<x, y>>, z)[2] = y /\ Append(<<x, y>>, z)[3] = z
    BY <1>1
  <2>2. Len(<<x, y, z>>) = 3 /\ <<x, y, z>>[1] = x /\ <<x, y, z>>[2] = y /\ <<x, y, z>>[3] = z
    OBVIOUS
  <2>3. \A i \in 1 .. 3 : Append(<<x, y>>, z)[i] = <<x, y, z>>[i]
    BY <2>1, <2>2
  <2> QED
    BY <1>1, <1>2, <2>1, <2>2, <2>3, SeqEqual
<1> QED
  BY <1>3, <1>4, <1>5

\* What is said, phase by phase.
LEMMA SaidIs ==
    /\ Said[0] = <<>> /\ Said[1] = <<"ANNOUNCE">> /\ Said[2] = <<"ANNOUNCE", "TEARDOWN">>
    /\ Said[3] = Phases
BY DEF Said

\* The first phases.
LEMMA Prefixes == \A n \in 0 .. 3 : SubSeq(Phases, 1, n) = Said[n]
<1> DEFINE S == {"ANNOUNCE", "TEARDOWN", "DESTROY"}
<1>1. \A x \in S, y \in S, z \in S : <<x>> \in Seq(S) /\ <<x, y>> \in Seq(S) /\ <<x, y, z>> \in Seq(S)
  OBVIOUS
<1>2. /\ Phases \in Seq(S) /\ Len(Phases) = 3 /\ Phases[1] = "ANNOUNCE"
      /\ Phases[2] = "TEARDOWN" /\ Phases[3] = "DESTROY"
  BY <1>1 DEF Phases
<1>3. ASSUME NEW n \in 1 .. 3, NEW s \in Seq(S), Len(s) = n, \A i \in 1 .. n : s[i] = Phases[i]
      PROVE  SubSeq(Phases, 1, n) = s
  <2>1. SubSeq(Phases, 1, n) \in Seq(S) /\ Len(SubSeq(Phases, 1, n)) = n
    BY <1>2
  <2>2. \A i \in 1 .. n : SubSeq(Phases, 1, n)[i] = Phases[i]
    BY <1>2
  <2> QED
    BY <1>3, <2>1, <2>2, SeqEqual
<1>4. SubSeq(Phases, 1, 0) = Said[0]
  BY SaidIs DEF Phases
<1>5. SubSeq(Phases, 1, 1) = Said[1]
  <2>1. /\ Said[1] \in Seq(S) /\ Len(Said[1]) = 1 /\ Said[1][1] = "ANNOUNCE"
    BY <1>1, SaidIs
  <2>2. \A i \in 1 .. 1 : Said[1][i] = Phases[i]
    BY <1>2, <2>1
  <2> QED
    BY <1>3, <2>1, <2>2
<1>6. SubSeq(Phases, 1, 2) = Said[2]
  <2>1. /\ Said[2] \in Seq(S) /\ Len(Said[2]) = 2 /\ Said[2][1] = "ANNOUNCE"
        /\ Said[2][2] = "TEARDOWN"
    BY <1>1, SaidIs
  <2>2. \A i \in 1 .. 2 : Said[2][i] = Phases[i]
    BY <1>2, <2>1
  <2> QED
    BY <1>3, <2>1, <2>2
<1>7. SubSeq(Phases, 1, 3) = Said[3]
  BY <1>2, <1>3, SaidIs
<1>8. \A n \in 0 .. 3 : n = 0 \/ n = 1 \/ n = 2 \/ n = 3
  OBVIOUS
<1> QED
  BY <1>4, <1>5, <1>6, <1>7, <1>8

\* A callback that has heard of the phases before this one, hears of this one.
LEMMA SaidNext ==
    /\ Append(Said[0], "ANNOUNCE") = Said[1] /\ Append(Said[1], "TEARDOWN") = Said[2]
    /\ Append(Said[2], "DESTROY") = Said[3]
    /\ \A n \in 1 .. 3 : Append(Said[n - 1], Phases[n]) = Said[n]
    /\ \A n \in 0 .. 3 : Said[n] \in Told3
<1>1. Append(Said[0], "ANNOUNCE") = Said[1]
  BY SaidIs, Tuples
<1>2. Append(Said[1], "TEARDOWN") = Said[2]
  BY SaidIs, Tuples
<1>3. Append(Said[2], "DESTROY") = Said[3]
  BY SaidIs, Tuples DEF Phases
<1>4. \A n \in 1 .. 3 : n = 1 \/ n = 2 \/ n = 3
  OBVIOUS
<1>5. \A n \in 0 .. 3 : Said[n] \in Told3
  BY DEF Told3
<1> QED
  BY <1>1, <1>2, <1>3, <1>4, <1>5, PhaseNames

\* The innermost call and those below it.
LEMMA BelowIs ==
    ASSUME stack \in Seq(Frames), stack # <<>>
    PROVE  /\ Len(stack) \in Nat \ {0} /\ Top \in Frames
           /\ Below \in Seq(Frames) /\ Len(Below) = Len(stack) - 1
           /\ \A i \in 1 .. Len(stack) - 1 : Below[i] = stack[i]
<1>1. Len(stack) \in Nat \ {0} /\ Top \in Frames
  BY DEF Top
<1> DEFINE n == Len(stack) - 1
<1>2. n \in 0 .. Len(stack) /\ Below = SubSeq(stack, 1, n)
  BY <1>1 DEF Below
<1> HIDE DEF n
<1>3. SubSeq(stack, 1, n) \in Seq(Frames) /\ Len(SubSeq(stack, 1, n)) = n
  BY <1>2
<1>4. \A i \in 1 .. n : SubSeq(stack, 1, n)[i] = stack[i]
  BY <1>2
<1> QED
  BY <1>1, <1>2, <1>3, <1>4 DEF n

\* One more call.
LEMMA PushIs ==
    ASSUME NEW s \in Seq(Frames), NEW f \in Frames
    PROVE  /\ Append(s, f) \in Seq(Frames) /\ Len(Append(s, f)) = Len(s) + 1
           /\ Append(s, f)[Len(s) + 1] = f
           /\ \A i \in 1 .. Len(s) : Append(s, f)[i] = s[i]
           /\ Len(s) \in Nat
OBVIOUS

-----------------------------------------------------------------------------
(* Sums                                                                    *)

\* The sum over the blocks is the last of the partial sums.
LEMMA TotalIs ==
    ASSUME NEW z \in [Blocks -> Nat]
    PROVE  \E f \in [0 .. MaxBlocks -> Nat] :
             /\ f[0] = 0 /\ Total(z) = f[MaxBlocks]
             /\ \A n \in 1 .. MaxBlocks : f[n] = f[n - 1] + z[n]
<1> DEFINE Partial(f, m) == /\ f \in [0 .. m -> Nat] /\ f[0] = 0
                            /\ \A n \in 1 .. m : f[n] = f[n - 1] + z[n]
           S == {m \in 0 .. MaxBlocks : ~\E f : Partial(f, m)}
<1>1. MaxBlocks \in Nat
  BY BlocksBounded
<1>2. S = {}
  <2> SUFFICES ASSUME S # {} PROVE FALSE
    OBVIOUS
  <2>1. S \subseteq Nat
    BY <1>1
  <2>2. PICK m \in S : \A k \in S : m <= k
    <3> HIDE DEF S
    <3> QED
      BY <2>1, Least
  <2>3. m \in 0 .. MaxBlocks /\ ~\E f : Partial(f, m)
    OBVIOUS
  <2>4. CASE m = 0
    <3>1. Partial([n \in 0 .. 0 |-> 0], 0)
      OBVIOUS
    <3> QED
      BY <2>3, <2>4, <3>1
  <2>5. CASE m # 0
    <3>0. m \in Nat /\ m - 1 \in 0 .. MaxBlocks /\ ~(m <= m - 1)
      BY <1>1, <2>3, <2>5
    <3>1. m - 1 \in 0 .. MaxBlocks /\ m - 1 \notin S
      <4> HIDE DEF S
      <4> QED
        BY <2>2, <3>0
    <3>2. PICK f : Partial(f, m - 1)
      BY <3>1
    <3> DEFINE g == [n \in 0 .. m |-> IF n = m THEN f[m - 1] + z[m] ELSE f[n]]
    <3>3. m \in Blocks /\ m - 1 \in 0 .. m - 1 /\ m \in Nat
      BY <1>1, <2>3, <2>5 DEF Blocks
    <3>4. f \in [0 .. m - 1 -> Nat] /\ z[m] \in Nat /\ f[m - 1] \in Nat
      BY <3>2, <3>3
    <3>5. g \in [0 .. m -> Nat]
      BY <3>3, <3>4
    <3>6. g[0] = 0 /\ g[m] = g[m - 1] + z[m]
      BY <2>5, <3>2, <3>3
    <3>7. \A n \in 1 .. m - 1 : g[n] = g[n - 1] + z[n]
      BY <3>2, <3>3
    <3>8. \A n \in 1 .. m : n = m \/ n \in 1 .. m - 1
      BY <3>3
    <3> HIDE DEF g
    <3>9. Partial(g, m)
      BY <3>5, <3>6, <3>7, <3>8
    <3> QED
      BY <2>3, <3>9
  <2> QED
    BY <2>4, <2>5
<1>3. PICK f : Partial(f, MaxBlocks)
  BY <1>1, <1>2
<1> DEFINE Sums(h) == h = [n \in 0 .. MaxBlocks |-> IF n = 0 THEN 0 ELSE h[n - 1] + z[n]]
           c == CHOOSE h : Sums(h)
<1>4. Sums(f)
  BY <1>1, <1>3 DEF Blocks
<1>5. Sums(c)
  BY <1>4
<1>6. Total(z) = c[MaxBlocks]
  BY DEF Total
<1> HIDE DEF c
<1> DEFINE T == {n \in 0 .. MaxBlocks : c[n] # f[n]}
<1>7. T = {}
  <2> SUFFICES ASSUME T # {} PROVE FALSE
    OBVIOUS
  <2>1. T \subseteq Nat
    BY <1>1
  <2>2. PICK m \in T : \A k \in T : m <= k
    <3> HIDE DEF T
    <3> QED
      BY <2>1, Least
  <2>3. m \in 0 .. MaxBlocks /\ c[m] # f[m]
    OBVIOUS
  <2>4. c[m] = (IF m = 0 THEN 0 ELSE c[m - 1] + z[m]) /\ f[m] = (IF m = 0 THEN 0 ELSE f[m - 1] + z[m])
    BY <1>4, <1>5, <2>3
  <2>5. m # 0 /\ m - 1 \in 0 .. MaxBlocks /\ m - 1 \notin T
    BY <1>1, <2>2, <2>3, <2>4
  <2> QED
    BY <2>3, <2>4, <2>5
<1>8. MaxBlocks \in 0 .. MaxBlocks
  BY <1>1
<1>9. c[MaxBlocks] = f[MaxBlocks]
  BY <1>7, <1>8
<1> QED
  BY <1>3, <1>6, <1>9

\* The sizes of blocks are numbers.
LEMMA SizesAreNat == BlockSizes \cup {0} \subseteq Nat
BY SizesPositive

\* When the number of one block changes, so does the sum.
LEMMA TotalChanges ==
    ASSUME NEW z \in [Blocks -> Nat], NEW w \in [Blocks -> Nat], NEW b \in Blocks,
           \A n \in Blocks : n # b => w[n] = z[n]
    PROVE  Total(z) \in Nat /\ Total(w) \in Nat /\ Total(w) = Total(z) - z[b] + w[b]
<1>1. MaxBlocks \in Nat /\ b \in 1 .. MaxBlocks
  BY BlocksBounded DEF Blocks
<1>2. PICK f \in [0 .. MaxBlocks -> Nat] :
        /\ f[0] = 0 /\ Total(z) = f[MaxBlocks]
        /\ \A n \in 1 .. MaxBlocks : f[n] = f[n - 1] + z[n]
  BY TotalIs
<1>3. PICK g \in [0 .. MaxBlocks -> Nat] :
        /\ g[0] = 0 /\ Total(w) = g[MaxBlocks]
        /\ \A n \in 1 .. MaxBlocks : g[n] = g[n - 1] + w[n]
  BY TotalIs
<1> DEFINE Right(n) == g[n] = IF n < b THEN f[n] ELSE f[n] - z[b] + w[b]
           S == {n \in 0 .. MaxBlocks : ~Right(n)}
<1>4. S = {}
  <2> SUFFICES ASSUME S # {} PROVE FALSE
    OBVIOUS
  <2>1. S \subseteq Nat
    BY <1>1
  <2>2. PICK m \in S : \A k \in S : m <= k
    <3> HIDE DEF S
    <3> QED
      BY <2>1, Least
  <2>3. m \in 0 .. MaxBlocks /\ ~Right(m)
    OBVIOUS
  <2>4. m # 0
    BY <1>1, <1>2, <1>3, <2>3
  <2>5. m \in 1 .. MaxBlocks /\ m - 1 \in 0 .. MaxBlocks /\ m - 1 \notin S
    BY <1>1, <2>2, <2>3, <2>4, SMTT(40)
  <2>6. Right(m - 1)
    BY <2>5
  <2>7. /\ f[m] = f[m - 1] + z[m] /\ g[m] = g[m - 1] + w[m] /\ m \in Blocks
        /\ f[m] \in Nat /\ f[m - 1] \in Nat /\ g[m] \in Nat /\ g[m - 1] \in Nat
        /\ z[m] \in Nat /\ w[m] \in Nat /\ z[b] \in Nat /\ w[b] \in Nat
    BY <1>1, <1>2, <1>3, <2>5 DEF Blocks
  <2>8. m # b => w[m] = z[m]
    BY <2>7
  <2>9. m \in Nat /\ b \in Nat
    BY <1>1, <2>5
  <2>10. CASE m < b
    BY <2>3, <2>6, <2>7, <2>8, <2>9, <2>10
  <2>11. CASE m = b
    BY <2>3, <2>6, <2>7, <2>9, <2>11
  <2>12. CASE m > b
    <3>1. ~(m - 1 < b) /\ ~(m < b) /\ w[m] = z[m]
      BY <2>8, <2>9, <2>12
    <3>2. g[m - 1] = f[m - 1] - z[b] + w[b]
      BY <2>6, <3>1
    <3>3. g[m] = f[m] - z[b] + w[b]
      <4>1. \A f0, g0, x, y, v \in Int : g0 = f0 - x + y => g0 + v = (f0 + v) - x + y
        OBVIOUS
      <4>2. g[m - 1] + z[m] = (f[m - 1] + z[m]) - z[b] + w[b]
        <5>1. /\ f[m - 1] \in Int /\ g[m - 1] \in Int
              /\ z[m] \in Int /\ z[b] \in Int /\ w[b] \in Int
          BY <2>7
        <5> QED
          BY <3>2, <4>1, <5>1, SMTT(40)
      <4> QED
        BY <2>7, <3>1, <4>2
    <3> QED
      BY <2>3, <3>1, <3>3
  <2> QED
    BY <2>9, <2>10, <2>11, <2>12
<1>5. Right(MaxBlocks)
  <2>1. MaxBlocks \in 0 .. MaxBlocks
    BY <1>1
  <2> QED
    BY <1>4, <2>1
<1> QED
  BY <1>1, <1>2, <1>3, <1>5

\* A sum of numbers up to s.
LEMMA TotalBounded ==
    ASSUME NEW z \in [Blocks -> Nat], NEW s \in Nat, \A n \in Blocks : z[n] <= s
    PROVE  Total(z) \in Nat /\ Total(z) <= MaxBlocks * s
<1>1. MaxBlocks \in Nat
  BY BlocksBounded
<1>2. PICK f \in [0 .. MaxBlocks -> Nat] :
        /\ f[0] = 0 /\ Total(z) = f[MaxBlocks]
        /\ \A n \in 1 .. MaxBlocks : f[n] = f[n - 1] + z[n]
  BY TotalIs
<1> DEFINE S == {n \in 0 .. MaxBlocks : ~(f[n] <= n * s)}
<1>3. S = {}
  <2> SUFFICES ASSUME S # {} PROVE FALSE
    OBVIOUS
  <2>1. S \subseteq Nat
    BY <1>1
  <2>2. PICK m \in S : \A k \in S : m <= k
    <3> HIDE DEF S
    <3> QED
      BY <2>1, Least
  <2>3. m \in 0 .. MaxBlocks /\ ~(f[m] <= m * s)
    OBVIOUS
  <2>4. m # 0
    <3>1. 0 * s = 0
      OBVIOUS
    <3> QED
      BY <1>2, <2>3, <3>1
  <2>5. m \in 1 .. MaxBlocks /\ m - 1 \in 0 .. MaxBlocks /\ m - 1 \notin S
    BY <1>1, <2>2, <2>3, <2>4
  <2>6. f[m - 1] <= (m - 1) * s
    BY <2>5
  <2>7. /\ f[m] = f[m - 1] + z[m] /\ m \in Blocks
        /\ f[m] \in Nat /\ f[m - 1] \in Nat /\ z[m] \in Nat /\ z[m] <= s
    BY <1>1, <1>2, <2>5 DEF Blocks
  <2>8. (m - 1) * s + s = m * s /\ (m - 1) * s \in Int /\ m * s \in Int
    BY <2>5, <1>1
  <2> QED
    BY <2>3, <2>6, <2>7, <2>8
<1>4. f[MaxBlocks] <= MaxBlocks * s /\ f[MaxBlocks] \in Nat
  BY <1>1, <1>3
<1> QED
  BY <1>2, <1>4

\* Without blocks there are no bytes.
LEMMA NoBytes == SizesOf({}) = 0
<1> DEFINE z == [b \in Blocks |-> IF b \in {} THEN size[b] ELSE 0]
<1>1. z \in [Blocks -> Nat] /\ \A n \in Blocks : z[n] <= 0
  OBVIOUS
<1>2. SizesOf({}) = Total(z)
  BY DEF SizesOf
<1> HIDE DEF z
<1>3. Total(z) \in Nat /\ Total(z) <= MaxBlocks * 0 /\ MaxBlocks * 0 = 0
  BY <1>1, TotalBounded, BlocksBounded
<1> QED
  BY <1>2, <1>3

-----------------------------------------------------------------------------
(* Every step keeps the invariant                                          *)

\* An empty pool.
LEMMA PoolInit == MemInit => PoolIInv
<1> SUFFICES ASSUME MemInit PROVE PoolIInv
  OBVIOUS
<1>1. stack = <<>> /\ Len(stack) = 0 /\ live = {}
  BY DEF MemInit
<1>2. PTypes
  <2>1. /\ [b \in Blocks |-> NULL] \in [Blocks -> Links] /\ NULL \in Links
        /\ [b \in Blocks |-> NULL] \in [Blocks -> Callbacks]
        /\ [b \in Blocks |-> 0] \in [Blocks -> 0 .. MaxRefs]
        /\ [b \in Blocks |-> 0] \in [Blocks -> BlockSizes \cup {0}]
    BY Nothing, BlocksBounded DEF Callbacks
  <2>2. [b \in Blocks |-> <<>>] \in [Blocks -> Told3]
    BY SaidIs, SaidNext
  <2>3. 0 \in Counters /\ 0 \in 0 .. MaxResizes
    BY CountersHoldAll, BlocksBounded DEF Counters
  <2>4. {} \in SUBSET Blocks /\ FALSE \in BOOLEAN /\ <<>> \in Seq(Frames)
    OBVIOUS
  <2> QED
    BY <2>1, <2>2, <2>3, <2>4, Zenon DEF MemInit, PTypes
<1>3. Linked
  <2>1. [b \in Blocks |-> 0] \in Ranks
    BY DEF Ranks
  <2> QED
    BY <1>1, <2>1 DEF MemInit, Linked, Ends, Chain, Younger, InPass
<1>4. Owning /\ Calls /\ Distinct /\ Unreferenced /\ Heard
  BY <1>1 DEF MemInit, Owning, Calls, Distinct, Unreferenced, Heard
<1>5. StatsExact
  <2>1. alloc_c = Cardinality(live)
    BY <1>1, FS_EmptySet DEF MemInit
  <2>2. SizesOf(live) = 0
    BY <1>1, NoBytes
  <2> QED
    BY <2>1, <2>2 DEF MemInit, StatsExact
<1> QED
  BY <1>2, <1>3, <1>4, <1>5 DEF PoolIInv

\* Between two calls every block is referred to and no callback has heard of anything.
LEMMA IdleIs ==
    ASSUME PoolIInv, Idle
    PROVE  /\ stack = <<>> /\ Len(stack) = 0 /\ opened = "open"
           /\ \A b \in live : refs[b] # 0 /\ phases[b] = Said[0]
BY DEF PoolIInv, Idle, Unreferenced, Heard, PTypes

\* Without a call in progress there is nothing to say of the calls.
LEMMA NoCalls ==
    ASSUME stack' = <<>>, opened' = "open"
    PROVE  Calls' /\ Distinct' /\ \A rank \in Ranks : InPass(rank)'
<1>1. Len(stack') = 0
  OBVIOUS
<1> QED
  BY <1>1 DEF Calls, Distinct, InPass

\* The list and what is owned in it stay as they are.
LEMMA SameList ==
    ASSUME Linked, UNCHANGED <<links, live, child>>, \A rank \in Ranks : InPass(rank)'
    PROVE  Linked'
<1>1. PICK rank \in Ranks : Chain(rank) /\ Younger(rank)
  BY DEF Linked
<1>2. Chain(rank)' /\ Younger(rank)' /\ Ends'
  BY <1>1 DEF Linked, Chain, Younger, Ends, links
<1> QED
  BY <1>1, <1>2 DEF Linked

\* The counters and what they count stay as they are.
LEMMA SameStats ==
    ASSUME StatsExact, UNCHANGED <<stats, size, live, cleaning_up, resizes>>
    PROVE  StatsExact'
<1>1. SizesOf(live)' = SizesOf(live)
  BY DEF SizesOf
<1> QED
  BY <1>1 DEF StatsExact, stats

\* ks_pool_ref.
LEMMA RefKeeps ==
    ASSUME PoolIInv, NEW b \in Blocks, ks_pool_ref(b) PROVE PoolIInv'
<1>1. /\ b \in live /\ refs[b] < MaxRefs /\ refs' = [refs EXCEPT ![b] = refs[b] + 1]
      /\ UNCHANGED <<links, size, cleanup_callback, child, live, stats, cleaning_up, stack,
                     phases, opened, resizes>>
  BY DEF ks_pool_ref
<1>2. /\ stack = <<>> /\ Len(stack) = 0 /\ opened = "open"
      /\ \A c \in live : refs[c] # 0 /\ phases[c] = Said[0]
  BY IdleIs DEF ks_pool_ref
<1>3. PTypes /\ live \subseteq Blocks
  BY DEF PoolIInv, PTypes
<1>4. refs' \in [Blocks -> 0 .. MaxRefs] /\ \A c \in live : refs'[c] > 0
  BY <1>1, <1>2, <1>3, BlocksBounded DEF PTypes
<1>5. PTypes'
  BY <1>1, <1>3, <1>4 DEF PTypes, links, stats
<1>6. Calls' /\ Distinct' /\ Linked'
  BY <1>1, <1>2, NoCalls, SameList DEF PoolIInv
<1>7. Owning'
  BY <1>1, <1>4 DEF PoolIInv, Owning, Linked, Younger
<1>8. Unreferenced' /\ Heard'
  BY <1>1, <1>2, <1>3, <1>4 DEF Unreferenced, Heard
<1>9. StatsExact'
  BY <1>1, SameStats DEF PoolIInv
<1> QED
  BY <1>5, <1>6, <1>7, <1>8, <1>9 DEF PoolIInv

\* The blocks that come before b in the list have a higher rank.
LEMMA NewerIs ==
    ASSUME PTypes, NEW rank \in Ranks, Chain(rank), NEW b \in live, NEW c \in Newer(b)
    PROVE  c \in live /\ rank[c] > rank[b]
<1> DEFINE S == {d \in live : rank[d] > rank[b]}
<1>1. live \subseteq Blocks /\ \A d \in live : rank[d] \in Nat
  BY DEF PTypes, Ranks
<1>2. ASSUME NEW d \in live, next[d] \in S \cup {b} PROVE d \in S
  <2>1. next[d] \in live /\ rank[next[d]] >= rank[b] /\ next[d] # NULL
    <3>1. CASE next[d] = b
      BY <1>1, <3>1, Nothing
    <3>2. CASE next[d] \in S
      <4>1. next[d] \in live /\ rank[next[d]] > rank[b]
        BY <3>2
      <4>2. rank[next[d]] \in Nat /\ rank[b] \in Nat /\ next[d] # NULL
        BY <1>1, <4>1, Nothing
      <4> QED
        BY <4>1, <4>2
    <3> QED
      BY <1>2, <3>1, <3>2
  <2>2. rank[d] = rank[next[d]] + 1
    BY <2>1 DEF Chain
  <2> QED
    BY <1>1, <2>1, <2>2
<1>3. {d \in live : next[d] \in S \cup {b}} \subseteq S /\ S \in SUBSET live
  BY <1>2
<1> HIDE DEF S
<1>4. c \in live /\ c \in S
  BY <1>3 DEF Newer
<1> QED
  BY <1>4 DEF S

\* ks_pool_set_cleanup and ks_pool_remove_cleanup.
LEMMA CleanupKeeps ==
    ASSUME PoolIInv, NEW b \in live, NEW callback \in Callbacks, NEW c \in Links, Idle,
           c # NULL => c \in Newer(b) \ Owned,
           cleanup_callback' = [cleanup_callback EXCEPT ![b] = callback],
           child' = [child EXCEPT ![b] = c],
           UNCHANGED <<links, refs, size, live, stats, cleaning_up, stack, phases, opened, resizes>>
    PROVE  PoolIInv'
<1>1. /\ stack = <<>> /\ Len(stack) = 0 /\ opened = "open"
      /\ \A d \in live : refs[d] # 0 /\ phases[d] = Said[0]
  BY IdleIs
<1>2. PTypes /\ live \subseteq Blocks
  BY DEF PoolIInv, PTypes
<1>3. PTypes'
  BY <1>2 DEF PTypes, links, stats
<1>4. Calls' /\ Distinct' /\ \A rank \in Ranks : InPass(rank)'
  BY <1>1, NoCalls
<1>5. PICK rank \in Ranks : Chain(rank) /\ Younger(rank) /\ Ends
  BY DEF PoolIInv, Linked
<1>6. c # NULL => c \in live /\ rank[c] > rank[b]
  BY <1>2, <1>5, NewerIs
<1>7. \A d \in live : rank[d] \in Nat
  BY <1>2 DEF Ranks
<1>8. Linked'
  <2>1. Chain(rank)' /\ Ends'
    BY <1>5 DEF Chain, Ends, links
  <2>2. Younger(rank)'
    BY <1>2, <1>5, <1>6, <1>7 DEF Younger, PTypes
  <2> QED
    BY <1>4, <2>1, <2>2 DEF Linked
<1>9. Owning'
  <2>1. \A o \in live : child'[o] = IF o = b THEN c ELSE child[o]
    BY <1>2 DEF PTypes
  <2>2. \A o \in live : c # NULL => child[o] # c
    BY <1>6 DEF Owned
  <2>3. \A o \in live : child'[o] # NULL => refs[child'[o]] > 0
    <3> SUFFICES ASSUME NEW o \in live, child'[o] # NULL PROVE refs[child'[o]] > 0
      OBVIOUS
    <3>1. child'[o] \in live
      BY <1>5, <1>6, <2>1 DEF Younger
    <3> QED
      BY <1>1, <1>2, <3>1, BlocksBounded DEF PTypes
  <2>4. \A o, p \in live : child'[o] # NULL /\ child'[o] = child'[p] => o = p
    BY <2>1, <2>2 DEF PoolIInv, Owning
  <2> QED
    BY <2>3, <2>4 DEF Owning
<1>10. Unreferenced' /\ Heard'
  BY <1>1, <1>2 DEF PoolIInv, Unreferenced, Heard
<1>11. StatsExact'
  BY SameStats DEF PoolIInv
<1> QED
  BY <1>3, <1>4, <1>8, <1>9, <1>10, <1>11 DEF PoolIInv

\* The innermost call is replaced: what is below it stays.
LEMMA ReplaceIs ==
    ASSUME stack \in Seq(Frames), stack # <<>>, NEW f \in Frames
    PROVE  /\ Append(Below, f) \in Seq(Frames) /\ Len(Append(Below, f)) = Len(stack)
           /\ Append(Below, f)[Len(stack)] = f
           /\ \A i \in 1 .. Len(stack) : i # Len(stack) => Append(Below, f)[i] = stack[i]
           /\ Len(stack) \in Nat \ {0}
<1>1. /\ Len(stack) \in Nat \ {0} /\ Below \in Seq(Frames) /\ Len(Below) = Len(stack) - 1
      /\ \A i \in 1 .. Len(stack) - 1 : Below[i] = stack[i]
  BY BelowIs
<1>2. /\ Append(Below, f) \in Seq(Frames) /\ Len(Append(Below, f)) = Len(Below) + 1
      /\ Append(Below, f)[Len(Below) + 1] = f
      /\ \A i \in 1 .. Len(Below) : Append(Below, f)[i] = Below[i]
  BY <1>1, PushIs
<1> QED
  BY <1>1, <1>2

\* The frames of a free or of a pass.
LEMMA FrameIs ==
    ASSUME NEW op \in Ops, NEW b \in Links
    PROVE  Frame(op, b) \in Frames /\ Frame(op, b).op = op /\ Frame(op, b).b = b
BY DEF Frame, Frames

\* What a callback that runs below the calls `under' does.
LEMMA CallbackIs ==
    ASSUME PoolIInv, NEW b \in live, NEW phase, NEW under \in Seq(Frames), Callback(b, phase, under)
    PROVE  /\ phases' = [phases EXCEPT ![b] = Append(phases[b], phase)]
           /\ UNCHANGED <<links, size, cleanup_callback, live, stats, cleaning_up, opened, resizes>>
           /\ \/ /\ stack' = under /\ child' = child /\ refs' \in [Blocks -> 0 .. MaxRefs]
                 /\ \A d \in live : refs'[d] = 0 <=> refs[d] = 0
              \/ \E c \in live, o \in {"unlink", "announce"} :
                    /\ cleanup_callback[b] = phase /\ child[b] = c /\ refs[c] > 0
                    /\ o = IF cleaning_up \/ cleanup_callback[c] = NULL THEN "unlink" ELSE "announce"
                    /\ stack' = Append(under, Frame(o, c))
                    /\ refs' = [refs EXCEPT ![c] = 0] /\ child' = [child EXCEPT ![b] = NULL]
<1>1. /\ PTypes /\ live \subseteq Blocks
      /\ child[b] # NULL => child[b] \in live /\ refs[child[b]] > 0
  BY DEF PoolIInv, PTypes, Linked, Younger, Owning
<1>2. /\ phases' = [phases EXCEPT ![b] = Append(phases[b], phase)]
      /\ UNCHANGED <<links, size, cleanup_callback, live, stats, cleaning_up, opened, resizes>>
  BY DEF Callback, Told
<1>3. CASE ~(cleanup_callback[b] = phase /\ child[b] # NULL)
  BY <1>1, <1>2, <1>3 DEF Callback, PTypes
<1>4. CASE cleanup_callback[b] = phase /\ child[b] # NULL
  <2>1. PICK c \in live : c = child[b] /\ refs[c] > 0
    BY <1>1, <1>4
  <2>2. /\ refs' = [refs EXCEPT ![c] = refs[c] - 1]
        /\ stack' = IF refs[c] > 1 THEN under
                    ELSE Append(under, Frame(IF cleaning_up \/ cleanup_callback[c] = NULL
                                             THEN "unlink" ELSE "announce", c))
        /\ child' = [child EXCEPT ![b] = IF refs[c] > 1 THEN c ELSE NULL]
    BY <1>4, <2>1 DEF Callback, FreeMem
  <2>3. CASE refs[c] > 1
    <3>1. child' = child /\ stack' = under
      BY <1>1, <2>1, <2>2, <2>3 DEF PTypes
    <3>2. refs' \in [Blocks -> 0 .. MaxRefs] /\ \A d \in live : refs'[d] = 0 <=> refs[d] = 0
      BY <1>1, <2>1, <2>2, <2>3, BlocksBounded DEF PTypes
    <3> QED
      BY <1>2, <3>1, <3>2
  <2>4. CASE ~(refs[c] > 1)
    <3>1. refs[c] = 1
      BY <1>1, <2>1, <2>4, BlocksBounded DEF PTypes
    <3>2. refs' = [refs EXCEPT ![c] = 0] /\ child' = [child EXCEPT ![b] = NULL]
      BY <2>2, <3>1
    <3>3. PICK o \in {"unlink", "announce"} :
            o = IF cleaning_up \/ cleanup_callback[c] = NULL THEN "unlink" ELSE "announce"
      OBVIOUS
    <3>4. stack' = Append(under, Frame(o, c))
      BY <2>2, <2>4, <3>3
    <3> QED
      BY <1>2, <1>4, <2>1, <3>2, <3>3, <3>4
  <2> QED
    BY <2>3, <2>4
<1> QED
  BY <1>3, <1>4

\* The types behind a callback.
LEMMA CallbackTyped ==
    ASSUME PTypes, NEW b \in live, NEW n \in 0 .. 3, phases' = [phases EXCEPT ![b] = Said[n]],
           stack' \in Seq(Frames), refs' \in [Blocks -> 0 .. MaxRefs], child' \in [Blocks -> Links],
           UNCHANGED <<links, size, cleanup_callback, live, stats, cleaning_up, opened, resizes>>
    PROVE  PTypes'
<1>1. phases' \in [Blocks -> Told3]
  BY SaidNext DEF PTypes
<1> QED
  BY <1>1 DEF PTypes, links, stats

\* While a block is freed and its callback is called, every call is a free.
LEMMA FreesOnly ==
    ASSUME PoolIInv, InCall({"announce", "teardown", "destroy"})
    PROVE  /\ ~cleaning_up /\ opened = "open" /\ stack # <<>> /\ Top = stack[Len(stack)]
           /\ Top.b \in live /\ refs[Top.b] = 0
           /\ \A i \in 1 .. Len(stack) : stack[i].op \in FreeOps /\ stack[i].b \in live
<1>1. stack # <<>> /\ Top = stack[Len(stack)] /\ Len(stack) \in 1 .. Len(stack)
  BY BelowIs DEF InCall, Top, PoolIInv, PTypes
<1>2. Top.op \in FreeOps /\ Top.op # "unlink"
  BY DEF InCall, FreeOps
<1>3. ~cleaning_up
  BY <1>1, <1>2 DEF PoolIInv, Calls
<1>4. opened = "open"
  BY <1>3 DEF PoolIInv, Calls, PTypes
<1>5. \A i \in 1 .. Len(stack) : stack[i].op \in FreeOps /\ stack[i].b \in live
  BY <1>3 DEF PoolIInv, Calls
<1>6. refs[Top.b] = 0
  BY <1>1, <1>5 DEF PoolIInv, Unreferenced
<1> QED
  BY <1>1, <1>3, <1>4, <1>5, <1>6

\* The callback of a block that is freed hears of phase n.
LEMMA OnFreeKeeps ==
    ASSUME PoolIInv, NEW n \in 1 .. 3, NEW op2 \in {"teardown", "destroy", "unlink"},
           InCall({"announce", "teardown", "destroy"}), phases[Top.b] = Said[n - 1],
           op2 = "teardown" => n = 1, op2 = "destroy" => n = 2, op2 = "unlink" => n = 3,
           Callback(Top.b, Phases[n], Append(Below, Frame(op2, Top.b)))
    PROVE  PoolIInv'
<1> DEFINE t == Top.b
           m == Len(stack)
           under == Append(Below, Frame(op2, t))
<1>1. /\ ~cleaning_up /\ opened = "open" /\ stack # <<>> /\ Top = stack[m]
      /\ t \in live /\ refs[t] = 0
      /\ \A i \in 1 .. m : stack[i].op \in FreeOps /\ stack[i].b \in live
  BY FreesOnly
<1>2. PTypes /\ live \subseteq Blocks /\ NULL \notin live
  BY Nothing DEF PoolIInv, PTypes
<1>3. Frame(op2, t) \in Frames /\ Frame(op2, t).op = op2 /\ Frame(op2, t).b = t
  <2>1. op2 \in Ops /\ t \in Links
    BY <1>1, <1>2, Nothing DEF Ops
  <2> QED
    BY <2>1, FrameIs
<1>4. /\ under \in Seq(Frames) /\ Len(under) = m /\ m \in Nat \ {0}
      /\ under[m].op = op2
      /\ \A i \in 1 .. m : /\ under[i].b = stack[i].b
                           /\ i # m => under[i].op = stack[i].op
  <2>1. stack \in Seq(Frames)
    BY <1>2 DEF PTypes
  <2>2. /\ under \in Seq(Frames) /\ Len(under) = m /\ under[m] = Frame(op2, t)
        /\ \A i \in 1 .. m : i # m => under[i] = stack[i]
        /\ m \in Nat \ {0}
    BY <1>1, <1>3, <2>1, ReplaceIs
  <2> QED
    BY <1>1, <1>3, <2>2
<1>5. Append(phases[t], Phases[n]) = Said[n]
  BY SaidNext
<1> HIDE DEF under
<1>6. /\ phases' = [phases EXCEPT ![t] = Said[n]]
      /\ UNCHANGED <<links, size, cleanup_callback, live, stats, cleaning_up, opened, resizes>>
      /\ \/ /\ stack' = under /\ child' = child /\ refs' \in [Blocks -> 0 .. MaxRefs]
            /\ \A d \in live : refs'[d] = 0 <=> refs[d] = 0
         \/ \E c \in live, o \in {"unlink", "announce"} :
               /\ cleanup_callback[t] = Phases[n] /\ child[t] = c /\ refs[c] > 0
               /\ o = IF cleaning_up \/ cleanup_callback[c] = NULL THEN "unlink" ELSE "announce"
               /\ stack' = Append(under, Frame(o, c))
               /\ refs' = [refs EXCEPT ![c] = 0] /\ child' = [child EXCEPT ![t] = NULL]
  <2>1. Callback(t, Phases[n], under)
    BY DEF under
  <2>2. t \in live /\ under \in Seq(Frames)
    BY <1>1, <1>4
  <2> HIDE DEF t
  <2>3. /\ phases' = [phases EXCEPT ![t] = Append(phases[t], Phases[n])]
        /\ UNCHANGED <<links, size, cleanup_callback, live, stats, cleaning_up, opened, resizes>>
    BY <2>1, <2>2, CallbackIs
  <2>4. \/ /\ stack' = under /\ child' = child /\ refs' \in [Blocks -> 0 .. MaxRefs]
           /\ \A d \in live : refs'[d] = 0 <=> refs[d] = 0
        \/ \E c \in live, o \in {"unlink", "announce"} :
              /\ cleanup_callback[t] = Phases[n] /\ child[t] = c /\ refs[c] > 0
              /\ o = IF cleaning_up \/ cleanup_callback[c] = NULL THEN "unlink" ELSE "announce"
              /\ stack' = Append(under, Frame(o, c))
              /\ refs' = [refs EXCEPT ![c] = 0] /\ child' = [child EXCEPT ![t] = NULL]
    BY <2>1, <2>2, CallbackIs
  <2> QED
    BY <1>5, <2>3, <2>4, Zenon
<1>7. m \in 1 .. m /\ stack[m].b = t
  BY <1>1, <1>4
<1> HIDE DEF t, m
<1>8. phases'[t] = Said[n] /\ \A d \in live : d # t => phases'[d] = phases[d]
  BY <1>1, <1>2, <1>6 DEF PTypes
<1>9. StatsExact'
  BY <1>6, SameStats DEF PoolIInv, stats
<1>10. CASE /\ stack' = under /\ child' = child /\ refs' \in [Blocks -> 0 .. MaxRefs]
            /\ \A d \in live : refs'[d] = 0 <=> refs[d] = 0
  <2>1. /\ Len(stack') = m /\ stack'[m].op = op2 /\ stack' # <<>>
        /\ \A i \in 1 .. m : /\ stack'[i].b = stack[i].b
                             /\ i # m => stack'[i].op = stack[i].op
    BY <1>4, <1>10
  <2>2. \A i \in 1 .. m : stack'[i].op \in FreeOps
    BY <1>1, <2>1 DEF FreeOps
  <2>3. PTypes'
    <3>1. t \in live /\ n \in 0 .. 3 /\ stack' \in Seq(Frames) /\ child' \in [Blocks -> Links]
      BY <1>1, <1>2, <1>4, <1>10 DEF PTypes
    <3> QED
      BY <1>2, <1>6, <1>10, <3>1, CallbackTyped
  <2>4. \A rank \in Ranks : InPass(rank)'
    BY <1>4, <2>2, PhaseNames DEF InPass
  <2>5. Linked'
    BY <1>6, <1>10, <2>4, SameList DEF PoolIInv
  <2>6. Owning'
    BY <1>6, <1>10, <2>3, <1>2, BlocksBounded DEF PoolIInv, Owning, Linked, Younger, PTypes
  <2>7. Calls'
    BY <1>1, <1>2, <1>6, <2>1, <2>2 DEF Calls, FreeOps
  <2>8. Distinct'
    BY <2>1 DEF PoolIInv, Distinct, m
  <2>9. Unreferenced'
    <3>1. \A d \in live : refs[d] = 0 <=> \E i \in 1 .. m : stack[i].b = d
      BY <1>1 DEF PoolIInv, Unreferenced, m
    <3>2. \A d \in live : refs'[d] = 0 <=> \E i \in 1 .. m : stack'[i].b = d
      BY <1>10, <2>1, <3>1
    <3> QED
      BY <1>6, <2>1, <2>2, <3>2 DEF Unreferenced
  <2>10. Heard'
    <3>1. \A d \in live : refs'[d] # 0 => phases'[d] = Said[0]
      BY <1>1, <1>8, <1>10 DEF PoolIInv, Heard
    <3>2. ASSUME NEW i \in 1 .. m, i # m PROVE stack[i].b # t /\ phases'[stack[i].b] = phases[stack[i].b]
      BY <1>1, <1>2, <1>7, <1>8, <3>2 DEF PoolIInv, Distinct, m
    <3>3. ASSUME NEW i \in 1 .. m
          PROVE  /\ stack'[i].op = "announce" => phases'[stack'[i].b] = Said[0]
                 /\ stack'[i].op = "teardown" => phases'[stack'[i].b] = Said[1]
                 /\ stack'[i].op = "destroy" => phases'[stack'[i].b] = Said[2]
                 /\ stack'[i].op = "unlink" /\ cleanup_callback[stack'[i].b] # NULL =>
                      phases'[stack'[i].b] = Said[3]
      <4>1. CASE i = m
        BY <1>7, <1>8, <2>1, <4>1
      <4>2. CASE i # m
        BY <1>1, <2>1, <3>2, <4>2 DEF PoolIInv, Heard, m
      <4> QED
        BY <4>1, <4>2
    <3> QED
      BY <1>1, <1>6, <2>1, <3>1, <3>3 DEF Heard
  <2> QED
    BY <1>9, <2>3, <2>5, <2>6, <2>7, <2>8, <2>9, <2>10 DEF PoolIInv
<1>11. ASSUME NEW c \in live, NEW o \in {"unlink", "announce"},
              cleanup_callback[t] = Phases[n], child[t] = c, refs[c] > 0,
              o = IF cleaning_up \/ cleanup_callback[c] = NULL THEN "unlink" ELSE "announce",
              stack' = Append(under, Frame(o, c)),
              refs' = [refs EXCEPT ![c] = 0], child' = [child EXCEPT ![t] = NULL]
       PROVE  PoolIInv'
  <2>1. Frame(o, c) \in Frames /\ Frame(o, c).op = o /\ Frame(o, c).b = c
    <3>1. o \in Ops /\ c \in Links
      BY <1>2, Nothing DEF Ops
    <3> QED
      BY <3>1, FrameIs
  <2>2. /\ stack' \in Seq(Frames) /\ Len(stack') = m + 1 /\ stack' # <<>>
        /\ stack'[m + 1].op = o /\ stack'[m + 1].b = c /\ stack'[m].op = op2
        /\ \A i \in 1 .. m : /\ stack'[i].b = stack[i].b
                             /\ i # m => stack'[i].op = stack[i].op
    <3>1. /\ stack' \in Seq(Frames) /\ Len(stack') = m + 1 /\ stack'[m + 1] = Frame(o, c)
          /\ \A i \in 1 .. m : stack'[i] = under[i]
      BY <1>4, <1>11, <2>1, PushIs
    <3>2. stack' # <<>>
      BY <1>4, <3>1
    <3> QED
      BY <1>4, <2>1, <3>1, <3>2
  <2>3. \A i \in 1 .. m + 1 : stack'[i].op \in FreeOps /\ (i = m + 1 \/ i \in 1 .. m)
    BY <1>1, <1>4, <2>2 DEF FreeOps
  <2>4. \A i \in 1 .. m : refs[stack[i].b] = 0 /\ stack[i].b # c
    BY <1>1, <1>11 DEF PoolIInv, Unreferenced, m
  <2>5. /\ refs'[c] = 0 /\ \A d \in live : d # c => refs'[d] = refs[d]
        /\ child'[t] = NULL /\ \A d \in live : d # t => child'[d] = child[d]
    BY <1>1, <1>2, <1>11 DEF PTypes
  <2>6. PTypes'
    <3>1. refs' \in [Blocks -> 0 .. MaxRefs] /\ child' \in [Blocks -> Links]
      BY <1>1, <1>2, <1>11, Nothing, BlocksBounded DEF PTypes
    <3>2. t \in live /\ n \in 0 .. 3 /\ stack' \in Seq(Frames)
      BY <1>1, <2>2
    <3> QED
      BY <1>2, <1>6, <3>1, <3>2, CallbackTyped
  <2>7. Linked'
    <3>1. PICK rank \in Ranks : Chain(rank) /\ Younger(rank) /\ Ends
      BY DEF PoolIInv, Linked
    <3>2. Chain(rank)' /\ Ends'
      BY <1>6, <3>1 DEF Chain, Ends, links
    <3>3. Younger(rank)'
      BY <1>6, <2>5, <3>1 DEF Younger
    <3>4. InPass(rank)'
      BY <1>4, <2>3, PhaseNames DEF InPass
    <3> QED
      BY <3>1, <3>2, <3>3, <3>4 DEF Linked
  <2>8. Owning'
    <3>1. ASSUME NEW d \in live, child'[d] # NULL PROVE d # t /\ child'[d] = child[d] /\ child[d] # c
      BY <1>1, <1>2, <1>11, <2>5, <3>1 DEF PoolIInv, Owning
    <3> QED
      BY <1>6, <2>5, <3>1 DEF PoolIInv, Owning, Linked, Younger
  <2>9. Calls'
    <3>1. \A i \in 1 .. m + 1 : stack'[i].b \in live
      BY <1>1, <2>2, <2>3
    <3> QED
      BY <1>1, <1>2, <1>6, <2>2, <2>3, <3>1 DEF Calls, FreeOps
  <2>10. Distinct'
    BY <1>4, <2>2, <2>3, <2>4 DEF PoolIInv, Distinct, m
  <2>11. Unreferenced'
    <3>1. \A d \in live : refs[d] = 0 <=> \E i \in 1 .. m : stack[i].b = d
      BY <1>1 DEF PoolIInv, Unreferenced, m
    <3>2. \A d \in live : (\E i \in 1 .. m + 1 : stack'[i].b = d) <=>
                               (d = c \/ \E i \in 1 .. m : stack[i].b = d)
      BY <1>4, <2>2, <2>3
    <3>3. \A d \in live : refs'[d] = 0 <=> \E i \in 1 .. m + 1 : stack'[i].b = d
      BY <2>5, <3>1, <3>2
    <3> QED
      BY <1>6, <2>2, <2>3, <3>3 DEF Unreferenced
  <2>12. Heard'
    <3>1. \A d \in live : refs'[d] # 0 => phases'[d] = Said[0]
      BY <1>1, <1>8, <2>5 DEF PoolIInv, Heard
    <3>2. ASSUME NEW i \in 1 .. m, i # m PROVE stack[i].b # t /\ phases'[stack[i].b] = phases[stack[i].b]
      BY <1>1, <1>2, <1>7, <1>8, <3>2 DEF PoolIInv, Distinct, m
    <3>3. c # t /\ phases'[c] = Said[0]
      BY <1>1, <1>8, <1>11 DEF PoolIInv, Heard
    <3>4. ASSUME NEW i \in 1 .. m + 1
          PROVE  /\ stack'[i].op = "announce" => phases'[stack'[i].b] = Said[0]
                 /\ stack'[i].op = "teardown" => phases'[stack'[i].b] = Said[1]
                 /\ stack'[i].op = "destroy" => phases'[stack'[i].b] = Said[2]
                 /\ stack'[i].op = "unlink" /\ cleanup_callback[stack'[i].b] # NULL =>
                      phases'[stack'[i].b] = Said[3]
      <4>1. CASE i = m
        BY <1>4, <1>7, <1>8, <2>2, <4>1
      <4>2. CASE i # m /\ i \in 1 .. m
        BY <1>1, <2>2, <3>2, <4>2 DEF PoolIInv, Heard, m
      <4>3. CASE i = m + 1
        BY <1>1, <1>11, <2>2, <3>3, <4>3
      <4> QED
        BY <2>3, <4>1, <4>2, <4>3
    <3> QED
      BY <1>1, <1>6, <2>2, <3>1, <3>4 DEF Heard
  <2> QED
    BY <1>9, <2>6, <2>7, <2>8, <2>9, <2>10, <2>11, <2>12 DEF PoolIInv
<1> QED
  BY <1>6, <1>10, <1>11

\* perform_pool_cleanup_on_free.
LEMMA AnnounceKeeps == ASSUME PoolIInv, OnFreeAnnounce PROVE PoolIInv'
<1>1. InCall({"announce"}) /\ Callback(Top.b, "ANNOUNCE", Append(Below, Frame("teardown", Top.b)))
  BY DEF OnFreeAnnounce
<1>2. InCall({"announce", "teardown", "destroy"})
  BY <1>1 DEF InCall
<1>3. phases[Top.b] = Said[0]
  <2>1. ~cleaning_up /\ Top = stack[Len(stack)] /\ Len(stack) \in 1 .. Len(stack)
    BY <1>2, FreesOnly, BelowIs DEF PoolIInv, PTypes
  <2> QED
    BY <1>1, <2>1 DEF PoolIInv, Heard, InCall
<1> QED
  BY <1>1, <1>2, <1>3, OnFreeKeeps, PhaseNames

\* A callback hears of the teardown of its block.
LEMMA TeardownKeeps == ASSUME PoolIInv, OnFreeTeardown PROVE PoolIInv'
<1>1. InCall({"teardown"}) /\ Callback(Top.b, "TEARDOWN", Append(Below, Frame("destroy", Top.b)))
  BY DEF OnFreeTeardown
<1>2. InCall({"announce", "teardown", "destroy"})
  BY <1>1 DEF InCall
<1>3. phases[Top.b] = Said[1]
  <2>1. ~cleaning_up /\ Top = stack[Len(stack)] /\ Len(stack) \in 1 .. Len(stack)
    BY <1>2, FreesOnly, BelowIs DEF PoolIInv, PTypes
  <2> QED
    BY <1>1, <2>1 DEF PoolIInv, Heard, InCall
<1> QED
  BY <1>1, <1>2, <1>3, OnFreeKeeps, PhaseNames

\* A callback hears of its last phase, and the block comes off the list next.
LEMMA DestroyKeeps == ASSUME PoolIInv, OnFreeDestroy PROVE PoolIInv'
<1>1. InCall({"destroy"}) /\ Callback(Top.b, "DESTROY", Append(Below, Frame("unlink", Top.b)))
  BY DEF OnFreeDestroy
<1>2. InCall({"announce", "teardown", "destroy"})
  BY <1>1 DEF InCall
<1>3. phases[Top.b] = Said[2]
  <2>1. ~cleaning_up /\ Top = stack[Len(stack)] /\ Len(stack) \in 1 .. Len(stack)
    BY <1>2, FreesOnly, BelowIs DEF PoolIInv, PTypes
  <2> QED
    BY <1>1, <2>1 DEF PoolIInv, Heard, InCall
<1> QED
  BY <1>1, <1>2, <1>3, OnFreeKeeps, PhaseNames

\* ks_pool_free by a caller.
LEMMA FreeKeeps ==
    ASSUME PoolIInv, NEW b \in Blocks, ks_pool_free(b) PROVE PoolIInv'
<1>1. /\ b \in live /\ (b \in Owned => refs[b] > 1) /\ refs' = [refs EXCEPT ![b] = refs[b] - 1]
      /\ UNCHANGED <<links, size, cleanup_callback, child, live, stats, cleaning_up,
                     phases, opened, resizes>>
  BY DEF ks_pool_free, FreeMem
<1>2. /\ stack = <<>> /\ Len(stack) = 0 /\ opened = "open"
      /\ \A c \in live : refs[c] # 0 /\ phases[c] = Said[0]
  BY IdleIs DEF ks_pool_free
<1>3. PTypes /\ live \subseteq Blocks /\ NULL \notin live
  BY Nothing DEF PoolIInv, PTypes
<1>4. PICK o \in {"unlink", "announce"} :
        /\ o = IF cleaning_up \/ cleanup_callback[b] = NULL THEN "unlink" ELSE "announce"
        /\ stack' = IF refs[b] > 1 THEN <<>> ELSE Append(<<>>, Frame(o, b))
  BY DEF ks_pool_free, FreeMem
<1>5. refs' \in [Blocks -> 0 .. MaxRefs] /\ \A c \in live : c # b => refs'[c] > 0
  BY <1>1, <1>2, <1>3, BlocksBounded DEF PTypes
<1>6. StatsExact'
  BY <1>1, SameStats DEF PoolIInv
<1>7. \A o1 \in live : child[o1] # NULL => child[o1] \in live
  BY DEF PoolIInv, Linked, Younger
<1>8. CASE refs[b] > 1
  <2>1. stack' = <<>> /\ Len(stack') = 0 /\ \A c \in live : refs'[c] > 0
    BY <1>1, <1>3, <1>4, <1>5, <1>8, BlocksBounded DEF PTypes
  <2>2. PTypes'
    BY <1>1, <1>3, <1>5, <2>1 DEF PTypes, links, stats
  <2>3. Calls' /\ Distinct' /\ Linked'
    BY <1>1, <1>2, <2>1, NoCalls, SameList DEF PoolIInv
  <2>4. Owning'
    BY <1>1, <1>7, <2>1 DEF PoolIInv, Owning
  <2>5. Unreferenced' /\ Heard'
    BY <1>1, <1>2, <1>3, <2>1 DEF Unreferenced, Heard
  <2> QED
    BY <1>6, <2>2, <2>3, <2>4, <2>5 DEF PoolIInv
<1>9. CASE ~(refs[b] > 1)
  <2>1. refs'[b] = 0 /\ b \notin Owned
    BY <1>1, <1>2, <1>3, <1>9, BlocksBounded DEF PTypes
  <2>2. Frame(o, b) \in Frames /\ Frame(o, b).op = o /\ Frame(o, b).b = b
    <3>1. o \in Ops /\ b \in Links
      BY Nothing DEF Ops
    <3> QED
      BY <3>1, FrameIs
  <2>3. /\ stack' \in Seq(Frames) /\ Len(stack') = 1 /\ stack' # <<>>
        /\ stack'[1].op = o /\ stack'[1].b = b
    <3>1. stack' = <<Frame(o, b)>>
      BY <1>4, <1>9, Tuples
    <3> QED
      BY <2>2, <3>1
  <2>4. /\ \A i \in 1 .. 1 : i = 1
        /\ o \in FreeOps /\ o \notin Passes /\ o # "free_all"
    BY DEF FreeOps, Passes
  <2>5. PTypes'
    BY <1>1, <1>3, <1>5, <2>3 DEF PTypes, links, stats
  <2>6. Linked'
    <3>1. \A rank \in Ranks : InPass(rank)'
      BY <2>3, <2>4, PhaseNames DEF InPass
    <3> QED
      BY <1>1, <3>1, SameList DEF PoolIInv
  <2>7. Owning'
    BY <1>1, <1>5, <1>7, <2>1 DEF PoolIInv, Owning, Owned
  <2>8. Calls'
    BY <1>1, <1>2, <1>3, <1>4, <2>3, <2>4 DEF Calls
  <2>9. Distinct'
    BY <2>3, <2>4 DEF Distinct
  <2>10. Unreferenced'
    BY <1>1, <1>5, <2>1, <2>3, <2>4 DEF Unreferenced
  <2>11. Heard'
    BY <1>1, <1>2, <1>4, <2>3, <2>4 DEF Heard
  <2> QED
    BY <1>6, <2>5, <2>6, <2>7, <2>8, <2>9, <2>10, <2>11 DEF PoolIInv
<1> QED
  BY <1>8, <1>9

\* ks_pool_clear and ks_pool_close begin.
LEMMA ClearKeeps ==
    ASSUME PoolIInv, NEW goal \in {"clearing", "closing"}, ClearBegin(goal) PROVE PoolIInv'
<1>1. /\ opened' = goal /\ cleaning_up' = TRUE
      /\ stack' = <<IF cleaning_up THEN Frame("free_all", NULL) ELSE Frame("ANNOUNCE", first)>>
      /\ UNCHANGED <<links, prefixes, stats, phases, resizes>>
  BY DEF ClearBegin
<1>2. /\ stack = <<>> /\ Len(stack) = 0 /\ opened = "open"
      /\ \A c \in live : refs[c] # 0 /\ phases[c] = Said[0]
  BY IdleIs DEF ClearBegin
<1>3. PTypes /\ live \subseteq Blocks /\ NULL \notin live
  BY Nothing DEF PoolIInv, PTypes
<1>4. /\ Frame("free_all", NULL) \in Frames /\ Frame("free_all", NULL).op = "free_all"
      /\ Frame("free_all", NULL).b = NULL
      /\ Frame("ANNOUNCE", first) \in Frames /\ Frame("ANNOUNCE", first).op = "ANNOUNCE"
      /\ Frame("ANNOUNCE", first).b = first
  <2>1. "free_all" \in Ops /\ "ANNOUNCE" \in Ops /\ NULL \in Links /\ first \in Links
    BY <1>3, Nothing DEF Ops, Passes, PTypes
  <2> QED
    BY <2>1, FrameIs
<1>5. /\ stack' \in Seq(Frames) /\ Len(stack') = 1 /\ stack' # <<>>
      /\ \/ stack'[1].op = "free_all" /\ stack'[1].b = NULL
         \/ stack'[1].op = "ANNOUNCE" /\ stack'[1].b = first
      /\ \A i \in 1 .. 1 : i = 1
  BY <1>1, <1>4
<1>6. PTypes'
  BY <1>1, <1>3, <1>5 DEF PTypes, links, prefixes, stats
<1>7. Linked'
  <2>1. PICK rank \in Ranks : Chain(rank) /\ Younger(rank) /\ Ends
    BY DEF PoolIInv, Linked
  <2>2. Chain(rank)' /\ Ends' /\ Younger(rank)'
    BY <1>1, <2>1 DEF Chain, Ends, Younger, links, prefixes
  <2>3. InPass(rank)'
    <3>1. ASSUME NEW n \in 1 .. 3, stack'[1].op = Phases[n], NEW c \in live
          PROVE  /\ n = 1 /\ stack'[1].b # NULL /\ rank[c] <= rank[stack'[1].b]
                 /\ phases'[c] = Said[n - 1]
      <4>1. n = 1 /\ stack'[1].op = "ANNOUNCE"
        BY <1>5, <3>1, PhaseNames
      <4>2. stack'[1].b = first /\ first \in live
        BY <1>5, <2>1, <4>1 DEF Ends
      <4> QED
        BY <1>1, <1>2, <1>3, <2>1, <4>1, <4>2 DEF Chain
    <3> QED
      BY <1>1, <3>1 DEF InPass, prefixes
  <2> QED
    BY <2>1, <2>2, <2>3 DEF Linked
<1>8. Owning'
  BY <1>1 DEF PoolIInv, Owning, prefixes
<1>9. Calls'
  BY <1>1, <1>3, <1>5 DEF PoolIInv, Linked, Ends, Calls, FreeOps, prefixes
<1>10. Distinct'
  BY <1>5 DEF Distinct
<1>11. Unreferenced' /\ Heard' /\ StatsExact'
  BY <1>1, <1>2, <1>5 DEF Unreferenced, Heard, StatsExact, FreeOps, prefixes
<1> QED
  BY <1>6, <1>7, <1>8, <1>9, <1>10, <1>11 DEF PoolIInv

\* A pass of perform_pool_cleanup is the only call, or the one below a free.
LEMMA PassIs ==
    ASSUME PoolIInv, InCall(Passes)
    PROVE  /\ cleaning_up /\ opened \in {"clearing", "closing"} /\ Len(stack) = 1
           /\ Top = stack[1] /\ (Top.b # NULL => Top.b \in live)
           /\ \A c \in live : refs[c] # 0
<1>1. stack # <<>> /\ Top = stack[Len(stack)] /\ Len(stack) \in 1 .. Len(stack)
  BY BelowIs DEF InCall, Top, PoolIInv, PTypes
<1>2. Top.op \notin FreeOps
  BY DEF InCall, FreeOps, Passes
<1>3. Len(stack) = 1 /\ cleaning_up /\ opened \in {"clearing", "closing"}
  BY <1>1, <1>2 DEF PoolIInv, Calls
<1>4. \A i \in 1 .. 1 : i = 1
  OBVIOUS
<1> QED
  BY <1>1, <1>2, <1>3, <1>4 DEF PoolIInv, Calls, Unreferenced

\* The end of a pass.
LEMMA PassEndKeeps == ASSUME PoolIInv, PassEnd PROVE PoolIInv'
<1>1. /\ InCall(Passes) /\ Top.b = NULL
      /\ UNCHANGED <<links, prefixes, stats, cleaning_up, phases, opened, resizes>>
  BY DEF PassEnd
<1>2. /\ cleaning_up /\ opened \in {"clearing", "closing"} /\ Len(stack) = 1
      /\ Top = stack[1] /\ \A c \in live : refs[c] # 0
  BY <1>1, PassIs
<1>3. PTypes /\ live \subseteq Blocks /\ NULL \notin live
  BY Nothing DEF PoolIInv, PTypes
<1>4. /\ Frame("free_all", NULL) \in Frames /\ Frame("free_all", NULL).op = "free_all"
      /\ Frame("free_all", NULL).b = NULL
      /\ Frame("TEARDOWN", first) \in Frames /\ Frame("TEARDOWN", first).op = "TEARDOWN"
      /\ Frame("TEARDOWN", first).b = first
      /\ Frame("DESTROY", first) \in Frames /\ Frame("DESTROY", first).op = "DESTROY"
      /\ Frame("DESTROY", first).b = first
  <2>1. /\ "free_all" \in Ops /\ "TEARDOWN" \in Ops /\ "DESTROY" \in Ops
        /\ NULL \in Links /\ first \in Links
    BY <1>3, Nothing DEF Ops, Passes, PTypes
  <2> QED
    BY <2>1, FrameIs
<1>5. \/ Top.op = "ANNOUNCE" /\ stack' = <<Frame("TEARDOWN", first)>>
      \/ Top.op = "TEARDOWN" /\ stack' = <<Frame("DESTROY", first)>>
      \/ Top.op = "DESTROY" /\ stack' = <<Frame("free_all", NULL)>>
  BY <1>1 DEF PassEnd, InCall, Passes
<1>6. /\ stack' \in Seq(Frames) /\ Len(stack') = 1 /\ stack' # <<>>
      /\ \/ stack[1].op = "ANNOUNCE" /\ stack'[1].op = "TEARDOWN" /\ stack'[1].b = first
         \/ stack[1].op = "TEARDOWN" /\ stack'[1].op = "DESTROY" /\ stack'[1].b = first
         \/ stack[1].op = "DESTROY" /\ stack'[1].op = "free_all" /\ stack'[1].b = NULL
      /\ \A i \in 1 .. 1 : i = 1
  <2>1. \A f \in Frames : <<f>> \in Seq(Frames) /\ Len(<<f>>) = 1 /\ <<f>> # <<>> /\ <<f>>[1] = f
    OBVIOUS
  <2>2. \A i \in 1 .. 1 : i = 1
    OBVIOUS
  <2> QED
    BY <1>2, <1>4, <1>5, <2>1, <2>2
<1>7. PTypes'
  BY <1>1, <1>3, <1>6 DEF PTypes, links, prefixes, stats
<1>8. Linked'
  <2>1. PICK rank \in Ranks : Chain(rank) /\ Younger(rank) /\ Ends /\ InPass(rank)
    BY DEF PoolIInv, Linked
  <2>2. Chain(rank)' /\ Ends' /\ Younger(rank)'
    BY <1>1, <2>1 DEF Chain, Ends, Younger, links, prefixes
  <2>3. InPass(rank)'
    <3>1. ASSUME NEW n \in 1 .. 3, stack'[1].op = Phases[n], NEW c \in live, cleanup_callback[c] # NULL
          PROVE  /\ stack'[1].b # NULL /\ rank[c] <= rank[stack'[1].b]
                 /\ phases'[c] = Said[n - 1]
      <4>1. n - 1 \in 1 .. 3 /\ stack[1].op = Phases[n - 1] /\ stack'[1].b = first
        BY <1>6, <3>1, PhaseNames
      <4>2. first \in live /\ first # NULL /\ rank[c] <= rank[first]
        BY <1>3, <2>1 DEF Ends, Chain
      <4>3. phases[c] = Said[n - 1]
        BY <1>1, <1>2, <2>1, <3>1, <4>1 DEF InPass, InCall
      <4> QED
        BY <1>1, <4>1, <4>2, <4>3
    <3> QED
      BY <1>1, <3>1 DEF InPass, prefixes
  <2> QED
    BY <2>1, <2>2, <2>3 DEF Linked
<1>9. Owning'
  BY <1>1 DEF PoolIInv, Owning, prefixes
<1>10. Calls'
  BY <1>1, <1>2, <1>3, <1>6 DEF PoolIInv, Linked, Ends, Calls, FreeOps, prefixes
<1>11. Distinct'
  BY <1>6 DEF Distinct
<1>12. Unreferenced' /\ Heard' /\ StatsExact'
  BY <1>1, <1>2, <1>6 DEF Unreferenced, Heard, StatsExact, FreeOps, prefixes
<1> QED
  BY <1>7, <1>8, <1>9, <1>10, <1>11, <1>12 DEF PoolIInv

\* One turn of a pass: the block that is next was saved before the callback
\* ran, and what the callback frees is newer.
LEMMA PassVisitKeeps == ASSUME PoolIInv, PassVisit PROVE PoolIInv'
<1> DEFINE x == Top.b
           op == Top.op
           on == Append(Below, Frame(op, next[x]))
<1>1. /\ InCall(Passes) /\ x # NULL /\ stack # <<>> /\ op \in Passes
      /\ IF cleanup_callback[x] = NULL
         THEN /\ stack' = on
              /\ UNCHANGED <<links, prefixes, stats, cleaning_up, phases, opened, resizes>>
         ELSE Callback(x, op, on)
  BY DEF PassVisit, InCall
<1>2. /\ cleaning_up /\ opened \in {"clearing", "closing"} /\ Len(stack) = 1
      /\ Top = stack[1] /\ x \in live /\ \A c \in live : refs[c] # 0
  BY <1>1, PassIs
<1>3. PTypes /\ live \subseteq Blocks /\ NULL \notin live
  BY Nothing DEF PoolIInv, PTypes
<1>4. PICK n \in 1 .. 3 : op = Phases[n]
  BY <1>1, PhaseNames
<1>5. on \in Seq(Frames) /\ Len(on) = 1 /\ on[1].op = op /\ on[1].b = next[x]
  <2>1. op \in Ops /\ next[x] \in Links /\ stack \in Seq(Frames)
    BY <1>1, <1>2, <1>3 DEF Ops, PTypes
  <2>2. Frame(op, next[x]) \in Frames /\ Frame(op, next[x]).op = op /\ Frame(op, next[x]).b = next[x]
    BY <2>1, FrameIs
  <2>3. on \in Seq(Frames) /\ Len(on) = Len(stack) /\ on[Len(stack)] = Frame(op, next[x])
    BY <1>1, <2>1, <2>2, ReplaceIs
  <2> QED
    BY <1>2, <2>2, <2>3
<1>6. PICK rank \in Ranks : Chain(rank) /\ Younger(rank) /\ Ends /\ InPass(rank)
  BY DEF PoolIInv, Linked
<1>7. /\ \A d \in live : rank[d] \in Nat
      /\ next[x] # NULL => next[x] \in live /\ rank[x] = rank[next[x]] + 1
      /\ next[x] = NULL => rank[x] = 0
  BY <1>2, <1>3, <1>6 DEF Ranks, Chain
<1>8. \A d \in live : cleanup_callback[d] # NULL =>
        phases[d] = IF rank[d] <= rank[x] THEN Said[n - 1] ELSE Said[n]
  BY <1>1, <1>2, <1>4, <1>6 DEF InPass
<1>9. \A d \in live : d # x /\ rank[d] <= rank[x] => next[x] # NULL /\ rank[d] <= rank[next[x]]
  <2> SUFFICES ASSUME NEW d \in live, d # x, rank[d] <= rank[x]
               PROVE  next[x] # NULL /\ rank[d] <= rank[next[x]]
    OBVIOUS
  <2>1. rank[d] # rank[x]
    BY <1>2, <1>6 DEF Chain
  <2> QED
    BY <1>2, <1>7, <2>1
<1> HIDE DEF x, op, on
<1>10. /\ UNCHANGED <<links, size, cleanup_callback, live, stats, cleaning_up, opened, resizes>>
       /\ phases' \in [Blocks -> Told3]
       /\ cleanup_callback[x] # NULL => phases'[x] = Said[n]
       /\ \A d \in live : d # x => phases'[d] = phases[d]
       /\ \/ /\ stack' = on /\ child' = child /\ refs' \in [Blocks -> 0 .. MaxRefs]
             /\ \A d \in live : refs'[d] = 0 <=> refs[d] = 0
          \/ \E c \in live, o \in {"unlink", "announce"} :
                /\ child[x] = c /\ o = "unlink"
                /\ stack' = Append(on, Frame(o, c))
                /\ refs' = [refs EXCEPT ![c] = 0] /\ child' = [child EXCEPT ![x] = NULL]
  <2>1. CASE cleanup_callback[x] = NULL
    <3>1. stack' = on /\ UNCHANGED <<links, prefixes, stats, cleaning_up, phases, opened, resizes>>
      BY <1>1, <2>1
    <3> QED
      BY <1>3, <2>1, <3>1 DEF PTypes, prefixes, links, stats
  <2>2. CASE cleanup_callback[x] # NULL
    <3>1. Callback(x, op, on)
      BY <1>1, <2>2
    <3>2. /\ phases' = [phases EXCEPT ![x] = Append(phases[x], op)]
          /\ UNCHANGED <<links, size, cleanup_callback, live, stats, cleaning_up, opened, resizes>>
      BY <1>2, <1>5, <3>1, CallbackIs
    <3>3. \/ /\ stack' = on /\ child' = child /\ refs' \in [Blocks -> 0 .. MaxRefs]
             /\ \A d \in live : refs'[d] = 0 <=> refs[d] = 0
          \/ \E c \in live, o \in {"unlink", "announce"} :
                /\ cleanup_callback[x] = op /\ child[x] = c /\ refs[c] > 0
                /\ o = IF cleaning_up \/ cleanup_callback[c] = NULL THEN "unlink" ELSE "announce"
                /\ stack' = Append(on, Frame(o, c))
                /\ refs' = [refs EXCEPT ![c] = 0] /\ child' = [child EXCEPT ![x] = NULL]
      <4>1. x \in live /\ on \in Seq(Frames)
        BY <1>2, <1>5
      <4> QED
        BY <3>1, <4>1, CallbackIs
    <3>4. Append(phases[x], op) = Said[n] /\ Said[n] \in Told3
      <4>1. phases[x] = Said[n - 1]
        BY <1>2, <1>7, <1>8, <2>2
      <4>2. Append(Said[n - 1], Phases[n]) = Said[n]
        BY SaidNext
      <4>3. Said[n] \in Told3
        BY SaidNext
      <4> QED
        BY <1>4, <4>1, <4>2, <4>3
    <3>5. /\ phases' \in [Blocks -> Told3] /\ phases'[x] = Said[n]
          /\ \A d \in live : d # x => phases'[d] = phases[d]
      BY <1>2, <1>3, <3>2, <3>4 DEF PTypes
    <3>6. \/ /\ stack' = on /\ child' = child /\ refs' \in [Blocks -> 0 .. MaxRefs]
             /\ \A d \in live : refs'[d] = 0 <=> refs[d] = 0
          \/ \E c \in live, o \in {"unlink", "announce"} :
                /\ child[x] = c /\ o = "unlink"
                /\ stack' = Append(on, Frame(o, c))
                /\ refs' = [refs EXCEPT ![c] = 0] /\ child' = [child EXCEPT ![x] = NULL]
      BY <1>2, <3>3, Zenon
    <3> QED
      BY <3>2, <3>5, <3>6, Zenon
  <2> QED
    BY <2>1, <2>2
<1>11. StatsExact' /\ cleaning_up' /\ opened' \in {"clearing", "closing"}
  BY <1>2, <1>10 DEF StatsExact
<1>12. Heard'
  BY <1>11 DEF Heard
<1>13. /\ Chain(rank)' /\ Ends'
       /\ stack' # <<>> /\ stack'[1].op = op /\ stack'[1].b = next[x] => InPass(rank)'
  <2>1. Chain(rank)' /\ Ends'
    BY <1>6, <1>10 DEF Chain, Ends, links
  <2>2. ASSUME stack' # <<>>, stack'[1].op = op, stack'[1].b = next[x],
               NEW n2 \in 1 .. 3, stack'[1].op = Phases[n2], NEW d \in live, cleanup_callback[d] # NULL
        PROVE  phases'[d] = IF stack'[1].b # NULL /\ rank[d] <= rank[stack'[1].b]
                            THEN Said[n2 - 1] ELSE Said[n2]
    <3>1. n2 = n
      BY <1>4, <2>2, PhaseNames
    <3>2. CASE d = x
      <4>1. ~(next[x] # NULL /\ rank[x] <= rank[next[x]])
        BY <1>2, <1>7
      <4> QED
        BY <1>10, <2>2, <3>1, <3>2, <4>1
    <3>3. CASE d # x
      <4>1. phases'[d] = IF rank[d] <= rank[x] THEN Said[n - 1] ELSE Said[n]
        BY <1>8, <1>10, <2>2, <3>3
      <4>2. rank[d] <= rank[x] <=> next[x] # NULL /\ rank[d] <= rank[next[x]]
        BY <1>2, <1>7, <1>9, <3>3
      <4> QED
        BY <2>2, <3>1, <4>1, <4>2
    <3> QED
      BY <3>2, <3>3
  <2> QED
    BY <1>10, <2>1, <2>2 DEF InPass
<1>14. CASE /\ stack' = on /\ child' = child /\ refs' \in [Blocks -> 0 .. MaxRefs]
            /\ \A d \in live : refs'[d] = 0 <=> refs[d] = 0
  <2>1. /\ stack' \in Seq(Frames) /\ Len(stack') = 1 /\ stack' # <<>>
        /\ stack'[1].op = op /\ stack'[1].b = next[x]
        /\ op \notin FreeOps /\ op # "free_all" /\ \A i \in 1 .. 1 : i = 1
    BY <1>4, <1>5, <1>14, PhaseNames
  <2>2. PTypes'
    BY <1>3, <1>10, <1>14, <2>1 DEF PTypes, links, stats
  <2>3. Linked'
    <3>1. Younger(rank)'
      BY <1>6, <1>10, <1>14 DEF Younger
    <3> QED
      BY <1>13, <2>1, <3>1 DEF Linked
  <2>4. Owning'
    BY <1>2, <1>3, <1>10, <1>14, <2>2, BlocksBounded DEF PoolIInv, Owning, Linked, Younger, PTypes
  <2>5. Calls' /\ Distinct'
    BY <1>7, <1>10, <1>11, <2>1 DEF Calls, Distinct
  <2>6. Unreferenced'
    BY <1>2, <1>10, <1>14, <2>1 DEF Unreferenced
  <2> QED
    BY <1>11, <1>12, <2>2, <2>3, <2>4, <2>5, <2>6 DEF PoolIInv
<1>15. ASSUME NEW c \in live, child[x] = c,
              stack' = Append(on, Frame("unlink", c)),
              refs' = [refs EXCEPT ![c] = 0], child' = [child EXCEPT ![x] = NULL]
       PROVE  PoolIInv'
  <2>1. Frame("unlink", c) \in Frames /\ Frame("unlink", c).op = "unlink" /\ Frame("unlink", c).b = c
    <3>1. "unlink" \in Ops /\ c \in Links
      BY <1>3, Nothing DEF Ops
    <3> QED
      BY <3>1, FrameIs
  <2>2. /\ stack' \in Seq(Frames) /\ Len(stack') = 2 /\ stack' # <<>>
        /\ stack'[1].op = op /\ stack'[1].b = next[x]
        /\ stack'[2].op = "unlink" /\ stack'[2].b = c
    <3>1. /\ stack' \in Seq(Frames) /\ Len(stack') = Len(on) + 1
          /\ stack'[Len(on) + 1] = Frame("unlink", c) /\ \A i \in 1 .. Len(on) : stack'[i] = on[i]
      BY <1>5, <1>15, <2>1, PushIs
    <3>2. Len(on) = 1 /\ Len(on) + 1 = 2 /\ 1 \in 1 .. 1
      BY <1>5
    <3>3. Len(stack') = 2
      BY <3>1, <3>2
    <3>4. stack' # <<>>
      BY <3>3
    <3> QED
      BY <1>5, <2>1, <3>1, <3>2, <3>3, <3>4
  <2>3. /\ op \notin FreeOps /\ op # "free_all" /\ "unlink" \in FreeOps
        /\ \A i \in 1 .. 2 : i = 1 \/ i = 2
    BY <1>4, PhaseNames DEF FreeOps
  <2>4. /\ refs'[c] = 0 /\ \A d \in live : d # c => refs'[d] = refs[d]
        /\ child'[x] = NULL /\ \A d \in live : d # x => child'[d] = child[d]
    BY <1>2, <1>3, <1>15 DEF PTypes
  <2>5. PTypes'
    <3>1. refs' \in [Blocks -> 0 .. MaxRefs] /\ child' \in [Blocks -> Links]
      BY <1>2, <1>3, <1>15, Nothing, BlocksBounded DEF PTypes
    <3> QED
      BY <1>3, <1>10, <2>2, <3>1 DEF PTypes, links, stats
  <2>6. Linked'
    <3>1. Younger(rank)'
      BY <1>6, <1>10, <2>4 DEF Younger
    <3> QED
      BY <1>13, <2>2, <3>1 DEF Linked
  <2>7. Owning'
    <3>1. ASSUME NEW d \in live, child'[d] # NULL PROVE d # x /\ child'[d] = child[d] /\ child[d] # c
      BY <1>2, <1>3, <1>15, <2>4, <3>1 DEF PoolIInv, Owning
    <3> QED
      BY <1>10, <2>4, <3>1 DEF PoolIInv, Owning, Linked, Younger
  <2>8. next[x] # c /\ c # NULL
    <3>1. rank[c] > rank[x] /\ c # NULL
      BY <1>2, <1>3, <1>6, <1>15 DEF Younger
    <3> QED
      BY <1>2, <1>7, <3>1
  <2>9. Calls'
    BY <1>7, <1>10, <1>11, <2>2, <2>3, <2>8 DEF Calls
  <2>10. Distinct'
    BY <2>2, <2>3, <2>8 DEF Distinct
  <2>11. Unreferenced'
    <3>1. \A d \in live : refs'[d] = 0 <=> d = c
      BY <1>2, <2>4
    <3>2. 2 \in 1 .. 2
      OBVIOUS
    <3> QED
      BY <1>10, <2>2, <2>3, <3>1, <3>2 DEF Unreferenced
  <2> QED
    BY <1>11, <1>12, <2>5, <2>6, <2>7, <2>9, <2>10, <2>11 DEF PoolIInv
<1> QED
  BY <1>10, <1>14, <1>15

\* The list holds the live blocks and no other.
LEMMA ReachedIs == ASSUME PoolIInv PROVE Reached = live
<1>1. PTypes /\ live \subseteq Blocks /\ NULL \notin live
  BY Nothing DEF PoolIInv, PTypes
<1>2. PICK rank \in Ranks : Chain(rank) /\ Ends
  BY DEF PoolIInv, Linked
<1>3. \A d \in live : rank[d] \in Nat
  BY <1>1 DEF Ranks
<1>4. Reached \subseteq live
  <2>1. /\ live \in SUBSET Blocks /\ first \in live \cup {NULL}
        /\ \A d \in live : next[d] \in live \cup {NULL}
    BY <1>1, <1>2 DEF Chain, Ends
  <2> QED
    BY <2>1 DEF Reached
<1>5. ASSUME NEW S \in SUBSET Blocks, first \in S \cup {NULL},
             \A d \in S : next[d] \in S \cup {NULL}
      PROVE  live \subseteq S
  <2> SUFFICES ASSUME live \ S # {} PROVE FALSE
    OBVIOUS
  <2>1. first \in live /\ first \in S /\ rank[first] \in Nat
    BY <1>1, <1>2, <1>3, <1>5 DEF Ends
  <2> DEFINE T == {rank[first] - rank[d] : d \in live \ S}
  <2>2. T \subseteq Nat
    <3>1. \A d \in live : rank[first] - rank[d] \in Nat
      BY <1>2, <1>3, <2>1 DEF Chain
    <3> QED
      BY <3>1
  <2>3. T # {}
    OBVIOUS
  <2>4. PICK k \in T : \A j \in T : k <= j
    <3> HIDE DEF T
    <3> QED
      BY <2>2, <2>3, Least
  <2>5. PICK d \in live \ S : \A e \in live \ S : rank[first] - rank[d] <= rank[first] - rank[e]
    BY <2>4
  <2>6. prev[d] # NULL
    BY <1>2, <2>1, <2>5 DEF Chain
  <2>7. prev[d] \in live /\ next[prev[d]] = d /\ d # NULL
    BY <1>1, <1>2, <2>5, <2>6 DEF Chain
  <2>8. rank[prev[d]] = rank[d] + 1
    BY <1>2, <2>7 DEF Chain
  <2>9. prev[d] \in S
    BY <1>3, <2>1, <2>5, <2>7, <2>8
  <2> QED
    BY <1>5, <2>5, <2>7, <2>9
<1>6. live \subseteq Reached
  BY <1>1, <1>5 DEF Reached
<1> QED
  BY <1>4, <1>6

\* The end of ks_pool_clear and ks_pool_close.
LEMMA FreeAllKeeps == ASSUME PoolIInv, FreeAll PROVE PoolIInv'
<1>1. stack # <<>> /\ Top = stack[Len(stack)] /\ Len(stack) \in 1 .. Len(stack) /\ Top.op = "free_all"
  BY BelowIs DEF FreeAll, InCall, Top, PoolIInv, PTypes
<1>2. cleaning_up
  BY <1>1 DEF PoolIInv, Calls, FreeOps
<1>3. /\ live' = {} /\ first' = NULL /\ last' = NULL /\ stack' = <<>> /\ Len(stack') = 0
      /\ opened' \in {"closed", "open"} /\ cleaning_up'
      /\ UNCHANGED <<stats, cleaning_up, resizes>>
  BY <1>2, ReachedIs DEF FreeAll, Erase
<1>4. PTypes /\ stats' = stats
  BY <1>3 DEF PoolIInv
<1>5. PTypes'
  <2>1. next' \in [Blocks -> Links] /\ prev' \in [Blocks -> Links] /\ NULL \in Links
    BY <1>4, Nothing DEF FreeAll, PTypes
  <2>2. refs' \in [Blocks -> 0 .. MaxRefs] /\ size' \in [Blocks -> BlockSizes \cup {0}]
    BY <1>4, BlocksBounded DEF FreeAll, Erase, PTypes
  <2>3. cleanup_callback' \in [Blocks -> Callbacks] /\ child' \in [Blocks -> Links]
    BY <1>4, Nothing DEF FreeAll, Erase, PTypes, Callbacks
  <2>4. phases' \in [Blocks -> Told3]
    <3>1. <<>> \in Told3
      BY SaidIs, SaidNext
    <3> QED
      BY <1>4, <3>1 DEF FreeAll, Erase, PTypes
  <2>5. live' \in SUBSET Blocks /\ stack' \in Seq(Frames)
    BY <1>3
  <2> QED
    BY <1>3, <1>4, <2>1, <2>2, <2>3, <2>4, <2>5 DEF PTypes, stats
<1>6. Linked'
  <2>1. [b \in Blocks |-> 0] \in Ranks
    BY DEF Ranks
  <2>2. Ends' /\ \A rank \in Ranks : Chain(rank)' /\ Younger(rank)' /\ InPass(rank)'
    BY <1>3 DEF Ends, Chain, Younger, InPass
  <2> QED
    BY <2>1, <2>2 DEF Linked
<1>7. Owning' /\ Calls' /\ Distinct' /\ Unreferenced' /\ Heard' /\ StatsExact'
  BY <1>3 DEF Owning, Calls, Distinct, Unreferenced, Heard, StatsExact
<1> QED
  BY <1>5, <1>6, <1>7 DEF PoolIInv

\* A pool that counts up to SizeSpan counts its blocks and their bytes.
LEMMA CountersSuffice ==
    ASSUME NEW z \in [Blocks -> BlockSizes \cup {0}], NEW s \in BlockSizes, Blocks # {}
    PROVE  z \in [Blocks -> Nat] /\ Total(z) \in Nat /\ Total(z) < SizeSpan /\ MaxBlocks < SizeSpan
<1>1. MaxBlocks \in Nat \ {0} /\ SizeSpan \in Nat /\ BlockSizes \subseteq Nat \ {0}
  BY BlocksBounded, CountersHoldAll, SizesPositive DEF Blocks
<1>2. \A t \in BlockSizes : MaxBlocks * t < SizeSpan /\ t <= MaxBlocks * t /\ MaxBlocks <= MaxBlocks * t
  <2> SUFFICES ASSUME NEW t \in BlockSizes
               PROVE  MaxBlocks * t < SizeSpan /\ t <= MaxBlocks * t /\ MaxBlocks <= MaxBlocks * t
    OBVIOUS
  <2>1. t \in Nat /\ t >= 1 /\ MaxBlocks \in Nat /\ MaxBlocks >= 1
    BY <1>1
  <2>2. (MaxBlocks - 1) * t >= 0 /\ (MaxBlocks - 1) * t = MaxBlocks * t - t
    BY <2>1
  <2>3. MaxBlocks * (t - 1) >= 0 /\ MaxBlocks * (t - 1) = MaxBlocks * t - MaxBlocks
    BY <2>1
  <2>4. MaxBlocks * t \in Int
    BY <2>1
  <2> QED
    BY <2>1, <2>2, <2>3, <2>4, CountersHoldAll
<1> DEFINE S == {SizeSpan - t : t \in BlockSizes}
<1>3. S \subseteq Nat
  <2>1. \A t \in BlockSizes : t \in Nat /\ MaxBlocks * t \in Int
    BY <1>1
  <2>2. \A t \in BlockSizes : SizeSpan - t \in Nat
    BY <1>1, <1>2, <2>1
  <2> QED
    BY <2>2
<1>4. S # {}
  OBVIOUS
<1>5. PICK k \in S : \A j \in S : k <= j
  <2> HIDE DEF S
  <2> QED
    BY <1>3, <1>4, Least
<1>6. PICK t \in BlockSizes : \A u \in BlockSizes : SizeSpan - t <= SizeSpan - u
  BY <1>5
<1>7. t \in Nat /\ \A u \in BlockSizes : u \in Nat /\ u <= t
  BY <1>1, <1>6
<1>8. z \in [Blocks -> Nat] /\ \A n \in Blocks : z[n] <= t
  BY <1>7
<1>9. Total(z) \in Nat /\ Total(z) <= MaxBlocks * t
  BY <1>7, <1>8, TotalBounded
<1>10. MaxBlocks * t \in Int /\ MaxBlocks * t < SizeSpan /\ MaxBlocks <= MaxBlocks * t
  BY <1>1, <1>2, <1>7
<1> QED
  BY <1>1, <1>8, <1>9, <1>10

\* The last part of free_mem takes the block out of the list.
LEMMA UnlinkChain ==
    ASSUME PTypes, NEW t \in live, NEW rank \in Ranks, Chain(rank), Ends,
           Unlink(t), live' = live \ {t},
           NEW low \in Ranks,
           low = [d \in Blocks |-> IF rank[d] > rank[t] THEN rank[d] - 1 ELSE rank[d]]
    PROVE  /\ Chain(low)' /\ Ends'
           /\ \A d, e \in live' : low[d] <= low[e] <=> rank[d] <= rank[e]
<1>1. live \subseteq Blocks /\ NULL \notin live
  BY Nothing DEF PTypes
<1>2. \A d \in live : rank[d] \in Nat /\ low[d] = IF rank[d] > rank[t] THEN rank[d] - 1 ELSE rank[d]
  BY <1>1 DEF Ranks
<1>3. \A d, e \in live : d # e => rank[d] # rank[e]
  BY DEF Chain
<1>4. ASSUME NEW d \in live', NEW e \in live'
      PROVE  (low[d] <= low[e] <=> rank[d] <= rank[e]) /\ (low[d] = low[e] => d = e)
  <2>1. d \in live /\ e \in live /\ rank[d] # rank[t] /\ rank[e] # rank[t]
    BY <1>3
  <2>2. /\ rank[d] \in Nat /\ rank[e] \in Nat /\ rank[t] \in Nat
        /\ low[d] = IF rank[d] > rank[t] THEN rank[d] - 1 ELSE rank[d]
        /\ low[e] = IF rank[e] > rank[t] THEN rank[e] - 1 ELSE rank[e]
    BY <1>2, <2>1
  <2>3. (low[d] <= low[e] <=> rank[d] <= rank[e]) /\ (low[d] = low[e] => rank[d] = rank[e])
    BY <2>1, <2>2
  <2> QED
    BY <1>3, <2>1, <2>3
<1>5. /\ \A d, e \in live' : low[d] = low[e] => d = e
      /\ \A d, e \in live' : low[d] <= low[e] <=> rank[d] <= rank[e]
  BY <1>4
<1>6. /\ first' = IF prev[t] = NULL THEN next[t] ELSE first
      /\ last' = IF next[t] = NULL THEN prev[t] ELSE last
      /\ \A d \in live' : /\ prev'[d] = IF d = next[t] THEN prev[t] ELSE prev[d]
                          /\ next'[d] = IF d = prev[t] THEN next[t] ELSE next[d]
  BY <1>1 DEF Unlink
<1>7. /\ next[t] # NULL => next[t] \in live' /\ prev[next[t]] = t /\ rank[t] = rank[next[t]] + 1
      /\ prev[t] # NULL => prev[t] \in live' /\ next[prev[t]] = t /\ rank[prev[t]] = rank[t] + 1
      /\ next[t] = NULL => rank[t] = 0
      /\ prev[t] = NULL <=> first = t
      /\ next[t] = NULL <=> last = t
  BY <1>1, <1>2 DEF Chain
<1>8. \A d \in live' : /\ d # next[t] => prev[d] # t
                       /\ d # prev[t] => next[d] # t
                       /\ d \in live /\ d # t /\ d # NULL
  BY <1>1 DEF Chain
<1>9. Ends'
  <2>1. CASE live' = {}
    BY <1>1, <1>6, <1>7, <2>1 DEF Ends
  <2>2. CASE live' # {}
    <3>1. PICK d \in live' : TRUE
      BY <2>2
    <3>2. ~(prev[t] = NULL /\ next[t] = NULL)
      <4>1. d \in live /\ d # t /\ rank[d] <= rank[first] /\ rank[d] # rank[t]
        BY <1>3, <1>8 DEF Chain
      <4>2. rank[d] \in Nat /\ rank[t] \in Nat
        BY <1>2, <4>1
      <4> QED
        BY <1>7, <4>1, <4>2
    <3>3. first' \in live' /\ last' \in live'
      BY <1>6, <1>7, <3>2 DEF Ends
    <3> QED
      BY <2>2, <3>3 DEF Ends
  <2> QED
    BY <2>1, <2>2
<1>10. ASSUME NEW d \in live'
       PROVE  /\ next'[d] = NULL => low[d] = 0
              /\ next'[d] # NULL => /\ next'[d] \in live' /\ prev'[next'[d]] = d
                                    /\ low[d] = low[next'[d]] + 1
              /\ prev'[d] # NULL => prev'[d] \in live' /\ next'[prev'[d]] = d
              /\ prev'[d] = NULL <=> first' = d
              /\ next'[d] = NULL <=> last' = d
  <2>1. /\ d \in live /\ d # t /\ d # NULL /\ rank[d] \in Nat /\ rank[t] \in Nat
        /\ next[d] = NULL => rank[d] = 0
        /\ next[d] # NULL => next[d] \in live /\ prev[next[d]] = d /\ rank[d] = rank[next[d]] + 1
        /\ prev[d] # NULL => prev[d] \in live /\ next[prev[d]] = d
        /\ prev[d] = NULL <=> first = d
        /\ next[d] = NULL <=> last = d
    BY <1>2, <1>8 DEF Chain
  <2>2. CASE d = prev[t]
    <3>1. next'[d] = next[t] /\ rank[d] = rank[t] + 1 /\ low[d] = rank[t]
      BY <1>2, <1>6, <1>7, <2>1, <2>2
    <3>2. next[t] # NULL => prev'[next[t]] = d /\ low[next[t]] + 1 = low[d]
      BY <1>2, <1>6, <1>7, <1>8, <2>1, <2>2, <3>1
    <3>3. d # next[t] /\ prev'[d] = prev[d]
      BY <1>2, <1>6, <1>7, <2>1, <2>2
    <3>4. prev[d] # NULL => prev[d] \in live' /\ prev[d] # prev[t] /\ next'[prev[d]] = d
      <4>1. prev[d] # t
        BY <1>8, <3>3
      <4> QED
        BY <1>6, <1>7, <2>1, <2>2, <4>1
    <3> QED
      BY <1>6, <1>7, <2>1, <2>2, <3>1, <3>2, <3>3, <3>4
  <2>3. CASE d # prev[t]
    <3>1. next'[d] = next[d] /\ next[d] # t
      BY <1>6, <1>8, <2>3
    <3>2. /\ next[d] = NULL => rank[d] = 0 /\ low[d] = 0
          /\ next[d] # NULL => next[d] \in live' /\ prev'[next[d]] = d /\ low[d] = low[next[d]] + 1
      <4>1. CASE next[d] = NULL
        BY <1>2, <2>1, <4>1
      <4>2. CASE next[d] # NULL
        <5>1. next[d] \in live' /\ next[d] # next[t]
          BY <1>7, <2>1, <3>1, <4>2
        <5>2. prev'[next[d]] = d
          BY <1>6, <2>1, <4>2, <5>1
        <5>3. rank[next[d]] # rank[t] /\ rank[next[d]] \in Nat /\ rank[d] = rank[next[d]] + 1
          BY <1>2, <1>3, <2>1, <3>1, <4>2
        <5>4. low[d] = low[next[d]] + 1
          BY <1>2, <2>1, <4>2, <5>3
        <5> QED
          BY <4>2, <5>1, <5>2, <5>4
      <4> QED
        BY <4>1, <4>2
    <3>3. CASE d = next[t]
      <4>1. prev'[d] = prev[t] /\ prev[d] = t
        BY <1>6, <1>7, <2>1, <3>3
      <4>2. prev[t] # NULL => prev[t] \in live' /\ next'[prev[t]] = d
        BY <1>6, <1>7, <3>3
      <4> QED
        BY <1>1, <1>6, <1>7, <2>1, <3>1, <3>2, <3>3, <4>1, <4>2
    <3>4. CASE d # next[t]
      <4>1. prev'[d] = prev[d] /\ prev[d] # t
        BY <1>6, <1>8, <3>4
      <4>2. prev[d] # NULL => prev[d] \in live' /\ next'[prev[d]] = d
        BY <1>6, <1>7, <2>1, <2>3, <4>1
      <4>3. prev[d] = NULL <=> first' = d
        BY <1>6, <1>7, <2>1, <3>4
      <4>4. next[d] = NULL <=> last' = d
        BY <1>6, <1>7, <2>1, <2>3
      <4> QED
        BY <3>1, <3>2, <4>1, <4>2, <4>3, <4>4
    <3> QED
      BY <3>3, <3>4
  <2> QED
    BY <2>2, <2>3
<1>11. ASSUME NEW d \in live' PROVE low[d] <= low[first']
  <2>1. first' \in live'
    BY <1>9 DEF Ends
  <2>2. rank[d] <= rank[first']
    <3>1. d \in live /\ d # t /\ rank[d] <= rank[first] /\ rank[d] # rank[t]
      BY <1>3, <1>8 DEF Chain
    <3>2. CASE prev[t] # NULL
      BY <1>6, <3>1, <3>2
    <3>3. CASE prev[t] = NULL
      BY <1>2, <1>6, <1>7, <1>9, <2>1, <3>1, <3>3
    <3> QED
      BY <3>2, <3>3
  <2> QED
    BY <1>5, <2>1, <2>2
<1>12. Chain(low)'
  BY <1>5, <1>10, <1>11 DEF Chain
<1> QED
  BY <1>5, <1>9, <1>12

\* The last part of free_mem.
LEMMA UnlinkKeeps == ASSUME PoolIInv, FreeUnlink PROVE PoolIInv'
<1> DEFINE m == Len(stack)
<1>1. /\ stack # <<>> /\ Top = stack[m] /\ m \in 1 .. m /\ m \in Nat /\ Top.op = "unlink"
      /\ Below \in Seq(Frames) /\ Len(Below) = m - 1 /\ \A i \in 1 .. m - 1 : Below[i] = stack[i]
  <2>1. stack \in Seq(Frames) /\ stack # <<>> /\ Top.op = "unlink" /\ Top = stack[m]
    BY DEF FreeUnlink, InCall, Top, PoolIInv, PTypes
  <2>2. /\ Len(stack) \in Nat \ {0} /\ Below \in Seq(Frames) /\ Len(Below) = Len(stack) - 1
        /\ \A i \in 1 .. Len(stack) - 1 : Below[i] = stack[i]
    BY <2>1, BelowIs
  <2> QED
    BY <2>1, <2>2
<1>2. PTypes /\ live \subseteq Blocks /\ NULL \notin live
  BY Nothing DEF PoolIInv, PTypes
<1>3. PICK t \in live : t = Top.b /\ refs[t] = 0 /\ stack[m].b = t /\ stack[m].op = "unlink"
  BY <1>1 DEF PoolIInv, Calls, Unreferenced, FreeOps
<1>4. /\ Unlink(t) /\ CountOut(t) /\ live' = live \ {t} /\ stack' = Below
      /\ size' = [n \in Blocks |-> IF n \in {t} THEN 0 ELSE size[n]]
      /\ cleanup_callback' = [n \in Blocks |-> IF n \in {t} THEN NULL ELSE cleanup_callback[n]]
      /\ child' = [n \in Blocks |-> IF n \in {t} THEN NULL ELSE child[n]]
      /\ phases' = [n \in Blocks |-> IF n \in {t} THEN <<>> ELSE phases[n]]
      /\ UNCHANGED <<refs, cleaning_up, opened, resizes>>
  BY <1>3 DEF FreeUnlink, Erase
<1>5. \A d \in live' : /\ d \in live /\ d # t /\ d # NULL /\ size'[d] = size[d] /\ child'[d] = child[d]
                       /\ cleanup_callback'[d] = cleanup_callback[d] /\ phases'[d] = phases[d]
  BY <1>2, <1>4
<1>6. /\ Len(stack') = m - 1
      /\ \A i \in 1 .. m - 1 : /\ stack'[i] = stack[i] /\ i \in 1 .. m /\ i # m
                               /\ stack[i].b # NULL => stack[i].b \in live'
  <2>1. Len(stack') = m - 1 /\ \A i \in 1 .. m - 1 : stack'[i] = stack[i] /\ i \in 1 .. m /\ i # m
    BY <1>1, <1>4
  <2>2. ASSUME NEW i \in 1 .. m - 1, stack[i].b # NULL PROVE stack[i].b \in live'
    <3>1. stack[i].b \in live
      BY <2>1, <2>2 DEF PoolIInv, Calls
    <3>2. stack[i].b # t
      BY <1>1, <1>2, <1>3, <2>1, <2>2 DEF PoolIInv, Distinct
    <3> QED
      BY <1>4, <3>1, <3>2
  <2> QED
    BY <2>1, <2>2
<1>7. PTypes'
  <2>1. /\ next' \in [Blocks -> Links] /\ prev' \in [Blocks -> Links]
        /\ first' \in Links /\ last' \in Links
    BY <1>2, <1>3, <1>4, Nothing DEF Unlink, PTypes
  <2>2. size' \in [Blocks -> BlockSizes \cup {0}] /\ cleanup_callback' \in [Blocks -> Callbacks]
    BY <1>2, <1>4 DEF PTypes, Callbacks
  <2>3. child' \in [Blocks -> Links]
    BY <1>2, <1>4, Nothing DEF PTypes
  <2>4. phases' \in [Blocks -> Told3]
    <3>1. <<>> \in Told3
      BY SaidIs, SaidNext
    <3> QED
      BY <1>2, <1>4, <3>1 DEF PTypes
  <2>5. alloc_c' \in Counters /\ user_alloc' \in Counters
    <3>1. /\ SizeSpan \in Nat \ {0} /\ alloc_c \in Int /\ user_alloc \in Int /\ size[t] \in Int
          /\ alloc_c' = (alloc_c - 1) % SizeSpan /\ user_alloc' = (user_alloc - size[t]) % SizeSpan
      <4>1. size[t] \in Int
        BY <1>2, <1>3, SizesAreNat DEF PTypes
      <4> QED
        BY <1>2, <1>4, <4>1, CountersHoldAll DEF PTypes, Counters, CountOut
    <3>2. ASSUME NEW a \in Int PROVE a % SizeSpan \in 0 .. SizeSpan - 1
      BY <3>1
    <3>3. alloc_c - 1 \in Int /\ user_alloc - size[t] \in Int
      BY <3>1
    <3> QED
      BY <3>1, <3>2, <3>3 DEF Counters
  <2>6. live' \in SUBSET Blocks /\ stack' \in Seq(Frames)
    BY <1>1, <1>2, <1>4
  <2> QED
    BY <1>2, <1>4, <2>1, <2>2, <2>3, <2>4, <2>5, <2>6 DEF PTypes
<1>8. PICK rank \in Ranks : Chain(rank) /\ Younger(rank) /\ Ends /\ InPass(rank)
  BY DEF PoolIInv, Linked
<1>9. PICK low \in Ranks :
        low = [d \in Blocks |-> IF rank[d] > rank[t] THEN rank[d] - 1 ELSE rank[d]]
  <2>1. \A d \in Blocks : rank[d] \in Nat /\ rank[t] \in Nat
    BY <1>2, <1>3 DEF Ranks
  <2>2. [d \in Blocks |-> IF rank[d] > rank[t] THEN rank[d] - 1 ELSE rank[d]] \in [Blocks -> Nat]
    BY <2>1
  <2> QED
    BY <2>2 DEF Ranks
<1>10. /\ Chain(low)' /\ Ends'
       /\ \A d, e \in live' : low[d] <= low[e] <=> rank[d] <= rank[e]
  BY <1>2, <1>3, <1>4, <1>8, <1>9, UnlinkChain
<1>11. \A d, e \in live' : low[d] \in Nat /\ rank[d] \in Nat /\ (low[d] < low[e] <=> rank[d] < rank[e])
  <2>1. \A d \in live' : low[d] \in Nat /\ rank[d] \in Nat
    BY <1>2, <1>5, <1>9 DEF Ranks
  <2> QED
    BY <1>10, <2>1
<1>12. \A d \in live' : child[d] # t
  BY <1>2, <1>3, <1>5 DEF PoolIInv, Owning
<1>13. Linked'
  <2>1. Younger(low)'
    <3> SUFFICES ASSUME NEW o \in live', child'[o] # NULL
                 PROVE  child'[o] \in live' /\ low[o] < low[child'[o]]
      BY DEF Younger
    <3>1. child'[o] = child[o] /\ child[o] \in live /\ rank[o] < rank[child[o]] /\ child[o] # t
      BY <1>5, <1>8, <1>12 DEF Younger
    <3>2. child[o] \in live'
      BY <1>4, <3>1
    <3> QED
      BY <1>11, <3>1, <3>2
  <2>2. InPass(low)'
    <3> SUFFICES ASSUME NEW n \in 1 .. 3, stack' # <<>>, stack'[1].op = Phases[n], NEW d \in live',
                        cleanup_callback'[d] # NULL
                 PROVE  phases'[d] = IF stack'[1].b # NULL /\ low[d] <= low[stack'[1].b]
                                     THEN Said[n - 1] ELSE Said[n]
      BY DEF InPass
    <3>1. 1 \in 1 .. m - 1
      <4>1. Len(stack') # 0 /\ Len(stack') \in Nat
        BY <1>7 DEF PTypes
      <4> QED
        BY <1>1, <1>6, <4>1
    <3>2. stack'[1] = stack[1] /\ (stack[1].b # NULL => stack[1].b \in live')
      BY <1>6, <3>1
    <3>3. phases[d] = IF stack[1].b # NULL /\ rank[d] <= rank[stack[1].b] THEN Said[n - 1] ELSE Said[n]
      BY <1>1, <1>5, <1>8, <3>2 DEF InPass
    <3> QED
      BY <1>5, <1>10, <3>2, <3>3
  <2> QED
    BY <1>9, <1>10, <2>1, <2>2 DEF Linked
<1>14. Owning'
  <2>1. \A o, p \in live' : /\ child[o] # NULL => refs[child[o]] > 0
                            /\ child[o] # NULL /\ child[o] = child[p] => o = p
    BY <1>5 DEF PoolIInv, Owning
  <2>2. refs' = refs /\ \A o \in live' : child'[o] = child[o]
    BY <1>4, <1>5
  <2>3. \A o, p \in live' : /\ child'[o] # NULL => refs'[child'[o]] > 0
                            /\ child'[o] # NULL /\ child'[o] = child'[p] => o = p
    BY <2>1, <2>2
  <2> QED
    BY <2>3 DEF Owning
<1>15. Calls'
  <2>1. \A i \in 1 .. m - 1 : /\ stack'[i].op # "free_all"
                              /\ stack'[i].b # NULL => stack'[i].b \in live'
                              /\ stack'[i].op \in FreeOps => stack'[i].b # NULL
                              /\ stack'[i].op \notin FreeOps =>
                                   i = 1 /\ cleaning_up /\ opened \in {"clearing", "closing"}
                              /\ cleaning_up /\ stack'[i].op \in FreeOps => FALSE
    BY <1>1, <1>6 DEF PoolIInv, Calls
  <2>2. opened \in {"clearing", "closing"} =>
          cleaning_up /\ stack' # <<>> /\ stack'[1].op \notin FreeOps
    <3> SUFFICES ASSUME opened \in {"clearing", "closing"}
                 PROVE  cleaning_up /\ stack' # <<>> /\ stack'[1].op \notin FreeOps
      OBVIOUS
    <3>1. cleaning_up /\ stack[1].op \notin FreeOps
      BY DEF PoolIInv, Calls
    <3>2. m # 1
      BY <1>3, <3>1 DEF FreeOps
    <3>3. 1 \in 1 .. m - 1 /\ Len(stack') # 0
      BY <1>1, <1>6, <3>2
    <3> QED
      BY <1>6, <3>1, <3>3
  <2>3. opened # "closed"
    BY <1>1 DEF PoolIInv, Calls
  <2> QED
    BY <1>4, <1>6, <2>1, <2>2, <2>3 DEF Calls
<1>16. Distinct'
  BY <1>6 DEF PoolIInv, Distinct
<1>17. Unreferenced'
  <2> SUFFICES ASSUME NEW d \in live'
               PROVE  refs[d] = 0 <=> \E i \in 1 .. m - 1 : stack'[i].op \in FreeOps /\ stack'[i].b = d
    BY <1>4, <1>6 DEF Unreferenced
  <2>1. refs[d] = 0 <=> \E i \in 1 .. m : stack[i].op \in FreeOps /\ stack[i].b = d
    BY <1>5 DEF PoolIInv, Unreferenced
  <2>2. \A i \in 1 .. m : stack[i].b = d => i \in 1 .. m - 1
    BY <1>1, <1>3, <1>5
  <2> QED
    BY <1>6, <2>1, <2>2
<1>18. Heard'
  <2>1. cleaning_up /\ opened \in {"open", "closed"} => \A d \in live' : phases'[d] = Said[0]
    BY <1>5 DEF PoolIInv, Heard
  <2>2. ~cleaning_up => \A d \in live' : refs[d] # 0 => phases'[d] = Said[0]
    BY <1>5 DEF PoolIInv, Heard
  <2>3. ASSUME ~cleaning_up, NEW i \in 1 .. m - 1
        PROVE  /\ stack'[i].op = "announce" => phases'[stack'[i].b] = Said[0]
               /\ stack'[i].op = "teardown" => phases'[stack'[i].b] = Said[1]
               /\ stack'[i].op = "destroy" => phases'[stack'[i].b] = Said[2]
               /\ stack'[i].op = "unlink" /\ cleanup_callback'[stack'[i].b] # NULL =>
                    phases'[stack'[i].b] = Said[3]
    <3>1. stack'[i] = stack[i] /\ i \in 1 .. m /\ stack[i].b # NULL
      BY <1>6, <2>3 DEF PoolIInv, Calls
    <3>2. /\ stack[i].b \in live' /\ phases'[stack[i].b] = phases[stack[i].b]
          /\ cleanup_callback'[stack[i].b] = cleanup_callback[stack[i].b]
      BY <1>5, <1>6, <3>1
    <3> QED
      BY <2>3, <3>1, <3>2 DEF PoolIInv, Heard
  <2> QED
    BY <1>4, <1>6, <2>1, <2>2, <2>3 DEF Heard
<1>19. StatsExact'
  <2> SUFFICES ASSUME ~cleaning_up
               PROVE  alloc_c' = Cardinality(live') /\ (resizes = 0 => user_alloc' = SizesOf(live)')
    BY <1>4 DEF StatsExact
  <2>1. /\ SizeSpan \in Nat \ {0} /\ alloc_c \in 0 .. SizeSpan - 1 /\ user_alloc \in 0 .. SizeSpan - 1
        /\ alloc_c' = (alloc_c - 1) % SizeSpan /\ user_alloc' = (user_alloc - size[t]) % SizeSpan
        /\ alloc_c = Cardinality(live) /\ (resizes = 0 => user_alloc = SizesOf(live))
    BY <1>2, <1>4, CountersHoldAll DEF PoolIInv, PTypes, Counters, CountOut, StatsExact
  <2>2. ASSUME NEW a \in 0 .. SizeSpan - 1 PROVE a % SizeSpan = a
    BY <2>1, <2>2
  <2>3. IsFiniteSet(live) /\ Cardinality(live') = Cardinality(live) - 1 /\ Cardinality(live') \in Nat
    <3>1. IsFiniteSet(live)
      BY <1>2, Nothing, FS_Subset
    <3>2. IsFiniteSet(live') /\ Cardinality(live') = Cardinality(live) - 1
      BY <1>3, <1>4, <3>1, FS_RemoveElement
    <3> QED
      BY <3>1, <3>2, FS_CardinalityType
  <2>4. alloc_c' = Cardinality(live')
    <3>1. alloc_c - 1 \in 0 .. SizeSpan - 1
      BY <2>1, <2>3
    <3> QED
      BY <2>1, <2>2, <2>3, <3>1
  <2>5. ASSUME resizes = 0 PROVE user_alloc' = SizesOf(live)'
    <3> DEFINE z == [b \in Blocks |-> IF b \in live THEN size[b] ELSE 0]
               w == [b \in Blocks |-> IF b \in live' THEN size'[b] ELSE 0]
    <3>1. z \in [Blocks -> Nat] /\ w \in [Blocks -> Nat]
      BY <1>2, <1>7, SizesAreNat DEF PTypes
    <3>2. w[t] = 0 /\ z[t] = size[t] /\ \A n \in Blocks : n # t => w[n] = z[n]
      BY <1>2, <1>3, <1>4
    <3>3. SizesOf(live) = Total(z) /\ SizesOf(live)' = Total(w)
      BY DEF SizesOf
    <3> HIDE DEF z, w
    <3>4. Total(w) = Total(z) - size[t] /\ Total(w) \in Nat
      <4>1. Total(z) \in Nat /\ Total(w) \in Nat /\ Total(w) = Total(z) - z[t] + w[t]
        BY <1>2, <1>3, <3>1, <3>2, TotalChanges
      <4>2. size[t] \in Nat
        BY <1>2, <1>3, SizesAreNat DEF PTypes
      <4> QED
        BY <3>2, <4>1, <4>2
    <3>5. size[t] \in Nat
      BY <1>2, <1>3, SizesAreNat DEF PTypes
    <3>6. user_alloc - size[t] = Total(w) /\ user_alloc - size[t] \in 0 .. SizeSpan - 1
      BY <2>1, <2>5, <3>3, <3>4, <3>5
    <3> QED
      BY <2>1, <2>2, <3>3, <3>6
  <2> QED
    BY <2>4, <2>5
<1> QED
  BY <1>7, <1>13, <1>14, <1>15, <1>16, <1>17, <1>18, <1>19 DEF PoolIInv

\* alloc_mem: a new block in front of the list.
LEMMA AllocKeeps == ASSUME PoolIInv, NEW s \in BlockSizes, Alloc(s) PROVE PoolIInv'
<1>1. Idle /\ live # Blocks
  BY DEF Alloc
<1>2. /\ stack = <<>> /\ Len(stack) = 0 /\ opened = "open"
      /\ \A c \in live : refs[c] # 0 /\ phases[c] = Said[0]
  BY <1>1, IdleIs
<1>3. PTypes /\ live \subseteq Blocks /\ NULL \notin live
  BY Nothing DEF PoolIInv, PTypes
<1>4. PICK b \in Blocks : b = Free /\ b \notin live
  BY <1>1, <1>3, FreeIs
<1>5. b # NULL
  BY Nothing
<1>6. /\ next' = [next EXCEPT ![b] = first]
      /\ prev' = [n \in Blocks |-> IF n = first THEN b ELSE IF n = b THEN NULL ELSE prev[n]]
      /\ first' = b /\ last' = IF last = NULL THEN b ELSE last
  BY <1>4 DEF Alloc
<1>7. /\ refs' = [refs EXCEPT ![b] = 1] /\ size' = [size EXCEPT ![b] = s]
      /\ cleanup_callback' = [cleanup_callback EXCEPT ![b] = NULL]
      /\ child' = [child EXCEPT ![b] = NULL] /\ phases' = [phases EXCEPT ![b] = <<>>]
      /\ live' = live \cup {b}
  BY <1>4 DEF Alloc
<1>8. /\ alloc_c' = (alloc_c + 1) % SizeSpan /\ user_alloc' = (user_alloc + s) % SizeSpan
      /\ cleaning_up' = cleaning_up /\ stack' = stack /\ opened' = opened /\ resizes' = resizes
  BY DEF Alloc
<1>9. /\ refs'[b] = 1 /\ child'[b] = NULL /\ phases'[b] = Said[0]
      /\ \A d \in live : /\ d # b /\ refs'[d] = refs[d] /\ child'[d] = child[d]
                         /\ phases'[d] = phases[d]
  BY <1>3, <1>4, <1>7, SaidIs DEF PTypes
<1>10. /\ first # b /\ last # b
       /\ next'[b] = first /\ prev'[b] = NULL
       /\ \A d \in live : /\ next'[d] = next[d]
                          /\ prev'[d] = IF d = first THEN b ELSE prev[d]
  <2>1. first # b /\ last # b
    BY <1>3, <1>4, <1>5 DEF PoolIInv, Linked, Ends
  <2> QED
    BY <1>3, <1>4, <1>6, <2>1 DEF PTypes
<1>11. PTypes'
  <2>1. /\ next' \in [Blocks -> Links] /\ prev' \in [Blocks -> Links]
        /\ first' \in Links /\ last' \in Links
    BY <1>3, <1>6, Nothing DEF PTypes
  <2>2. refs' \in [Blocks -> 0 .. MaxRefs] /\ size' \in [Blocks -> BlockSizes \cup {0}]
    BY <1>3, <1>7, BlocksBounded DEF PTypes
  <2>3. cleanup_callback' \in [Blocks -> Callbacks] /\ child' \in [Blocks -> Links]
    BY <1>3, <1>7, Nothing DEF PTypes, Callbacks
  <2>4. phases' \in [Blocks -> Told3]
    BY <1>3, <1>7, SaidIs, SaidNext DEF PTypes
  <2>5. alloc_c' \in Counters /\ user_alloc' \in Counters
    <3>1. SizeSpan \in Nat \ {0} /\ alloc_c \in Int /\ user_alloc \in Int /\ s \in Int
      BY <1>3, CountersHoldAll, SizesAreNat DEF PTypes, Counters
    <3>2. ASSUME NEW a \in Int PROVE a % SizeSpan \in 0 .. SizeSpan - 1
      BY <3>1
    <3>3. alloc_c + 1 \in Int /\ user_alloc + s \in Int
      BY <3>1
    <3> QED
      BY <1>8, <3>2, <3>3 DEF Counters
  <2>6. live' \in SUBSET Blocks
    BY <1>3, <1>7
  <2> QED
    BY <1>3, <1>8, <2>1, <2>2, <2>3, <2>4, <2>5, <2>6 DEF PTypes
<1>12. Calls' /\ Distinct' /\ \A rank \in Ranks : InPass(rank)'
  BY <1>2, <1>8, NoCalls
<1>13. PICK rank \in Ranks : Chain(rank) /\ Younger(rank) /\ Ends
  BY DEF PoolIInv, Linked
<1>14. PICK high \in Ranks :
         /\ high[b] = IF first = NULL THEN 0 ELSE rank[first] + 1
         /\ \A d \in live : high[d] = rank[d]
  <2> DEFINE k == IF first = NULL THEN 0 ELSE rank[first] + 1
  <2>1. k \in Nat
    BY <1>3 DEF Ranks, PTypes, Links
  <2>2. [rank EXCEPT ![b] = k] \in Ranks
    BY <2>1 DEF Ranks
  <2>3. /\ [rank EXCEPT ![b] = k][b] = k
        /\ \A d \in live : [rank EXCEPT ![b] = k][d] = rank[d]
    BY <1>3, <1>4 DEF Ranks
  <2> QED
    BY <2>2, <2>3
<1>15. \A d \in live : rank[d] \in Nat
  BY <1>3 DEF Ranks
<1>16. ASSUME live = {} PROVE Linked'
  <2>1. first = NULL /\ last = NULL /\ live' = {b} /\ last' = b
    BY <1>6, <1>7, <1>13, <1>16 DEF Ends
  <2>2. Chain(high)' /\ Ends' /\ Younger(high)'
    BY <1>5, <1>6, <1>9, <1>10, <1>14, <2>1 DEF Chain, Ends, Younger
  <2> QED
    BY <1>12, <2>2 DEF Linked
<1>17. ASSUME live # {} PROVE Linked'
  <2>1. first \in live /\ last \in live /\ first # NULL /\ last # NULL /\ last' = last
    BY <1>3, <1>6, <1>13, <1>17 DEF Ends
  <2>2. high[b] = rank[first] + 1 /\ rank[first] \in Nat
    BY <1>14, <1>15, <2>1
  <2>3. Ends'
    BY <1>6, <1>7, <2>1 DEF Ends
  <2>4. Chain(high)'
    <3>1. \A d \in live : high[d] < high[b] /\ high[d] = rank[d]
      BY <1>13, <1>14, <1>15, <2>2 DEF Chain
    <3>2. \A d, e \in live' : high[d] = high[e] => d = e
      BY <1>7, <1>13, <1>15, <2>2, <3>1 DEF Chain
    <3>3. \A d \in live' : high[d] <= high[first']
      BY <1>6, <1>7, <1>15, <2>2, <3>1
    <3>4. ASSUME NEW d \in live
          PROVE  /\ next'[d] = NULL => high[d] = 0
                 /\ next'[d] # NULL => /\ next'[d] \in live' /\ prev'[next'[d]] = d
                                       /\ high[d] = high[next'[d]] + 1
                 /\ prev'[d] # NULL => prev'[d] \in live' /\ next'[prev'[d]] = d
                 /\ prev'[d] = NULL <=> first' = d
                 /\ next'[d] = NULL <=> last' = d
      <4>1. /\ next[d] = NULL => rank[d] = 0
            /\ next[d] # NULL => next[d] \in live /\ prev[next[d]] = d /\ rank[d] = rank[next[d]] + 1
            /\ prev[d] # NULL => prev[d] \in live /\ next[prev[d]] = d
            /\ prev[d] = NULL <=> first = d
            /\ next[d] = NULL <=> last = d
            /\ d # b /\ d # NULL
        BY <1>3, <1>4, <1>13 DEF Chain
      <4>2. next[d] # first
        BY <1>3, <1>13, <2>1, <4>1 DEF Chain
      <4> QED
        BY <1>5, <1>6, <1>7, <1>10, <1>14, <2>1, <4>1, <4>2
    <3>5. /\ next'[b] # NULL /\ next'[b] \in live' /\ prev'[next'[b]] = b
          /\ high[b] = high[next'[b]] + 1 /\ prev'[b] = NULL /\ first' = b /\ last' # b
      BY <1>6, <1>7, <1>10, <1>14, <2>1, <2>2
    <3> QED
      BY <1>7, <3>2, <3>3, <3>4, <3>5 DEF Chain
  <2>5. Younger(high)'
    BY <1>7, <1>9, <1>13, <1>14 DEF Younger
  <2> QED
    BY <1>12, <2>3, <2>4, <2>5 DEF Linked
<1>18. Linked'
  BY <1>16, <1>17
<1>19. Owning'
  <2>1. \A o \in live : child[o] # NULL => child[o] \in live
    BY <1>13 DEF Younger
  <2> QED
    BY <1>7, <1>9, <2>1 DEF PoolIInv, Owning
<1>20. Unreferenced' /\ Heard'
  BY <1>2, <1>7, <1>8, <1>9 DEF Unreferenced, Heard
<1>21. StatsExact'
  <2> SUFFICES ASSUME ~cleaning_up
               PROVE  alloc_c' = Cardinality(live') /\ (resizes = 0 => user_alloc' = SizesOf(live)')
    BY <1>8 DEF StatsExact
  <2>1. /\ SizeSpan \in Nat \ {0} /\ alloc_c = Cardinality(live)
        /\ resizes = 0 => user_alloc = SizesOf(live)
    BY CountersHoldAll DEF PoolIInv, StatsExact
  <2>2. ASSUME NEW a \in 0 .. SizeSpan - 1 PROVE a % SizeSpan = a
    BY <2>1, <2>2
  <2> DEFINE z == [c \in Blocks |-> IF c \in live THEN size[c] ELSE 0]
             w == [c \in Blocks |-> IF c \in live' THEN size'[c] ELSE 0]
  <2>3. z \in [Blocks -> BlockSizes \cup {0}] /\ w \in [Blocks -> BlockSizes \cup {0}]
    BY <1>3, <1>11 DEF PTypes
  <2>4. w[b] = s /\ z[b] = 0 /\ \A n \in Blocks : n # b => w[n] = z[n]
    BY <1>3, <1>4, <1>7 DEF PTypes
  <2>5. SizesOf(live) = Total(z) /\ SizesOf(live)' = Total(w)
    BY DEF SizesOf
  <2> HIDE DEF z, w
  <2>6. /\ z \in [Blocks -> Nat] /\ w \in [Blocks -> Nat]
        /\ Total(w) \in Nat /\ Total(w) < SizeSpan /\ MaxBlocks < SizeSpan
    BY <2>3, CountersSuffice
  <2>7. Total(z) \in Nat /\ Total(w) = Total(z) - z[b] + w[b] /\ s \in Nat
    BY <2>4, <2>6, TotalChanges, SizesAreNat
  <2>8. alloc_c' = Cardinality(live')
    <3>1. IsFiniteSet(live) /\ IsFiniteSet(Blocks) /\ Cardinality(Blocks) = MaxBlocks
      <4>1. MaxBlocks \in Nat /\ 1 \in Int /\ MaxBlocks \in Int
        BY BlocksBounded
      <4>2. IsFiniteSet(1 .. MaxBlocks)
            /\ Cardinality(1 .. MaxBlocks) = (IF 1 > MaxBlocks THEN 0 ELSE MaxBlocks - 1 + 1)
        BY <4>1, FS_Interval
      <4>3. Cardinality(Blocks) = MaxBlocks
        BY <4>1, <4>2 DEF Blocks
      <4> QED
        BY <1>3, <4>3, Nothing, FS_Subset
    <3>2. Cardinality(live') = Cardinality(live) + 1 /\ IsFiniteSet(live')
      BY <1>4, <1>7, <3>1, FS_AddElement
    <3>3. Cardinality(live') <= Cardinality(Blocks)
      BY <1>3, <1>7, <3>1, FS_Subset
    <3>4. Cardinality(live) \in Nat /\ MaxBlocks \in Nat
      BY <3>1, FS_CardinalityType, BlocksBounded
    <3>5. alloc_c + 1 = Cardinality(live') /\ alloc_c + 1 \in 0 .. SizeSpan - 1
      BY <2>1, <2>6, <3>1, <3>2, <3>3, <3>4
    <3> QED
      BY <1>8, <2>2, <3>5
  <2>9. ASSUME resizes = 0 PROVE user_alloc' = SizesOf(live)'
    <3>1. user_alloc + s = Total(w) /\ user_alloc + s \in 0 .. SizeSpan - 1
      BY <2>1, <2>4, <2>5, <2>6, <2>7, <2>9
    <3> QED
      BY <1>8, <2>2, <2>5, <3>1
  <2> QED
    BY <2>8, <2>9
<1> QED
  BY <1>11, <1>12, <1>18, <1>19, <1>20, <1>21 DEF PoolIInv

\* ks_pool_resize: realloc leaves the block where it is or moves it.
LEMMA ResizeKeeps ==
    ASSUME PoolIInv, NEW b \in Blocks, NEW nb \in Blocks, NEW s \in BlockSizes, Resize(b, nb, s)
    PROVE  PoolIInv'
<1>1. /\ Idle /\ b \in live /\ refs[b] = 1 /\ resizes < MaxResizes /\ Relink(b, nb)
      /\ live' = (live \ {b}) \cup {nb} /\ resizes' = resizes + 1
      /\ UNCHANGED <<stats, cleaning_up, stack, opened>>
  BY DEF Resize
<1>2. /\ stack = <<>> /\ Len(stack) = 0 /\ opened = "open"
      /\ \A c \in live : refs[c] # 0 /\ phases[c] = Said[0]
  BY <1>1, IdleIs
<1>3. PTypes /\ live \subseteq Blocks /\ NULL \notin live
  BY Nothing DEF PoolIInv, PTypes
<1>4. nb = b \/ nb \notin live
  BY <1>3, FreeIs DEF Resize
<1>5. nb # NULL /\ b # NULL
  BY Nothing
<1> DEFINE kept == [n \in Blocks |-> IF n = nb THEN child[b] ELSE IF n = b THEN NULL ELSE child[n]]
<1>6. /\ size' = [[n \in Blocks |-> IF n = nb THEN size[b] ELSE IF n = b THEN 0 ELSE size[n]]
                    EXCEPT ![nb] = s]
      /\ refs' = [n \in Blocks |-> IF n = nb THEN refs[b] ELSE IF n = b THEN 0 ELSE refs[n]]
      /\ phases' = [n \in Blocks |-> IF n = nb THEN phases[b] ELSE IF n = b THEN <<>> ELSE phases[n]]
      /\ cleanup_callback' = [n \in Blocks |-> IF n = nb THEN cleanup_callback[b]
                                               ELSE IF n = b THEN NULL ELSE cleanup_callback[n]]
      /\ child' = [n \in Blocks |-> IF kept[n] = b THEN nb ELSE kept[n]]
  BY DEF Resize
<1>7. PTypes'
  <2>1. /\ next' \in [Blocks -> Links] /\ prev' \in [Blocks -> Links]
        /\ first' \in Links /\ last' \in Links
    BY <1>1, <1>3, Nothing DEF PTypes, Relink
  <2>2. refs' \in [Blocks -> 0 .. MaxRefs] /\ size' \in [Blocks -> BlockSizes \cup {0}]
    BY <1>3, <1>6, BlocksBounded DEF PTypes
  <2>3. cleanup_callback' \in [Blocks -> Callbacks]
    BY <1>3, <1>6 DEF PTypes, Callbacks
  <2>4. child' \in [Blocks -> Links]
    BY <1>3, <1>6, Nothing DEF PTypes
  <2>5. phases' \in [Blocks -> Told3]
    <3>1. <<>> \in Told3
      BY SaidIs, SaidNext
    <3> QED
      BY <1>3, <1>6, <3>1 DEF PTypes
  <2>6. live' \in SUBSET Blocks /\ resizes' \in 0 .. MaxResizes
    BY <1>1, <1>3, BlocksBounded DEF PTypes
  <2> QED
    BY <1>1, <1>3, <2>1, <2>2, <2>3, <2>4, <2>5, <2>6 DEF PTypes, stats
<1>8. Calls' /\ Distinct' /\ \A rank \in Ranks : InPass(rank)'
  BY <1>1, <1>2, NoCalls
<1>9. PICK rank \in Ranks : Chain(rank) /\ Younger(rank) /\ Ends
  BY DEF PoolIInv, Linked
<1>10. \A d \in live : rank[d] \in Nat /\ d # NULL
  BY <1>3 DEF Ranks
<1>11. PICK high \in Ranks : high[nb] = rank[b] /\ \A d \in live : d # b => high[d] = rank[d]
  <2>1. [rank EXCEPT ![nb] = rank[b]] \in Ranks
    BY DEF Ranks
  <2>2. /\ [rank EXCEPT ![nb] = rank[b]][nb] = rank[b]
        /\ \A d \in live : d # b => [rank EXCEPT ![nb] = rank[b]][d] = rank[d]
    BY <1>3, <1>4 DEF Ranks
  <2> QED
    BY <2>1, <2>2
<1>12. \A d \in live' : d = nb \/ (d # nb /\ d # b /\ d \in live)
  BY <1>1, <1>4
<1>13. /\ first' = IF prev[b] = NULL THEN nb ELSE first
       /\ last' = IF next[b] = NULL THEN nb ELSE last
       /\ prev'[nb] = prev[b] /\ next'[nb] = next[b]
       /\ \A d \in live : d # b =>
            /\ d # nb /\ d \in live'
            /\ prev'[d] = IF d = next[b] THEN nb ELSE prev[d]
            /\ next'[d] = IF d = prev[b] THEN nb ELSE next[d]
  BY <1>1, <1>3, <1>4 DEF Relink
<1>14. /\ refs'[nb] = refs[b] /\ phases'[nb] = phases[b]
       /\ child'[nb] = IF child[b] = b THEN nb ELSE child[b]
       /\ \A d \in live : d # b =>
            /\ refs'[d] = refs[d] /\ phases'[d] = phases[d]
            /\ child'[d] = IF child[d] = b THEN nb ELSE child[d]
  BY <1>3, <1>4, <1>6
<1> HIDE DEF kept
<1>15. /\ next[b] # NULL => /\ next[b] \in live /\ next[b] # b /\ prev[next[b]] = b
                            /\ rank[b] = rank[next[b]] + 1
       /\ prev[b] # NULL => /\ prev[b] \in live /\ prev[b] # b /\ next[prev[b]] = b
                            /\ rank[prev[b]] = rank[b] + 1
       /\ next[b] = NULL => rank[b] = 0
       /\ prev[b] = NULL <=> first = b
       /\ next[b] = NULL <=> last = b
  <2>1. /\ next[b] # NULL => next[b] \in live /\ prev[next[b]] = b /\ rank[b] = rank[next[b]] + 1
        /\ prev[b] # NULL => prev[b] \in live /\ next[prev[b]] = b
        /\ next[b] = NULL => rank[b] = 0
        /\ prev[b] = NULL <=> first = b
        /\ next[b] = NULL <=> last = b
    BY <1>1, <1>9 DEF Chain
  <2>2. prev[b] # NULL => rank[prev[b]] = rank[b] + 1
    BY <1>1, <1>9, <1>10, <2>1 DEF Chain
  <2> QED
    BY <1>1, <1>10, <2>1, <2>2
<1>16. Ends'
  <2>1. first \in live /\ last \in live /\ nb \in live'
    BY <1>1, <1>9 DEF Ends
  <2> QED
    BY <1>13, <1>15, <2>1 DEF Ends
<1>17. Chain(high)'
  <2>1. \A d, e \in live' : high[d] = high[e] => d = e
    BY <1>1, <1>9, <1>11, <1>12 DEF Chain
  <2>2. \A d \in live' : high[d] <= high[first']
    <3>1. high[first'] = rank[first]
      <4>1. first \in live
        BY <1>1, <1>9 DEF Ends
      <4> QED
        BY <1>11, <1>13, <1>15, <4>1
    <3>2. \A d \in live' : \E e \in live : high[d] = rank[e]
      BY <1>1, <1>11, <1>12
    <3> QED
      BY <1>9, <3>1, <3>2 DEF Chain
  <2>3. ASSUME NEW d \in live'
        PROVE  /\ next'[d] = NULL => high[d] = 0
               /\ next'[d] # NULL => /\ next'[d] \in live' /\ prev'[next'[d]] = d
                                     /\ high[d] = high[next'[d]] + 1
               /\ prev'[d] # NULL => prev'[d] \in live' /\ next'[prev'[d]] = d
               /\ prev'[d] = NULL <=> first' = d
               /\ next'[d] = NULL <=> last' = d
    <3>1. CASE d = nb
      <4>1. next[b] # NULL => next[b] \in live' /\ prev'[next[b]] = nb /\ high[next[b]] = rank[next[b]]
        BY <1>11, <1>13, <1>15
      <4>2. prev[b] # NULL => prev[b] \in live' /\ next'[prev[b]] = nb /\ prev[b] # nb
        BY <1>13, <1>15
      <4>3. prev[b] = NULL <=> first' = nb
        BY <1>1, <1>4, <1>9, <1>13, <1>15 DEF Ends
      <4>4. next[b] = NULL <=> last' = nb
        BY <1>1, <1>4, <1>9, <1>13, <1>15 DEF Ends
      <4> QED
        BY <1>11, <1>13, <1>15, <3>1, <4>1, <4>2, <4>3, <4>4
    <3>2. CASE d # nb
      <4>1. d \in live /\ d # b /\ high[d] = rank[d]
        BY <1>11, <1>12, <3>2
      <4>2. /\ next[d] = NULL => rank[d] = 0
            /\ next[d] # NULL => next[d] \in live /\ prev[next[d]] = d /\ rank[d] = rank[next[d]] + 1
            /\ prev[d] # NULL => prev[d] \in live /\ next[prev[d]] = d
            /\ prev[d] = NULL <=> first = d
            /\ next[d] = NULL <=> last = d
        BY <1>9, <4>1 DEF Chain
      <4>3. /\ next'[d] = NULL => high[d] = 0
            /\ next'[d] # NULL => /\ next'[d] \in live' /\ prev'[next'[d]] = d
                                  /\ high[d] = high[next'[d]] + 1
            /\ next'[d] = NULL <=> last' = d
        <5>1. CASE d = prev[b]
          <6>1. next'[d] = nb /\ nb \in live' /\ prev'[nb] = d /\ high[d] = high[nb] + 1 /\ next[d] = b
            BY <1>1, <1>5, <1>10, <1>11, <1>13, <1>15, <4>1, <5>1
          <6> QED
            BY <1>5, <1>13, <3>2, <4>1, <4>2, <6>1
        <5>2. CASE d # prev[b]
          <6>1. next'[d] = next[d] /\ next[d] # b
            BY <1>1, <1>5, <1>9, <1>13, <4>1, <4>2, <5>2 DEF Chain
          <6>2. next[d] # NULL => /\ next[d] # next[b] /\ next[d] \in live' /\ prev'[next[d]] = d
                                  /\ high[next[d]] = rank[next[d]]
            BY <1>11, <1>13, <1>15, <4>1, <4>2, <6>1
          <6>3. next[d] = NULL <=> last' = d
            BY <1>13, <1>15, <3>2, <4>1, <4>2
          <6> QED
            BY <4>1, <4>2, <6>1, <6>2, <6>3
        <5> QED
          BY <5>1, <5>2
      <4>4. /\ prev'[d] # NULL => prev'[d] \in live' /\ next'[prev'[d]] = d
            /\ prev'[d] = NULL <=> first' = d
        <5>1. CASE d = next[b]
          <6>1. prev'[d] = nb /\ nb \in live' /\ next'[nb] = d /\ prev[d] = b
            BY <1>1, <1>5, <1>10, <1>13, <1>15, <4>1, <5>1
          <6> QED
            BY <1>5, <1>13, <3>2, <4>1, <4>2, <6>1
        <5>2. CASE d # next[b]
          <6>1. prev'[d] = prev[d] /\ prev[d] # b
            BY <1>1, <1>5, <1>13, <4>1, <4>2, <5>2
          <6>2. prev[d] # NULL => prev[d] # prev[b] /\ prev[d] \in live' /\ next'[prev[d]] = d
            BY <1>13, <1>15, <4>1, <4>2, <6>1
          <6>3. prev[d] = NULL <=> first' = d
            BY <1>13, <1>15, <3>2, <4>1, <4>2
          <6> QED
            BY <6>1, <6>2, <6>3
        <5> QED
          BY <5>1, <5>2
      <4> QED
        BY <4>3, <4>4
    <3> QED
      BY <3>1, <3>2
  <2> QED
    BY <2>1, <2>2, <2>3 DEF Chain
<1>18. \A d \in live : child[d] # NULL => child[d] \in live /\ rank[d] < rank[child[d]] /\ refs[child[d]] > 0
  BY <1>9 DEF PoolIInv, Owning, Younger
<1>19. \A d, e \in live : child[d] # NULL /\ child[d] = child[e] => d = e
  BY DEF PoolIInv, Owning
<1>20. \A d \in live' : \E e \in live :
         /\ (e = b <=> d = nb) /\ (d # nb => e = d) /\ high[d] = rank[e]
         /\ child'[d] = IF child[e] = b THEN nb ELSE child[e]
  BY <1>1, <1>11, <1>12, <1>14
<1>21. ASSUME NEW d \in live', child'[d] # NULL
       PROVE  child'[d] \in live' /\ high[d] < high[child'[d]] /\ refs'[child'[d]] > 0
  <2>1. PICK e \in live : high[d] = rank[e] /\ child'[d] = IF child[e] = b THEN nb ELSE child[e]
    BY <1>20
  <2>2. child[e] # NULL
    BY <1>5, <1>21, <2>1
  <2>3. child[e] \in live /\ rank[e] < rank[child[e]] /\ refs[child[e]] > 0
    BY <1>18, <2>2
  <2> QED
    BY <1>1, <1>11, <1>13, <1>14, <2>1, <2>3
<1>22. Linked'
  <2>1. Younger(high)'
    BY <1>21 DEF Younger
  <2> QED
    BY <1>8, <1>16, <1>17, <2>1 DEF Linked
<1>23. Owning'
  <2>1. ASSUME NEW d \in live', NEW e \in live', child'[d] # NULL, child'[d] = child'[e] PROVE d = e
    <3>1. PICK d0 \in live : /\ (d0 = b <=> d = nb) /\ (d # nb => d0 = d)
                             /\ child'[d] = IF child[d0] = b THEN nb ELSE child[d0]
      BY <1>20
    <3>2. PICK e0 \in live : /\ (e0 = b <=> e = nb) /\ (e # nb => e0 = e)
                             /\ child'[e] = IF child[e0] = b THEN nb ELSE child[e0]
      BY <1>20
    <3>3. child[d0] # NULL /\ child[e0] # NULL
      BY <1>5, <2>1, <3>1, <3>2
    <3>4. child[d0] \in live /\ child[e0] \in live
      BY <1>18, <3>3
    <3>5. child[d0] = child[e0]
      BY <1>4, <2>1, <3>1, <3>2, <3>4
    <3>6. d0 = e0
      BY <1>19, <3>3, <3>5
    <3> QED
      BY <3>1, <3>2, <3>6
  <2> QED
    BY <1>21, <2>1 DEF Owning
<1>24. Unreferenced' /\ Heard'
  <2>1. \A d \in live' : refs'[d] # 0 /\ phases'[d] = Said[0]
    BY <1>1, <1>2, <1>12, <1>14
  <2> QED
    BY <1>1, <1>2, <2>1 DEF Unreferenced, Heard
<1>25. StatsExact'
  <2>1. resizes' # 0
    BY <1>1, <1>3, BlocksBounded DEF PTypes
  <2>2. Cardinality(live') = Cardinality(live)
    <3>1. IsFiniteSet(live)
      BY <1>3, Nothing, FS_Subset
    <3>2. IsFiniteSet(live \ {b}) /\ Cardinality(live \ {b}) = Cardinality(live) - 1
      BY <1>1, <3>1, FS_RemoveElement
    <3>3. nb \notin live \ {b}
      BY <1>4
    <3>4. Cardinality((live \ {b}) \cup {nb}) = Cardinality(live \ {b}) + 1
      BY <3>2, <3>3, FS_AddElement
    <3>5. Cardinality(live) \in Nat
      BY <3>1, FS_CardinalityType
    <3> QED
      BY <1>1, <3>2, <3>4, <3>5
  <2> QED
    BY <1>1, <2>1, <2>2 DEF PoolIInv, StatsExact, stats
<1> QED
  BY <1>7, <1>8, <1>22, <1>23, <1>24, <1>25 DEF PoolIInv

\* ks_pool_set_cleanup, ks_pool_remove_cleanup.
LEMMA SetCleanupKeeps ==
    ASSUME PoolIInv, NEW b \in Blocks, NEW callback \in {"PLAIN", "TEARDOWN", "DESTROY"},
           NEW c \in Blocks \cup {NULL}, ks_pool_set_cleanup(b, callback, c)
    PROVE  PoolIInv'
<1>1. b \in live /\ callback \in Callbacks /\ c \in Links /\ Idle
  BY DEF ks_pool_set_cleanup, Callbacks, Links
<1>2. c # NULL => c \in Newer(b) \ Owned
  BY DEF ks_pool_set_cleanup
<1>3. /\ cleanup_callback' = [cleanup_callback EXCEPT ![b] = callback]
      /\ child' = [child EXCEPT ![b] = c]
      /\ UNCHANGED <<links, refs, size, live, stats, cleaning_up, stack, phases, opened, resizes>>
  BY DEF ks_pool_set_cleanup
<1> QED
  BY <1>1, <1>2, <1>3, CleanupKeeps

\* ks_pool_remove_cleanup.
LEMMA RemoveCleanupKeeps ==
    ASSUME PoolIInv, NEW b \in Blocks, ks_pool_remove_cleanup(b) PROVE PoolIInv'
<1>1. b \in live /\ NULL \in Callbacks /\ NULL \in Links /\ Idle
  BY DEF ks_pool_remove_cleanup, Callbacks, Links
<1>2. /\ cleanup_callback' = [cleanup_callback EXCEPT ![b] = NULL]
      /\ child' = [child EXCEPT ![b] = NULL]
      /\ UNCHANGED <<links, refs, size, live, stats, cleaning_up, stack, phases, opened, resizes>>
  BY DEF ks_pool_remove_cleanup
<1> QED
  BY <1>1, <1>2, CleanupKeeps

\* Every step keeps the invariant.
LEMMA PoolNext == PoolIInv /\ [MemNext]_memVars => PoolIInv'
<1>1. ASSUME PoolIInv, UNCHANGED memVars PROVE PoolIInv'
  <2>1. /\ next' = next /\ prev' = prev /\ first' = first /\ last' = last /\ refs' = refs
        /\ size' = size /\ cleanup_callback' = cleanup_callback /\ child' = child /\ live' = live
        /\ alloc_c' = alloc_c /\ user_alloc' = user_alloc /\ cleaning_up' = cleaning_up
        /\ stack' = stack /\ phases' = phases /\ opened' = opened /\ resizes' = resizes
    BY <1>1 DEF memVars, links, prefixes, stats
  <2>2. StatsExact'
    BY <1>1, <2>1, SameStats DEF PoolIInv, stats
  <2>3. PTypes' /\ Owning' /\ Calls' /\ Distinct' /\ Unreferenced' /\ Heard'
    BY <1>1, <2>1 DEF PoolIInv, PTypes, Owning, Calls, Distinct, Unreferenced, Heard
  <2>4. Linked'
    BY <1>1, <2>1 DEF PoolIInv, Linked, Ends, Chain, Younger, InPass
  <2> QED
    BY <2>2, <2>3, <2>4 DEF PoolIInv
<1>2. ASSUME PoolIInv, MemNext PROVE PoolIInv'
  <2>1. CASE \E s \in BlockSizes : Alloc(s)
    BY <1>2, <2>1, AllocKeeps
  <2>2. CASE \E b \in Blocks : \/ ks_pool_ref(b) \/ ks_pool_free(b) \/ ks_pool_remove_cleanup(b)
    BY <1>2, <2>2, RefKeeps, FreeKeeps, RemoveCleanupKeeps
  <2>3. CASE \E b \in Blocks, callback \in {"PLAIN", "TEARDOWN", "DESTROY"}, c \in Blocks \cup {NULL} :
               ks_pool_set_cleanup(b, callback, c)
    BY <1>2, <2>3, SetCleanupKeeps
  <2>4. CASE \E b, nb \in Blocks, s \in BlockSizes : Resize(b, nb, s)
    BY <1>2, <2>4, ResizeKeeps
  <2>5. CASE \E goal \in {"clearing", "closing"} : ClearBegin(goal)
    BY <1>2, <2>5, ClearKeeps
  <2> QED
    BY <1>2, <2>1, <2>2, <2>3, <2>4, <2>5, AnnounceKeeps, TeardownKeeps, DestroyKeeps,
       UnlinkKeeps, PassVisitKeeps, PassEndKeeps, FreeAllKeeps DEF MemNext
<1> QED
  BY <1>1, <1>2

\* The invariant holds throughout.
LEMMA PoolInvariant == MemSpec => []PoolIInv
BY PoolInit, PoolNext, PTL DEF MemSpec

-----------------------------------------------------------------------------
(* The theorems                                                            *)

\* Every variable of the pool has its type, whatever callers and callbacks do:
\* the counters stay in the range of ks_size_t and no callback hears of more
\* than three phases.
THEOREM MemoryTyped == MemSpec => []MemTypeOK
<1>1. PoolIInv => MemTypeOK
  <2> SUFFICES ASSUME PoolIInv PROVE MemTypeOK
    OBVIOUS
  <2>1. PTypes
    BY DEF PoolIInv
  <2>2. \A i \in DOMAIN stack : stack[i] \in [op : Ops, b : Blocks \cup {NULL}]
    <3>1. \A i \in DOMAIN stack : stack[i] \in Frames
      BY <2>1 DEF PTypes
    <3> QED
      BY <3>1 DEF Frames, Links
  <2>3. ASSUME NEW b \in Blocks
        PROVE  Len(phases[b]) <= 3 /\ \A i \in DOMAIN phases[b] : phases[b][i] \in Passes
    <3>1. PICK n \in 0 .. 3 : phases[b] = Said[n]
      BY <2>1 DEF PTypes, Told3
    <3>2. n = 0 \/ n = 1 \/ n = 2 \/ n = 3
      OBVIOUS
    <3>3. CASE n = 0
      BY <3>1, <3>3, SaidIs
    <3>4. CASE n = 1
      BY <3>1, <3>4, SaidIs DEF Passes
    <3>5. CASE n = 2
      BY <3>1, <3>5, SaidIs DEF Passes
    <3>6. CASE n = 3
      BY <3>1, <3>6, SaidIs DEF Passes, Phases
    <3> QED
      BY <3>2, <3>3, <3>4, <3>5, <3>6
  <2>4. {alloc_c, user_alloc} \subseteq 0 .. SizeSpan - 1
    BY <2>1 DEF PTypes, Counters
  <2> QED
    BY <2>1, <2>2, <2>3, <2>4 DEF PTypes, MemTypeOK, Links, Callbacks
<1> QED
  BY <1>1, PoolInvariant, PTL

\* Whatever is allocated, freed, resized and moved, and whatever callbacks
\* free in the middle of it, the list that free_mem and ks_pool_resize relink
\* is whole and holds the live blocks, and no call in progress (the next block
\* that perform_pool_cleanup saved included) is about a block that is gone.
THEOREM MemoryListSafe == MemSpec => []ListSafe
<1>1. PoolIInv => ListSafe
  <2> SUFFICES ASSUME PoolIInv PROVE ListSafe
    OBVIOUS
  <2>1. Reached = live
    BY ReachedIs
  <2>2. PICK rank \in Ranks : Chain(rank) /\ Ends
    BY DEF PoolIInv, Linked
  <2>3. NULL \notin live /\ DOMAIN stack = 1 .. Len(stack)
    BY Nothing DEF PoolIInv, PTypes
  <2>4. ListSound
    <3>1. first = NULL <=> last = NULL
      BY <2>2, <2>3, SMTT(40) DEF Ends
    <3>2. ASSUME NEW b \in live
          PROVE  /\ prev[b] = NULL <=> first = b
                 /\ next[b] = NULL <=> last = b
                 /\ prev[b] # NULL => next[prev[b]] = b
                 /\ next[b] # NULL => prev[next[b]] = b
      BY <2>2, SMTT(40) DEF Chain
    <3> QED
      BY <2>1, <3>1, <3>2 DEF ListSound
  <2>5. PassSafe
    BY <2>3 DEF PoolIInv, Calls, PassSafe
  <2> QED
    BY <2>4, <2>5 DEF ListSafe
<1> QED
  BY <1>1, PoolInvariant, PTL

\* However the frees nest, a block is freed once and exactly when its last
\* reference is dropped (free_mem).
THEOREM MemoryFreedOnce == MemSpec => []FreedOnce
<1>1. PoolIInv => FreedOnce
  <2> SUFFICES ASSUME PoolIInv PROVE FreedOnce
    OBVIOUS
  <2>1. DOMAIN stack = 1 .. Len(stack)
    BY SMTT(40) DEF PoolIInv, PTypes
  <2> DEFINE freeing == {i \in DOMAIN stack : stack[i].op \in {"announce", "teardown", "destroy", "unlink"}}
             gone == {stack[i].b : i \in freeing}
  <2>2. \A i, j \in freeing : stack[i].b = stack[j].b => i = j
    BY <2>1 DEF PoolIInv, Calls, Distinct, FreeOps
  <2>3. \A b \in live : refs[b] = 0 <=> b \in gone
    BY <2>1 DEF PoolIInv, Unreferenced, FreeOps
  <2> QED
    BY <2>2, <2>3 DEF FreedOnce
<1> QED
  BY <1>1, PoolInvariant, PTL

\* perform_pool_cleanup tells every callback of one phase before any of the
\* next, and none twice, though callbacks free blocks meanwhile.
THEOREM MemoryLockstep == MemSpec => []InLockstep
<1>1. PoolIInv => InLockstep
  <2> SUFFICES ASSUME PoolIInv, NEW n \in 1 .. 3, NEW b \in live,
                      stack # <<>>, stack[1].op = Phases[n], cleanup_callback[b] # NULL
               PROVE  \E m \in {n - 1, n} : phases[b] = SubSeq(Phases, 1, m)
    BY DEF InLockstep
  <2>1. PICK rank \in Ranks : InPass(rank)
    BY DEF PoolIInv, Linked
  <2>2. PICK m \in {n - 1, n} : phases[b] = Said[m]
    BY <2>1 DEF InPass
  <2>3. SubSeq(Phases, 1, m) = Said[m]
    <3>1. m \in 0 .. 3
      OBVIOUS
    <3> QED
      BY <3>1, Prefixes
  <2> QED
    BY <2>2, <2>3
<1> QED
  BY <1>1, PoolInvariant, PTL

\* The counters that ks_pool_stats reports are the number of live blocks and,
\* if none was resized, their sizes, until the pool is cleared: they wrap
\* nowhere, since CountersHoldAll.
THEOREM MemoryStatsExact == MemSpec => []StatsExact
<1>1. PoolIInv => StatsExact
  BY DEF PoolIInv
<1> QED
  BY <1>1, PoolInvariant, PTL

\* Outside a clean-up a block with a callback goes only behind the three
\* calls of its callback, in their order (perform_pool_cleanup_on_free).
THEOREM MemoryHeardAll == MemSpec => HeardAll
<1>1. PoolIInv /\ [MemNext]_memVars =>
        [\A b \in live \ live' :
           (~cleaning_up /\ ~Idle /\ cleanup_callback[b] # NULL) => phases[b] = Phases]_memVars
  <2> SUFFICES ASSUME PoolIInv, MemNext, NEW b \in live \ live', ~cleaning_up, ~Idle,
                      cleanup_callback[b] # NULL
               PROVE  phases[b] = Phases
    BY DEF memVars
  <2>1. FreeUnlink
    <3>1. ~FreeAll
      <4> SUFFICES ASSUME FreeAll PROVE FALSE
        OBVIOUS
      <4>1. Top = stack[Len(stack)] /\ Len(stack) \in 1 .. Len(stack) /\ Top.op = "free_all"
        BY BelowIs DEF FreeAll, InCall, Top, PoolIInv, PTypes
      <4> QED
        BY <4>1 DEF PoolIInv, Calls, FreeOps
    <3>2. ~PassVisit
      BY PassIs DEF PassVisit
    <3> QED
      BY <3>1, <3>2 DEF MemNext, Alloc, ks_pool_ref, ks_pool_free, ks_pool_remove_cleanup,
         ks_pool_set_cleanup, Resize, OnFreeAnnounce, OnFreeTeardown, OnFreeDestroy, Callback,
         ClearBegin, PassEnd, prefixes
  <2>2. b = Top.b /\ Top.op = "unlink" /\ Top = stack[Len(stack)] /\ Len(stack) \in 1 .. Len(stack)
    BY <2>1, BelowIs DEF FreeUnlink, InCall, Erase, Top, PoolIInv, PTypes
  <2> QED
    BY <2>2, SaidIs DEF PoolIInv, Heard
<1> QED
  BY <1>1, PoolInvariant, PTL DEF MemSpec, HeardAll
=============================================================================
