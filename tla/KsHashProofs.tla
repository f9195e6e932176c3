---------------------------- MODULE KsHashProofs ----------------------------
(***************************************************************************)
(* Proofs about KsHash, for any threads, keys, hash values, table sizes    *)
(* and number of entries.                                                  *)
(***************************************************************************)
EXTENDS KsHash, SequenceTheorems, FiniteSetTheorems, WellFoundedInduction, TLAPS

-----------------------------------------------------------------------------
(* Tables                                                                  *)

Tables(L) == [0 .. L - 1 -> Seq(Entries)]

\* The entry is in some bucket.
Holds(tab, e) == \E b \in DOMAIN tab : \E n \in DOMAIN tab[b] : tab[b][n] = e

\* No entry is in two places.
Once(tab) ==
    \A b, c \in DOMAIN tab : \A m \in DOMAIN tab[b], n \in DOMAIN tab[c] :
        tab[b][m] = tab[c][n] => b = c /\ m = n

\* Every entry is in the bucket of its key.
Sits(tab, keys, L) ==
    \A b \in DOMAIN tab : \A n \in DOMAIN tab[b] : Bucket(L, keys[tab[b][n]]) = b

Used(keys) == {e \in Entries : keys[e] # NoKey}

\* A table of L buckets that holds the entries in use, each of them once and
\* in its bucket, and counts them.
Sound(tab, keys, count, L) ==
    /\ tab \in Tables(L) /\ Once(tab) /\ Sits(tab, keys, L)
    /\ keys \in [Entries -> Keys \cup {NoKey}]
    /\ \A e \in Entries : Holds(tab, e) <=> keys[e] # NoKey
    /\ count = Cardinality(Used(keys))

-----------------------------------------------------------------------------
(* Numbers and sets                                                        *)

\* A set of numbers that is not empty has a least one.
LEMMA Least ==
    ASSUME NEW S, S \subseteq Nat, S # {}
    PROVE  \E x \in S : \A y \in S : x <= y
<1>1. \E x \in S : \A y \in S : ~(<<y, x>> \in OpToRel(<, Nat))
  BY NatLessThanWellFounded, WFMin
<1>2. \A x, y \in Nat : <<y, x>> \in OpToRel(<, Nat) <=> y < x
  BY DEF OpToRel
<1>3. \E R : /\ \E x \in S : \A y \in S : ~(<<y, x>> \in R)
             /\ \A x, y \in Nat : <<y, x>> \in R <=> y < x
  BY <1>1, <1>2, Zenon
<1>4. PICK R : /\ \E x \in S : \A y \in S : ~(<<y, x>> \in R)
               /\ \A x, y \in Nat : <<y, x>> \in R <=> y < x
  BY <1>3
<1>5. PICK x \in S : \A y \in S : ~(<<y, x>> \in R)
  BY <1>4
<1>6. ASSUME NEW y \in S PROVE x <= y
  <2>1. x \in Nat /\ y \in Nat /\ ~(y < x)
    BY <1>4, <1>5
  <2> QED
    BY <2>1
<1> QED
  BY <1>6

\* indexFor gives a bucket of the table.
LEMMA BucketIn ==
    ASSUME NEW key \in Keys, NEW L \in Nat \ {0}
    PROVE  Bucket(L, key) \in 0 .. L - 1
BY HashValues DEF Bucket, indexFor

\* A size is a size, and the next one is larger.
LEMMA SizeIs ==
    ASSUME NEW p \in 1 .. Len(primes)
    PROVE  primes[p] \in Nat \ {0}
BY PrimesGrow

\* There are as many entries as there may be, and any of them are finitely many.
LEMMA EntriesFinite ==
    /\ IsFiniteSet(Entries) /\ Cardinality(Entries) = MaxEntries
    /\ \A S \in SUBSET Entries :
          IsFiniteSet(S) /\ Cardinality(S) \in Nat /\ Cardinality(S) <= MaxEntries
<1>1. IsFiniteSet(Entries) /\ Cardinality(Entries) = MaxEntries
  BY FS_Interval, EntriesBounded DEF Entries
<1>2. ASSUME NEW S \in SUBSET Entries
      PROVE  IsFiniteSet(S) /\ Cardinality(S) \in Nat /\ Cardinality(S) <= MaxEntries
  BY <1>1, FS_Subset, FS_CardinalityType
<1> QED
  BY <1>1, <1>2

\* A chain of entries that is nowhere twice is no longer than there are entries.
LEMMA ChainBounded ==
    ASSUME NEW chain \in Seq(Entries), \A m, n \in DOMAIN chain : chain[m] = chain[n] => m = n
    PROVE  Len(chain) <= MaxEntries
<1>1. Len(chain) \in Nat /\ DOMAIN chain = 1 .. Len(chain) /\ chain \in [1 .. Len(chain) -> Entries]
  BY LenProperties
<1>2. chain \in Injection(1 .. Len(chain), Entries)
  BY <1>1 DEF Injection, IsInjective
<1>3. Cardinality(1 .. Len(chain)) <= MaxEntries
  BY <1>2, EntriesFinite, FS_Injection
<1>4. Cardinality(1 .. Len(chain)) = Len(chain)
  BY <1>1, FS_Interval
<1> QED
  BY <1>3, <1>4

-----------------------------------------------------------------------------
(* One entry more, one entry less                                          *)

\* Two places with the same entry are the same place.
LEMMA OnePlace ==
    ASSUME NEW tab, Once(tab), NEW c \in DOMAIN tab, NEW d \in DOMAIN tab,
           NEW m \in DOMAIN tab[c], NEW n \in DOMAIN tab[d], tab[c][m] = tab[d][n]
    PROVE  c = d /\ m = n
BY DEF Once

Pushed(tab, b, e) == [tab EXCEPT ![b] = <<e>> \o @]
Rechained(tab, b, chain) == [tab EXCEPT ![b] = chain]

\* The chain is the old one without its entry at o.
Without(chain, old, o) ==
    /\ chain \in Seq(Entries) /\ Len(chain) = Len(old) - 1
    /\ \A n \in 1 .. Len(chain) : chain[n] = IF n < o THEN old[n] ELSE old[n + 1]

Cut(chain, o) == SubSeq(chain, 1, o - 1) \o SubSeq(chain, o + 1, Len(chain))

\* An entry that is put in front of a bucket.
LEMMA PushTable ==
    ASSUME NEW L \in Nat \ {0}, NEW tab \in Tables(L), Once(tab), NEW e \in Entries, ~Holds(tab, e),
           NEW b \in 0 .. L - 1, NEW new, new = Pushed(tab, b, e)
    PROVE  /\ new \in Tables(L) /\ Once(new)
           /\ \A x : Holds(new, x) <=> Holds(tab, x) \/ x = e
           /\ \A c \in DOMAIN new : \A n \in DOMAIN new[c] :
                 \/ c = b /\ new[c][n] = e
                 \/ \E m \in DOMAIN tab[c] : new[c][n] = tab[c][m]
<1> DEFINE chain == <<e>> \o tab[b]
<1>1. tab[b] \in Seq(Entries) /\ DOMAIN tab = 0 .. L - 1 /\ b \in DOMAIN tab
  BY DEF Tables
<1>2. Len(tab[b]) \in Nat /\ DOMAIN tab[b] = 1 .. Len(tab[b])
  BY <1>1
<1>3. /\ chain \in Seq(Entries) /\ Len(chain) = Len(tab[b]) + 1 /\ DOMAIN chain = 1 .. Len(tab[b]) + 1
      /\ chain[1] = e /\ \A n \in 1 .. Len(tab[b]) : chain[n + 1] = tab[b][n]
  <2>1. <<e>> \in Seq(Entries) /\ Len(<<e>>) = 1 /\ <<e>>[1] = e
    OBVIOUS
  <2>2. /\ chain \in Seq(Entries) /\ Len(chain) = 1 + Len(tab[b])
        /\ \A n \in 1 .. 1 + Len(tab[b]) : chain[n] = IF n <= 1 THEN <<e>>[n] ELSE tab[b][n - 1]
    BY <1>1, <2>1, ConcatProperties
  <2> HIDE DEF chain
  <2>3. Len(chain) = Len(tab[b]) + 1 /\ DOMAIN chain = 1 .. Len(tab[b]) + 1
    BY <1>2, <2>2
  <2>4. chain[1] = e
    BY <1>2, <2>1, <2>2
  <2>5. ASSUME NEW n \in 1 .. Len(tab[b]) PROVE chain[n + 1] = tab[b][n]
    <3>1. n + 1 \in 1 .. 1 + Len(tab[b]) /\ ~(n + 1 <= 1) /\ (n + 1) - 1 = n
      BY <1>2
    <3> QED
      BY <2>2, <3>1
  <2> QED
    BY <2>2, <2>3, <2>4, <2>5
<1>4. new = [tab EXCEPT ![b] = chain]
  BY DEF Pushed
<1> HIDE DEF chain
<1>5. new \in Tables(L)
  BY <1>3, <1>4 DEF Tables
<1>6. DOMAIN new = 0 .. L - 1 /\ new[b] = chain /\ \A c \in 0 .. L - 1 : c # b => new[c] = tab[c]
  BY <1>1, <1>4 DEF Tables
<1>7. \A n \in DOMAIN chain : n = 1 \/ (n - 1 \in DOMAIN tab[b] /\ chain[n] = tab[b][n - 1])
  BY <1>2, <1>3
<1>8. \A n \in DOMAIN tab[b] : n + 1 \in DOMAIN chain /\ chain[n + 1] = tab[b][n]
  BY <1>2, <1>3
<1>9. 1 \in DOMAIN chain
  BY <1>2, <1>3
<1>10. \A c \in DOMAIN new : \A n \in DOMAIN new[c] :
          \/ c = b /\ n = 1 /\ new[c][n] = e
          \/ c = b /\ n - 1 \in DOMAIN tab[c] /\ new[c][n] = tab[c][n - 1]
          \/ c # b /\ n \in DOMAIN tab[c] /\ new[c][n] = tab[c][n]
  <2> SUFFICES ASSUME NEW c \in DOMAIN new, NEW n \in DOMAIN new[c]
               PROVE  \/ c = b /\ n = 1 /\ new[c][n] = e
                      \/ c = b /\ n - 1 \in DOMAIN tab[c] /\ new[c][n] = tab[c][n - 1]
                      \/ c # b /\ n \in DOMAIN tab[c] /\ new[c][n] = tab[c][n]
    OBVIOUS
  <2>1. CASE c = b
    <3>1. new[c] = chain /\ n \in DOMAIN chain
      BY <1>6, <2>1
    <3> QED
      BY <1>3, <1>7, <2>1, <3>1
  <2>2. CASE c # b
    <3>1. new[c] = tab[c]
      BY <1>6, <2>2
    <3> QED
      BY <2>2, <3>1
  <2> QED
    BY <2>1, <2>2
<1>11. \A c \in DOMAIN new : \A n \in DOMAIN new[c] :
          \/ c = b /\ new[c][n] = e
          \/ \E m \in DOMAIN tab[c] : new[c][n] = tab[c][m]
  BY <1>10
<1>12. \A c \in DOMAIN new : \A n \in DOMAIN new[c] : n \in Nat
  BY <1>5 DEF Tables
<1>13. Once(new)
  <2> SUFFICES ASSUME NEW c \in DOMAIN new, NEW d \in DOMAIN new, NEW m \in DOMAIN new[c],
                      NEW n \in DOMAIN new[d], new[c][m] = new[d][n]
               PROVE  c = d /\ m = n
    BY DEF Once
  <2>1. c \in DOMAIN tab /\ d \in DOMAIN tab
    BY <1>1, <1>6
  <2>2. \A x \in DOMAIN tab : \A y \in DOMAIN tab[x] : tab[x][y] # e
    BY DEF Holds
  <2>3. CASE c = b /\ m = 1 /\ new[c][m] = e
    BY <1>10, <2>1, <2>2, <2>3
  <2>4. CASE c = b /\ m - 1 \in DOMAIN tab[c] /\ new[c][m] = tab[c][m - 1]
    <3>1. CASE d = b /\ n = 1 /\ new[d][n] = e
      BY <2>1, <2>2, <2>4, <3>1
    <3>2. CASE d = b /\ n - 1 \in DOMAIN tab[d] /\ new[d][n] = tab[d][n - 1]
      <4>1. m - 1 = n - 1
        <5>1. tab[c][m - 1] = tab[d][n - 1] /\ m - 1 \in DOMAIN tab[c] /\ n - 1 \in DOMAIN tab[d]
          BY <2>4, <3>2
        <5> QED
          BY <2>1, <5>1, OnePlace
      <4> QED
        BY <1>12, <2>4, <3>2, <4>1
    <3>3. CASE d # b /\ n \in DOMAIN tab[d] /\ new[d][n] = tab[d][n]
      <4>1. tab[c][m - 1] = tab[d][n] /\ m - 1 \in DOMAIN tab[c] /\ n \in DOMAIN tab[d] /\ c # d
        BY <2>4, <3>3
      <4> QED
        BY <2>1, <4>1, OnePlace
    <3> QED
      BY <1>10, <3>1, <3>2, <3>3
  <2>5. CASE c # b /\ m \in DOMAIN tab[c] /\ new[c][m] = tab[c][m]
    <3>1. CASE d = b /\ n = 1 /\ new[d][n] = e
      BY <2>1, <2>2, <2>5, <3>1
    <3>2. CASE d = b /\ n - 1 \in DOMAIN tab[d] /\ new[d][n] = tab[d][n - 1]
      <4>1. tab[c][m] = tab[d][n - 1] /\ m \in DOMAIN tab[c] /\ n - 1 \in DOMAIN tab[d] /\ c # d
        BY <2>5, <3>2
      <4> QED
        BY <2>1, <4>1, OnePlace
    <3>3. CASE d # b /\ n \in DOMAIN tab[d] /\ new[d][n] = tab[d][n]
      <4>1. tab[c][m] = tab[d][n] /\ m \in DOMAIN tab[c] /\ n \in DOMAIN tab[d]
        BY <2>5, <3>3
      <4> QED
        BY <2>1, <4>1, OnePlace
    <3> QED
      BY <1>10, <3>1, <3>2, <3>3
  <2> QED
    BY <1>10, <2>3, <2>4, <2>5
<1>14. ASSUME NEW x PROVE Holds(new, x) <=> Holds(tab, x) \/ x = e
  <2>1. Holds(new, x) => Holds(tab, x) \/ x = e
    BY <1>1, <1>6, <1>11 DEF Holds
  <2>2. x = e => Holds(new, x)
    BY <1>3, <1>6, <1>9 DEF Holds
  <2>3. ASSUME NEW c \in DOMAIN tab, NEW n \in DOMAIN tab[c], tab[c][n] = x PROVE Holds(new, x)
    <3>1. CASE c = b
      BY <1>6, <1>8, <2>3, <3>1 DEF Holds
    <3>2. CASE c # b
      BY <1>1, <1>6, <2>3, <3>2 DEF Holds
    <3> QED
      BY <3>1, <3>2
  <2> QED
    BY <2>1, <2>2, <2>3 DEF Holds
<1> QED
  BY <1>5, <1>11, <1>13, <1>14

\* An entry that is taken out of a bucket.
LEMMA DropTable ==
    ASSUME NEW L \in Nat \ {0}, NEW tab \in Tables(L), Once(tab),
           NEW b \in 0 .. L - 1, NEW o \in DOMAIN tab[b],
           NEW chain, Without(chain, tab[b], o), NEW new, new = Rechained(tab, b, chain)
    PROVE  /\ new \in Tables(L) /\ Once(new)
           /\ \A x : Holds(new, x) <=> Holds(tab, x) /\ x # tab[b][o]
           /\ \A c \in DOMAIN new : \A n \in DOMAIN new[c] :
                 \E m \in DOMAIN tab[c] : new[c][n] = tab[c][m]
<1>0. /\ chain \in Seq(Entries) /\ Len(chain) = Len(tab[b]) - 1
      /\ \A n \in 1 .. Len(chain) : chain[n] = IF n < o THEN tab[b][n] ELSE tab[b][n + 1]
  BY DEF Without
<1>1. tab[b] \in Seq(Entries) /\ DOMAIN tab = 0 .. L - 1 /\ b \in DOMAIN tab
  BY DEF Tables
<1>2. /\ Len(tab[b]) \in Nat /\ DOMAIN tab[b] = 1 .. Len(tab[b]) /\ o \in 1 .. Len(tab[b])
      /\ Len(chain) \in Nat /\ DOMAIN chain = 1 .. Len(chain) /\ Len(chain) = Len(tab[b]) - 1
  BY <1>0, <1>1
<1>3. new \in Tables(L)
  BY <1>0 DEF Tables, Rechained
<1>4. DOMAIN new = 0 .. L - 1 /\ new[b] = chain /\ \A c \in 0 .. L - 1 : c # b => new[c] = tab[c]
  BY <1>0, <1>1 DEF Tables, Rechained
<1> DEFINE old(n) == IF n < o THEN n ELSE n + 1
<1>5. \A n \in DOMAIN chain : old(n) \in DOMAIN tab[b] /\ chain[n] = tab[b][old(n)] /\ old(n) # o
  BY <1>0, <1>2
<1>6. \A m, n \in DOMAIN chain : old(m) = old(n) => m = n
  BY <1>2
<1>7. \A n \in DOMAIN tab[b] : n # o => \E m \in DOMAIN chain : old(m) = n
  <2> SUFFICES ASSUME NEW n \in DOMAIN tab[b], n # o PROVE \E m \in DOMAIN chain : old(m) = n
    OBVIOUS
  <2>1. CASE n < o
    <3>1. n \in DOMAIN chain /\ old(n) = n
      BY <1>2, <2>1
    <3> QED
      BY <3>1
  <2>2. CASE n > o
    <3>1. n - 1 \in DOMAIN chain /\ old(n - 1) = n
      BY <1>2, <2>2
    <3> QED
      BY <3>1
  <2> QED
    BY <1>2, <2>1, <2>2
<1> HIDE DEF old
<1>8. \A c \in DOMAIN new : \A n \in DOMAIN new[c] : \E m \in DOMAIN tab[c] : new[c][n] = tab[c][m]
  <2> SUFFICES ASSUME NEW c \in DOMAIN new, NEW n \in DOMAIN new[c]
               PROVE  \E m \in DOMAIN tab[c] : new[c][n] = tab[c][m]
    OBVIOUS
  <2>1. CASE c = b
    <3>1. new[c] = chain /\ n \in DOMAIN chain
      BY <1>4, <2>1
    <3> QED
      BY <1>5, <2>1, <3>1
  <2>2. CASE c # b
    <3>1. new[c] = tab[c]
      BY <1>4, <2>2
    <3> QED
      BY <3>1
  <2> QED
    BY <2>1, <2>2
<1>9. Once(new)
  <2> SUFFICES ASSUME NEW c \in DOMAIN new, NEW d \in DOMAIN new, NEW m \in DOMAIN new[c],
                      NEW n \in DOMAIN new[d], new[c][m] = new[d][n]
               PROVE  c = d /\ m = n
    BY DEF Once
  <2>1. c \in DOMAIN tab /\ d \in DOMAIN tab
    BY <1>1, <1>4
  <2>2. CASE c = b /\ d = b
    <3>0. m \in DOMAIN chain /\ n \in DOMAIN chain /\ chain[m] = chain[n]
      BY <1>4, <2>2
    <3>1. old(m) = old(n)
      BY <1>1, <1>5, <3>0 DEF Once
    <3> QED
      BY <1>4, <1>6, <2>2, <3>1
  <2>3. CASE c = b /\ d # b
    BY <1>4, <1>5, <2>1, <2>3 DEF Once
  <2>4. CASE c # b /\ d = b
    BY <1>4, <1>5, <2>1, <2>4 DEF Once
  <2>5. CASE c # b /\ d # b
    BY <1>4, <2>1, <2>5 DEF Once
  <2> QED
    BY <2>2, <2>3, <2>4, <2>5
<1>10. ASSUME NEW x PROVE Holds(new, x) <=> Holds(tab, x) /\ x # tab[b][o]
  <2>1. ASSUME Holds(new, x) PROVE Holds(tab, x) /\ x # tab[b][o]
    <3>0. PICK c \in DOMAIN new : \E n \in DOMAIN new[c] : new[c][n] = x
      BY <2>1 DEF Holds
    <3>1. PICK n \in DOMAIN new[c] : new[c][n] = x
      BY <3>0
    <3>2. CASE c = b
      BY <1>1, <1>4, <1>5, <3>1, <3>2 DEF Holds, Once
    <3>3. CASE c # b
      BY <1>1, <1>4, <3>1, <3>3 DEF Holds, Once
    <3> QED
      BY <3>2, <3>3
  <2>2. ASSUME NEW c \in DOMAIN tab, NEW n \in DOMAIN tab[c], tab[c][n] = x, x # tab[b][o]
        PROVE  Holds(new, x)
    <3>1. CASE c = b
      <4>1. PICK m \in DOMAIN chain : old(m) = n
        BY <1>7, <2>2, <3>1
      <4> QED
        BY <1>4, <1>5, <2>2, <3>1, <4>1 DEF Holds
    <3>2. CASE c # b
      BY <1>1, <1>4, <2>2, <3>2 DEF Holds
    <3> QED
      BY <3>1, <3>2
  <2> QED
    BY <2>1, <2>2 DEF Holds
<1> QED
  BY <1>3, <1>8, <1>9, <1>10

\* A chain without its first entry, and without the one at n.
LEMMA TailIs ==
    ASSUME NEW chain \in Seq(Entries), chain # <<>>
    PROVE  /\ Without(Tail(chain), chain, 1)
           /\ 1 \in DOMAIN chain /\ Head(chain) = chain[1] /\ Head(chain) \in Entries
BY HeadTailProperties DEF Without

\* The chain without one of its entries, as _ks_hash_remove links it.
LEMMA CutIs ==
    ASSUME NEW chain \in Seq(Entries), NEW o \in DOMAIN chain,
           NEW cut, cut = Cut(chain, o)
    PROVE  Without(cut, chain, o)
<1>1. Len(chain) \in Nat /\ o \in 1 .. Len(chain) /\ \A n \in 1 .. Len(chain) : chain[n] \in Entries
  OBVIOUS
<1> DEFINE l == SubSeq(chain, 1, o - 1)
           r == SubSeq(chain, o + 1, Len(chain))
<1>2. l \in Seq(Entries) /\ Len(l) = o - 1 /\ \A n \in 1 .. o - 1 : l[n] = chain[n]
  <2>1. 1 \in Int /\ o - 1 \in Int /\ \A n \in 1 .. o - 1 : chain[n] \in Entries
    BY <1>1
  <2>2. /\ l \in Seq(Entries) /\ Len(l) = IF 1 <= o - 1 THEN (o - 1) - 1 + 1 ELSE 0
        /\ \A n \in 1 .. (o - 1) - 1 + 1 : l[n] = chain[1 + n - 1]
    BY <2>1, SubSeqProperties
  <2> HIDE DEF l
  <2>3. Len(l) = o - 1 /\ (o - 1) - 1 + 1 = o - 1
    BY <1>1, <2>2
  <2>4. \A n \in 1 .. o - 1 : 1 + n - 1 = n
    OBVIOUS
  <2> QED
    BY <2>2, <2>3, <2>4
<1>3. r \in Seq(Entries) /\ Len(r) = Len(chain) - o /\ \A n \in 1 .. Len(chain) - o : r[n] = chain[o + n]
  <2>1. o + 1 \in Int /\ Len(chain) \in Int /\ \A n \in o + 1 .. Len(chain) : chain[n] \in Entries
    BY <1>1
  <2>2. /\ r \in Seq(Entries) /\ Len(r) = IF o + 1 <= Len(chain) THEN Len(chain) - (o + 1) + 1 ELSE 0
        /\ \A n \in 1 .. Len(chain) - (o + 1) + 1 : r[n] = chain[(o + 1) + n - 1]
    BY <2>1, SubSeqProperties
  <2> HIDE DEF r
  <2>3. Len(r) = Len(chain) - o /\ Len(chain) - (o + 1) + 1 = Len(chain) - o
    BY <1>1, <2>2
  <2>4. \A n \in 1 .. Len(chain) - o : (o + 1) + n - 1 = o + n
    BY <1>1
  <2> QED
    BY <2>2, <2>3, <2>4
<1> HIDE DEF l, r
<1>4. cut = l \o r /\ l \in Seq(Entries) /\ r \in Seq(Entries)
  BY <1>2, <1>3 DEF l, r, Cut
<1>5. /\ cut \in Seq(Entries) /\ Len(cut) = Len(l) + Len(r)
      /\ \A n \in 1 .. Len(l) + Len(r) : cut[n] = IF n <= Len(l) THEN l[n] ELSE r[n - Len(l)]
  <2>1. /\ l \o r \in Seq(Entries) /\ Len(l \o r) = Len(l) + Len(r)
        /\ \A n \in 1 .. Len(l) + Len(r) : (l \o r)[n] = IF n <= Len(l) THEN l[n] ELSE r[n - Len(l)]
    BY <1>4, ConcatProperties
  <2> QED
    BY <1>4, <2>1, Zenon
<1>6. Len(cut) = Len(chain) - 1 /\ Len(l) = o - 1 /\ Len(r) = Len(chain) - o
  <2>1. Len(l) = o - 1 /\ Len(r) = Len(chain) - o /\ Len(cut) = Len(l) + Len(r)
    BY <1>2, <1>3, <1>5
  <2> QED
    BY <1>1, <2>1
<1>7. ASSUME NEW n \in 1 .. Len(cut) PROVE cut[n] = IF n < o THEN chain[n] ELSE chain[n + 1]
  <2>1. CASE n < o
    <3>1. n <= Len(l) /\ n \in 1 .. o - 1 /\ n \in 1 .. Len(l) + Len(r)
      BY <1>1, <1>6, <2>1
    <3> QED
      BY <1>2, <1>5, <2>1, <3>1
  <2>2. CASE ~(n < o)
    <3>1. /\ ~(n <= Len(l)) /\ n - Len(l) \in 1 .. Len(chain) - o /\ n \in 1 .. Len(l) + Len(r)
          /\ o + (n - Len(l)) = n + 1
      BY <1>1, <1>6, <2>2
    <3> QED
      BY <1>3, <1>5, <2>2, <3>1
  <2> QED
    BY <2>1, <2>2
<1> QED
  BY <1>5, <1>6, <1>7 DEF Without

-----------------------------------------------------------------------------
(* Sound tables                                                            *)

\* A new entry with its key, in front of the bucket of the key.
LEMMA SoundPush ==
    ASSUME NEW L \in Nat \ {0}, NEW tab, NEW keys, NEW count, Sound(tab, keys, count, L),
           NEW e \in Entries, keys[e] = NoKey, NEW key \in Keys, NEW b, b = Bucket(L, key)
    PROVE  Sound(Pushed(tab, b, e), [keys EXCEPT ![e] = key], count + 1, L)
<1>1. PICK new : new = Pushed(tab, b, e)
  OBVIOUS
<1>2. PICK ks : ks = [keys EXCEPT ![e] = key]
  OBVIOUS
<1>3. tab \in Tables(L) /\ Once(tab) /\ ~Holds(tab, e) /\ b \in 0 .. L - 1 /\ keys \in [Entries -> Keys \cup {NoKey}]
  BY BucketIn DEF Sound
<1>4. /\ new \in Tables(L) /\ Once(new)
      /\ \A x : Holds(new, x) <=> Holds(tab, x) \/ x = e
      /\ \A c \in DOMAIN new : \A n \in DOMAIN new[c] :
            \/ c = b /\ new[c][n] = e
            \/ \E m \in DOMAIN tab[c] : new[c][n] = tab[c][m]
  BY <1>1, <1>3, PushTable
<1>5. ks \in [Entries -> Keys \cup {NoKey}] /\ ks[e] = key /\ \A x \in Entries \ {e} : ks[x] = keys[x]
  BY <1>2, <1>3
<1>6. Sits(new, ks, L)
  <2> SUFFICES ASSUME NEW c \in DOMAIN new, NEW n \in DOMAIN new[c]
               PROVE  Bucket(L, ks[new[c][n]]) = c
    BY DEF Sits
  <2>1. CASE c = b /\ new[c][n] = e
    BY <1>5, <2>1
  <2>2. CASE \E m \in DOMAIN tab[c] : new[c][n] = tab[c][m]
    <3>1. PICK m \in DOMAIN tab[c] : new[c][n] = tab[c][m]
      BY <2>2
    <3>2. c \in DOMAIN tab /\ DOMAIN tab = 0 .. L - 1 /\ tab[c] \in Seq(Entries)
      BY <1>3, <1>4 DEF Tables
    <3>3. tab[c][m] \in Entries /\ tab[c][m] # e
      BY <1>3, <3>2 DEF Holds
    <3> QED
      BY <1>5, <3>1, <3>2, <3>3 DEF Sound, Sits
  <2> QED
    BY <1>4, <2>1, <2>2
<1>7. ASSUME NEW x \in Entries PROVE Holds(new, x) <=> ks[x] # NoKey
  BY <1>4, <1>5, NoKeyIsNone DEF Sound
<1>8. count + 1 = Cardinality(Used(ks))
  <2>1. Used(ks) = Used(keys) \cup {e} /\ e \notin Used(keys)
    BY <1>5, NoKeyIsNone DEF Used
  <2>2. Used(keys) \in SUBSET Entries /\ count = Cardinality(Used(keys))
    BY DEF Used, Sound
  <2> QED
    BY <2>1, <2>2, EntriesFinite, FS_AddElement
<1>9. Sound(new, ks, count + 1, L)
  BY <1>4, <1>5, <1>6, <1>7, <1>8 DEF Sound
<1> QED
  BY <1>1, <1>2, <1>9

\* An entry that is unlinked and freed.
LEMMA SoundDrop ==
    ASSUME NEW L \in Nat \ {0}, NEW tab, NEW keys, NEW count, Sound(tab, keys, count, L),
           NEW b \in 0 .. L - 1, NEW o \in DOMAIN tab[b]
    PROVE  Sound(Rechained(tab, b, Cut(tab[b], o)), [keys EXCEPT ![tab[b][o]] = NoKey], count - 1, L)
<1>1. PICK chain : chain = Cut(tab[b], o)
  OBVIOUS
<1>2. PICK new : new = Rechained(tab, b, chain)
  OBVIOUS
<1>3. PICK e : e = tab[b][o]
  OBVIOUS
<1>4. PICK ks : ks = [keys EXCEPT ![e] = NoKey]
  OBVIOUS
<1>5. /\ tab \in Tables(L) /\ Once(tab) /\ keys \in [Entries -> Keys \cup {NoKey}]
      /\ DOMAIN tab = 0 .. L - 1 /\ tab[b] \in Seq(Entries)
  BY DEF Sound, Tables
<1>6. e \in Entries /\ Holds(tab, e) /\ keys[e] # NoKey
  BY <1>3, <1>5 DEF Sound, Holds
<1>7. Without(chain, tab[b], o)
  <2>1. tab[b] \in Seq(Entries)
    BY <1>5
  <2> QED
    BY <1>1, <2>1, CutIs
<1>8. /\ new \in Tables(L) /\ Once(new)
      /\ \A x : Holds(new, x) <=> Holds(tab, x) /\ x # e
      /\ \A c \in DOMAIN new : \A n \in DOMAIN new[c] :
            \E m \in DOMAIN tab[c] : new[c][n] = tab[c][m]
  BY <1>2, <1>3, <1>5, <1>7, DropTable
<1>9. ks \in [Entries -> Keys \cup {NoKey}] /\ ks[e] = NoKey /\ \A x \in Entries \ {e} : ks[x] = keys[x]
  BY <1>4, <1>5, <1>6
<1>10. Sits(new, ks, L)
  <2> SUFFICES ASSUME NEW c \in DOMAIN new, NEW n \in DOMAIN new[c]
               PROVE  Bucket(L, ks[new[c][n]]) = c
    BY DEF Sits
  <2>1. PICK m \in DOMAIN tab[c] : new[c][n] = tab[c][m]
    BY <1>8
  <2>2. c \in DOMAIN tab /\ tab[c] \in Seq(Entries)
    BY <1>5, <1>8 DEF Tables
  <2>3. tab[c][m] \in Entries
    BY <2>2
  <2>4. Holds(new, new[c][n])
    BY DEF Holds
  <2>5. tab[c][m] # e
    BY <1>8, <2>1, <2>4
  <2> QED
    BY <1>9, <2>1, <2>2, <2>3, <2>5 DEF Sound, Sits
<1>11. ASSUME NEW x \in Entries PROVE Holds(new, x) <=> ks[x] # NoKey
  BY <1>8, <1>9 DEF Sound
<1>12. count - 1 = Cardinality(Used(ks))
  <2>1. Used(ks) = Used(keys) \ {e} /\ e \in Used(keys)
    BY <1>6, <1>9 DEF Used
  <2>2. Used(keys) \in SUBSET Entries /\ count = Cardinality(Used(keys))
    BY DEF Used, Sound
  <2> QED
    BY <2>1, <2>2, EntriesFinite, FS_RemoveElement
<1>13. Sound(new, ks, count - 1, L)
  BY <1>8, <1>9, <1>10, <1>11, <1>12 DEF Sound
<1> QED
  BY <1>1, <1>2, <1>3, <1>4, <1>13

-----------------------------------------------------------------------------
(* ks_hash_expand                                                          *)

\* On the way: every entry is in one of the tables, once, and in the new one
\* it is in its bucket.
Moving(m, tab, keys, L, size) ==
    /\ m = [from |-> m.from, to |-> m.to]
    /\ m.from \in Tables(L) /\ m.to \in Tables(size) /\ Once(m.from) /\ Once(m.to)
    /\ Sits(m.to, keys, size)
    /\ \A e \in Entries : /\ Holds(tab, e) <=> Holds(m.from, e) \/ Holds(m.to, e)
                          /\ ~(Holds(m.from, e) /\ Holds(m.to, e))

Left(m) == {e \in Entries : Holds(m.from, e)}

\* A step moves one, if there is one.
LEMMA MoveOneMoves ==
    ASSUME NEW L \in Nat \ {0}, NEW size \in Nat \ {0}, NEW tab, NEW keys,
           keys \in [Entries -> Keys \cup {NoKey}],
           \A e \in Entries : Holds(tab, e) => keys[e] # NoKey,
           NEW m, Moving(m, tab, keys, L, size)
    PROVE  /\ Moving(MoveOne(m, keys, size), tab, keys, L, size)
           /\ \/ Left(m) = {} /\ MoveOne(m, keys, size) = m
              \/ \E e \in Left(m) : Left(MoveOne(m, keys, size)) = Left(m) \ {e}
<1> DEFINE some == {b \in DOMAIN m.from : m.from[b] # <<>>}
           b == CHOOSE b \in some : \A c \in some : b <= c
           e == Head(m.from[b])
           d == Bucket(size, keys[e])
<1>1. MoveOne(m, keys, size) =
        IF some = {} THEN m
        ELSE [from |-> [m.from EXCEPT ![b] = Tail(@)], to |-> [m.to EXCEPT ![d] = <<e>> \o @]]
  BY DEF MoveOne
<1>2. /\ m.from \in Tables(L) /\ m.to \in Tables(size) /\ Once(m.from) /\ Once(m.to)
      /\ Sits(m.to, keys, size)
      /\ \A x \in Entries : /\ Holds(tab, x) <=> Holds(m.from, x) \/ Holds(m.to, x)
                            /\ ~(Holds(m.from, x) /\ Holds(m.to, x))
  BY DEF Moving
<1>3. DOMAIN m.from = 0 .. L - 1 /\ \A c \in 0 .. L - 1 : m.from[c] \in Seq(Entries)
  BY <1>2 DEF Tables
<1>4. CASE some = {}
  <2>1. Left(m) = {}
    BY <1>3, <1>4 DEF Left, Holds
  <2> QED
    BY <1>1, <1>4, <2>1
<1>5. CASE some # {}
  <2>1. some \subseteq Nat
    BY <1>3
  <2>2. b \in some
    <3>1. \E x \in some : \A y \in some : x <= y
      <4> HIDE DEF some
      <4> QED
        BY <1>5, <2>1, Least
    <3> HIDE DEF some
    <3> QED
      BY <3>1
  <2>3. b \in 0 .. L - 1 /\ m.from[b] \in Seq(Entries) /\ m.from[b] # <<>>
    <3> HIDE DEF b
    <3> QED
      BY <1>3, <2>2
  <2> HIDE DEF b
  <2>4. /\ Without(Tail(m.from[b]), m.from[b], 1)
        /\ 1 \in DOMAIN m.from[b] /\ e = m.from[b][1] /\ e \in Entries
    BY <2>3, TailIs
  <2> HIDE DEF e, some
  <2>5. Holds(m.from, e)
    BY <1>3, <2>3, <2>4 DEF Holds
  <2>6. Holds(tab, e) /\ ~Holds(m.to, e) /\ keys[e] \in Keys
    BY <1>2, <2>4, <2>5, NoKeyIsNone
  <2>7. d \in 0 .. size - 1
    BY <2>6, BucketIn
  <2>8. PICK f : f = Rechained(m.from, b, Tail(m.from[b]))
    OBVIOUS
  <2>9. PICK g : g = Pushed(m.to, d, e)
    OBVIOUS
  <2>10. /\ f \in Tables(L) /\ Once(f)
         /\ \A x : Holds(f, x) <=> Holds(m.from, x) /\ x # e
    BY <1>2, <2>3, <2>4, <2>8, DropTable
  <2> HIDE DEF d
  <2>11. /\ g \in Tables(size) /\ Once(g)
         /\ \A x : Holds(g, x) <=> Holds(m.to, x) \/ x = e
         /\ \A c \in DOMAIN g : \A n \in DOMAIN g[c] :
               \/ c = d /\ g[c][n] = e
               \/ \E o \in DOMAIN m.to[c] : g[c][n] = m.to[c][o]
    BY <1>2, <2>4, <2>6, <2>7, <2>9, PushTable
  <2>12. Sits(g, keys, size)
    <3> SUFFICES ASSUME NEW c \in DOMAIN g, NEW n \in DOMAIN g[c]
                 PROVE  Bucket(size, keys[g[c][n]]) = c
      BY DEF Sits
    <3>1. CASE c = d /\ g[c][n] = e
      BY <3>1 DEF d
    <3>2. CASE \E o \in DOMAIN m.to[c] : g[c][n] = m.to[c][o]
      <4>1. DOMAIN g = DOMAIN m.to
        BY <1>2, <2>11 DEF Tables
      <4> QED
        BY <1>2, <3>2, <4>1 DEF Sits
    <3> QED
      BY <2>11, <3>1, <3>2
  <2>13. PICK q : q = MoveOne(m, keys, size)
    OBVIOUS
  <2>14. q = [from |-> f, to |-> g]
    BY <1>1, <1>5, <2>8, <2>9, <2>13 DEF Rechained, Pushed
  <2>15. q.from = f /\ q.to = g /\ q = [from |-> q.from, to |-> q.to]
    BY <2>14
  <2>16. Moving(q, tab, keys, L, size)
    <3>1. ASSUME NEW x \in Entries
          PROVE  /\ Holds(tab, x) <=> Holds(f, x) \/ Holds(g, x)
                 /\ ~(Holds(f, x) /\ Holds(g, x))
      BY <1>2, <2>6, <2>10, <2>11
    <3> QED
      BY <2>10, <2>11, <2>12, <2>15, <3>1 DEF Moving
  <2>17. e \in Left(m) /\ Left(q) = Left(m) \ {e}
    BY <2>4, <2>5, <2>10, <2>15 DEF Left
  <2> QED
    BY <2>13, <2>16, <2>17
<1> QED
  BY <1>4, <1>5

\* The loop of ks_hash_expand, as a sequence of tables.
Loop(f, h, size, n) ==
    f = [j \in 0 .. n |-> IF j = 0 THEN [from |-> h.tab, to |-> [b \in 0 .. size - 1 |-> <<>>]]
                          ELSE MoveOne(f[j - 1], h.keys, size)]

\* The loop of ks_hash_expand is a function of its turns: one for no turns, and one
\* more turn for each.
LEMMA LoopExists ==
    ASSUME NEW h, NEW size
    PROVE  \E f : Loop(f, h, size, MaxEntries)
<1> DEFINE S == {n \in 0 .. MaxEntries : ~\E f : Loop(f, h, size, n)}
<1>1. MaxEntries \in Nat
  BY EntriesBounded
<1>2. S = {}
  <2> SUFFICES ASSUME S # {} PROVE FALSE
    OBVIOUS
  <2>1. S \subseteq Nat
    BY <1>1
  <2>2. PICK n \in S : \A x \in S : n <= x
    <3> HIDE DEF S
    <3> QED
      BY <2>1, Least
  <2>3. n \in 0 .. MaxEntries /\ ~\E f : Loop(f, h, size, n)
    OBVIOUS
  <2> DEFINE start == [from |-> h.tab, to |-> [b \in 0 .. size - 1 |-> <<>>]]
  <2>4. CASE n = 0
    <3>1. PICK f : f = [j \in 0 .. 0 |-> start]
      OBVIOUS
    <3>2. f = [j \in 0 .. 0 |-> IF j = 0 THEN start ELSE MoveOne(f[j - 1], h.keys, size)]
      <4> HIDE DEF start
      <4> QED
        BY <3>1
    <3>3. Loop(f, h, size, 0)
      BY <3>2 DEF Loop
    <3> QED
      BY <2>3, <2>4, <3>3
  <2>5. CASE n # 0
    <3>1. n \in Nat /\ n - 1 \in 0 .. MaxEntries /\ ~(n <= n - 1)
      BY <1>1, <2>3, <2>5
    <3>2. n - 1 \notin S
      <4> HIDE DEF S
      <4> QED
        BY <2>2, <3>1
    <3>3. PICK f : Loop(f, h, size, n - 1)
      BY <3>1, <3>2
    <3>4. f = [j \in 0 .. n - 1 |-> IF j = 0 THEN start ELSE MoveOne(f[j - 1], h.keys, size)]
      BY <3>3 DEF Loop
    <3> HIDE DEF start
    <3>5. PICK g : g = [j \in 0 .. n |-> IF j = n THEN MoveOne(f[n - 1], h.keys, size) ELSE f[j]]
      OBVIOUS
    <3>6. \A j \in 0 .. n - 1 : g[j] = f[j] /\ j # n /\ j \in 0 .. n
      BY <3>1, <3>5
    <3>7. ASSUME NEW j \in 0 .. n
          PROVE  g[j] = IF j = 0 THEN start ELSE MoveOne(g[j - 1], h.keys, size)
      <4>1. CASE j = n
        <5>1. g[j] = MoveOne(f[n - 1], h.keys, size) /\ n - 1 \in 0 .. n - 1
          BY <2>5, <3>1, <3>5, <4>1
        <5> QED
          BY <2>5, <3>6, <4>1, <5>1
      <4>2. CASE j # n
        <5>1. j \in 0 .. n - 1 /\ (j # 0 => j - 1 \in 0 .. n - 1)
          BY <3>1, <4>2
        <5>2. f[j] = IF j = 0 THEN start ELSE MoveOne(f[j - 1], h.keys, size)
          BY <3>4, <5>1
        <5> QED
          BY <3>6, <5>1, <5>2
      <4> QED
        BY <4>1, <4>2
    <3>8. g = [j \in 0 .. n |-> g[j]]
      BY <3>5
    <3>9. g = [j \in 0 .. n |-> IF j = 0 THEN start ELSE MoveOne(g[j - 1], h.keys, size)]
      BY <3>7, <3>8
    <3>10. Loop(g, h, size, n)
      BY <3>9 DEF Loop, start
    <3> QED
      BY <2>3, <3>10
  <2> QED
    BY <2>4, <2>5
<1> QED
  BY <1>1, <1>2

\* A table that grows holds what it held, each entry in its new bucket.
LEMMA SoundExpand ==
    ASSUME NEW L \in Nat \ {0}, NEW size \in Nat \ {0}, NEW h, Sound(h.tab, h.keys, h.count, L)
    PROVE  Sound(ks_hash_expand(h, size), h.keys, h.count, size)
<1> DEFINE start == [from |-> h.tab, to |-> [b \in 0 .. size - 1 |-> <<>>]]
           f == CHOOSE f : f = [n \in 0 .. MaxEntries |->
                                  IF n = 0 THEN start ELSE MoveOne(f[n - 1], h.keys, size)]
<1>1. ks_hash_expand(h, size) = f[MaxEntries].to
  BY DEF ks_hash_expand
<1>2. \E g : g = [n \in 0 .. MaxEntries |-> IF n = 0 THEN start ELSE MoveOne(g[n - 1], h.keys, size)]
  <2>1. PICK g : Loop(g, h, size, MaxEntries)
    BY LoopExists
  <2> QED
    BY <2>1 DEF Loop
<1>3. f = [n \in 0 .. MaxEntries |-> IF n = 0 THEN start ELSE MoveOne(f[n - 1], h.keys, size)]
  <2> HIDE DEF start
  <2> QED
    BY <1>2
<1> HIDE DEF f
<1>4. MaxEntries \in Nat
  BY EntriesBounded
<1>5. /\ h.tab \in Tables(L) /\ Once(h.tab) /\ h.keys \in [Entries -> Keys \cup {NoKey}]
      /\ \A e \in Entries : Holds(h.tab, e) <=> h.keys[e] # NoKey
  BY DEF Sound
<1> DEFINE Good(n) == /\ Moving(f[n], h.tab, h.keys, L, size)
                      /\ Left(f[n]) = {} \/ Cardinality(Left(f[n])) <= MaxEntries - n
<1>6. f[0] = start
  BY <1>3, <1>4
<1>7. Good(0)
  <2>1. PICK m : m = f[0]
    OBVIOUS
  <2>2. m.from = h.tab /\ m.to = [b \in 0 .. size - 1 |-> <<>>] /\ m = [from |-> m.from, to |-> m.to]
    BY <1>6, <2>1
  <2>3. m.to \in Tables(size) /\ Once(m.to) /\ Sits(m.to, h.keys, size) /\ \A e : ~Holds(m.to, e)
    BY <2>2 DEF Tables, Once, Sits, Holds
  <2>4. Moving(m, h.tab, h.keys, L, size)
    BY <1>5, <2>2, <2>3 DEF Moving
  <2>5. Left(m) \in SUBSET Entries
    BY DEF Left
  <2>6. Cardinality(Left(m)) <= MaxEntries - 0
    BY <1>4, <2>5, EntriesFinite
  <2> QED
    BY <2>1, <2>4, <2>6
<1>8. ASSUME NEW n \in 1 .. MaxEntries, Good(n - 1) PROVE Good(n)
  <2>1. f[n] = MoveOne(f[n - 1], h.keys, size)
    BY <1>3, <1>4
  <2>2. PICK m : m = f[n - 1]
    OBVIOUS
  <2>3. PICK q : q = f[n]
    OBVIOUS
  <2>4. Moving(m, h.tab, h.keys, L, size) /\ q = MoveOne(m, h.keys, size)
    BY <1>8, <2>1, <2>2, <2>3
  <2>5. /\ Moving(q, h.tab, h.keys, L, size)
        /\ \/ Left(m) = {} /\ q = m
           \/ \E e \in Left(m) : Left(q) = Left(m) \ {e}
    BY <1>5, <2>4, MoveOneMoves
  <2>6. CASE Left(m) = {} /\ q = m
    BY <2>3, <2>5, <2>6
  <2>7. CASE \E e \in Left(m) : Left(q) = Left(m) \ {e}
    <3>1. PICK e \in Left(m) : Left(q) = Left(m) \ {e}
      BY <2>7
    <3>2. Left(m) \in SUBSET Entries /\ Cardinality(Left(m)) <= MaxEntries - (n - 1)
      BY <1>8, <2>2 DEF Left
    <3>3. Cardinality(Left(q)) = Cardinality(Left(m)) - 1 /\ Cardinality(Left(m)) \in Nat
      BY <3>1, <3>2, EntriesFinite, FS_RemoveElement
    <3>4. Cardinality(Left(q)) <= MaxEntries - n
      BY <1>4, <3>2, <3>3
    <3> QED
      BY <2>3, <2>5, <3>4
  <2> QED
    BY <2>5, <2>6, <2>7
<1> DEFINE S == {n \in 0 .. MaxEntries : ~Good(n)}
<1>9. S = {}
  <2> SUFFICES ASSUME S # {} PROVE FALSE
    OBVIOUS
  <2> HIDE DEF Good
  <2>1. S \subseteq Nat
    BY <1>4
  <2>2. PICK n \in S : \A x \in S : n <= x
    <3> HIDE DEF S
    <3> QED
      BY <2>1, Least
  <2>3. n \in 0 .. MaxEntries /\ ~Good(n)
    OBVIOUS
  <2>4. n # 0 /\ n \in 1 .. MaxEntries /\ n - 1 \in 0 .. MaxEntries /\ ~(n <= n - 1)
    BY <1>4, <1>7, <2>3
  <2>5. n - 1 \notin S
    <3> HIDE DEF S
    <3> QED
      BY <2>2, <2>4
  <2>6. Good(n - 1)
    BY <2>4, <2>5
  <2> QED
    BY <1>8, <2>3, <2>4, <2>6
<1>10. Good(MaxEntries)
  <2> HIDE DEF Good
  <2> QED
    BY <1>4, <1>9
<1>11. PICK m : m = f[MaxEntries]
  OBVIOUS
<1>12. Moving(m, h.tab, h.keys, L, size) /\ (Left(m) = {} \/ Cardinality(Left(m)) <= MaxEntries - MaxEntries)
  BY <1>10, <1>11
<1>13. Left(m) = {}
  <2>1. Left(m) \in SUBSET Entries
    BY DEF Left
  <2>2. IsFiniteSet(Left(m)) /\ Cardinality(Left(m)) \in Nat
    BY <2>1, EntriesFinite
  <2>3. Cardinality(Left(m)) <= 0 => Cardinality(Left(m)) = 0
    BY <2>2
  <2> QED
    BY <1>4, <1>12, <2>2, <2>3, FS_EmptySet
<1>14. m.to \in Tables(size) /\ Once(m.to) /\ Sits(m.to, h.keys, size)
  BY <1>12 DEF Moving
<1>15. \A e \in Entries : Holds(m.to, e) <=> h.keys[e] # NoKey
  BY <1>5, <1>12, <1>13 DEF Moving, Left
<1>16. Sound(m.to, h.keys, h.count, size)
  BY <1>14, <1>15 DEF Sound
<1> QED
  BY <1>1, <1>11, <1>16

-----------------------------------------------------------------------------
(* The inductive invariant                                                 *)

\* Where a thread has the read lock, and the write lock.
Reading == {"searched", "searched_locked", "iterate", "last"}
Writing == {"lock_insert", "locked", "drain"}

HashTypes ==
    /\ primeindex \in 1 .. Len(primes)
    /\ pc \in [Threads -> Locations]
    /\ k \in [Threads -> Keys \cup {NoKey}]
    /\ index \in [Threads -> Nat] /\ found \in [Threads -> BOOLEAN]
    /\ i \in [Threads -> [pos : Nat, e : Entries \cup {NoEntry}]]
    /\ visited \in [Threads -> SUBSET Entries]
    /\ depth \in [Threads -> Nat] /\ reads \in [Threads -> Nat]
    /\ role \in Roles

TableOK == Sound(table, key_of, entrycount, tablelength)

\* Who has the lock is where it needs it, and a writer is alone.
Locks ==
    /\ \A t \in Threads : depth[t] = IF pc[t] \in Writing THEN 1 ELSE 0
    /\ \A t \in Threads : reads[t] = IF pc[t] \in Reading THEN 1 ELSE 0
    /\ \A t, u \in Threads : pc[t] \in Writing /\ t # u => pc[u] \notin Writing \cup Reading

Readers == {t \in Threads : pc[t] \in Reading}
Counted == IsFiniteSet(Readers) /\ readers = Cardinality(Readers)

\* The bucket of an insertion is still that of the key.
Inserts(t) ==
    pc[t] \in Inserting =>
        k[t] \in Keys /\ index[t] = Bucket(tablelength, k[t]) /\ pc[t] \in role[t]

Searched(t) == pc[t] = "searched_locked" => found[t] = Present(k[t])

\* The entries up to place n of bucket b.
Before(tab, b, n) ==
    {e \in Entries : \E c \in DOMAIN tab : \E m \in DOMAIN tab[c] :
                        tab[c][m] = e /\ (c < b \/ (c = b /\ m <= n))}

Emptied(tab, b) == \A c \in DOMAIN tab : c < b => tab[c] = <<>>

\* An iterator has been at all entries up to its own; the one that empties
\* the table is at the first there is.
Iterates(t) ==
    /\ pc[t] = "iterate" =>
         \E b \in DOMAIN table : \E n \in DOMAIN table[b] :
            i[t] = [pos |-> b, e |-> table[b][n]] /\ visited[t] = Before(table, b, n)
    /\ pc[t] = "drain" =>
         \E b \in DOMAIN table :
            table[b] # <<>> /\ i[t] = [pos |-> b, e |-> table[b][1]] /\ Emptied(table, b)
    /\ pc[t] \notin {"iterate", "drain"} => i[t] = NoIterator
    /\ pc[t] \notin {"iterate", "last"} => visited[t] = {}

Local(t) == Inserts(t) /\ Searched(t) /\ Iterates(t)

HashIInv == HashTypes /\ TableOK /\ Locks /\ Counted /\ \A t \in Threads : Local(t)

-----------------------------------------------------------------------------
(* What the invariant means                                                *)

\* The size of the table is one.
LEMMA TableLength == HashTypes => tablelength \in Nat \ {0}
BY SizeIs DEF HashTypes, tablelength

\* Live is what is in use.
LEMMA LiveIs == Live = Used(key_of)
BY DEF Live, Used

\* A sound table has every live entry in one place, in its bucket.
LEMMA IInvPlaced == HashIInv => Placed
<1> SUFFICES ASSUME HashIInv PROVE Placed
  OBVIOUS
<1>1. Sound(table, key_of, entrycount, tablelength) /\ tablelength \in Nat \ {0}
  BY TableLength DEF HashIInv, TableOK
<1>2. /\ table \in Tables(tablelength) /\ Once(table) /\ Sits(table, key_of, tablelength)
      /\ \A e \in Entries : Holds(table, e) <=> key_of[e] # NoKey
      /\ entrycount = Cardinality(Live)
  BY <1>1, LiveIs DEF Sound
<1>3. /\ DOMAIN table = 0 .. tablelength - 1
      /\ \A b \in DOMAIN table : table[b] \in Seq(Entries) /\ DOMAIN table[b] = 1 .. Len(table[b])
  BY <1>2 DEF Tables
<1>4. ASSUME NEW e \in Entries PROVE Cardinality(InChain(e)) = IF e \in Live THEN 1 ELSE 0
  <2>1. CASE e \notin Live
    <3>1. ~Holds(table, e)
      BY <1>2, <2>1 DEF Live
    <3>2. InChain(e) = {}
      BY <3>1 DEF InChain, Holds
    <3> QED
      BY <2>1, <3>2, FS_EmptySet
  <2>2. CASE e \in Live
    <3>1. Holds(table, e)
      BY <1>2, <2>2 DEF Live
    <3>2. PICK b \in DOMAIN table : \E n \in DOMAIN table[b] : table[b][n] = e
      BY <3>1 DEF Holds
    <3>3. PICK n \in DOMAIN table[b] : table[b][n] = e
      BY <3>2
    <3>4. \A m, o \in DOMAIN table[b] : table[b][m] = table[b][o] => m = o
      BY <1>2, OnePlace
    <3>5. Len(table[b]) <= MaxEntries
      BY <1>3, <3>4, ChainBounded
    <3>6. n \in 1 .. MaxEntries
      BY <1>3, <3>5, EntriesBounded
    <3>7. <<b, n>> \in InChain(e)
      BY <3>3, <3>6 DEF InChain
    <3>8. ASSUME NEW x \in InChain(e) PROVE x = <<b, n>>
      <4>1. /\ x \in (DOMAIN table) \X (1 .. MaxEntries) /\ x[1] \in DOMAIN table
            /\ x[2] \in DOMAIN table[x[1]] /\ table[x[1]][x[2]] = e
        BY DEF InChain
      <4>2. x[1] = b /\ x[2] = n
        BY <1>2, <3>3, <4>1, OnePlace
      <4> QED
        BY <4>1, <4>2
    <3>9. InChain(e) = {<<b, n>>}
      BY <3>7, <3>8
    <3> QED
      BY <2>2, <3>9, FS_Singleton
  <2> QED
    BY <2>1, <2>2
<1> QED
  BY <1>2, <1>4 DEF Placed, Sits

\* The invariant says what the run checks.
LEMMA HashIInvMeans == HashIInv => TypeOK /\ HashSound
<1> SUFFICES ASSUME HashIInv PROVE TypeOK /\ HashSound
  OBVIOUS
<1>1. TypeOK
  <2>1. HashTypes /\ Sound(table, key_of, entrycount, tablelength) /\ Counted
    BY DEF HashIInv, TableOK
  <2>2. readers \in Nat
    BY <2>1, FS_CardinalityType DEF Counted
  <2>3. entrycount \in Nat
    <3>1. Used(key_of) \in SUBSET Entries
      BY DEF Used
    <3> QED
      BY <2>1, <3>1, EntriesFinite DEF Sound
  <2>4. \A t \in Threads : i[t].pos \in Nat /\ i[t].e \in Entries \cup {NoEntry}
    BY <2>1 DEF HashTypes
  <2>5. table \in [0 .. tablelength - 1 -> Seq(Entries)] /\ key_of \in [Entries -> Keys \cup {NoKey}]
    BY <2>1 DEF Sound, Tables
  <2> QED
    BY <2>1, <2>2, <2>3, <2>4, <2>5 DEF TypeOK, HashTypes
<1>2. LockedSearchFinds
  BY DEF HashIInv, Local, Searched, LockedSearchFinds
<1>3. IteratorLive
  <2> SUFFICES ASSUME NEW t \in Threads, i[t] # NoIterator
               PROVE  \E n \in DOMAIN table[i[t].pos] : table[i[t].pos][n] = i[t].e
    BY DEF IteratorLive
  <2>1. Iterates(t) /\ table \in Tables(tablelength)
    BY DEF HashIInv, Local, TableOK, Sound
  <2>2. CASE pc[t] = "iterate"
    <3>1. PICK b \in DOMAIN table : \E n \in DOMAIN table[b] : i[t] = [pos |-> b, e |-> table[b][n]]
      BY <2>1, <2>2 DEF Iterates
    <3>2. PICK n \in DOMAIN table[b] : i[t] = [pos |-> b, e |-> table[b][n]]
      BY <3>1
    <3>3. i[t].pos = b /\ i[t].e = table[b][n]
      BY <3>2
    <3> QED
      BY <3>3
  <2>3. CASE pc[t] = "drain"
    <3>1. PICK b \in DOMAIN table : table[b] # <<>> /\ i[t] = [pos |-> b, e |-> table[b][1]]
      BY <2>1, <2>3 DEF Iterates
    <3>2. i[t].pos = b /\ i[t].e = table[b][1]
      BY <3>1
    <3>3. table[b] \in Seq(Entries)
      BY <2>1 DEF Tables
    <3>4. 1 \in DOMAIN table[b]
      BY <3>1, <3>3, TailIs
    <3> QED
      BY <3>2, <3>4
  <2> QED
    BY <2>1, <2>2, <2>3 DEF Iterates
<1> QED
  BY <1>1, <1>2, <1>3, IInvPlaced DEF HashSound

-----------------------------------------------------------------------------
(* The lock                                                                *)

\* Where a thread goes keeps the lock as it is.
LEMMA LockSame ==
    ASSUME HashTypes, Locks, Counted, NEW t \in Threads, NEW w \in Locations, GoTo(t, w),
           w \in Reading <=> pc[t] \in Reading, w \in Writing <=> pc[t] \in Writing,
           UNCHANGED lock, UNCHANGED readers
    PROVE  Locks' /\ Counted'
<1>1. pc' \in [Threads -> Locations] /\ \A u \in Threads : pc'[u] = IF u = t THEN w ELSE pc[u]
  BY DEF HashTypes, GoTo
<1>2. \A u \in Threads : /\ pc'[u] \in Reading <=> pc[u] \in Reading
                         /\ pc'[u] \in Writing <=> pc[u] \in Writing
  BY <1>1
<1>3. depth' = depth /\ reads' = reads
  BY DEF lock
<1>4. Locks'
  BY <1>2, <1>3 DEF Locks
<1>5. Readers' = Readers
  BY <1>2 DEF Readers
<1> QED
  BY <1>4, <1>5 DEF Counted

\* ks_hash_read_lock.
LEMMA LockRead ==
    ASSUME HashTypes, Locks, Counted, NEW t \in Threads, NEW w \in Reading, GoTo(t, w),
           pc[t] \notin Reading \cup Writing, GrantRead(t), readers' = readers + 1
    PROVE  Locks' /\ Counted'
<1>1. pc' = [pc EXCEPT ![t] = w] /\ \A u \in Threads : pc'[u] = IF u = t THEN w ELSE pc[u]
  BY DEF HashTypes, GoTo
<1>2. w \notin Writing
  BY DEF Reading, Writing
<1>3. /\ depth' = depth /\ \A u \in Threads : reads'[u] = IF u = t THEN reads[t] + 1 ELSE reads[u]
      /\ reads[t] = 0 /\ \A u \in Threads : depth[u] = 0 /\ pc[u] \notin Writing
  BY DEF GrantRead, HashTypes, Locks
<1>4. Locks'
  <2>1. \A u \in Threads : pc'[u] \notin Writing
    BY <1>1, <1>2, <1>3
  <2>2. ASSUME NEW u \in Threads PROVE reads'[u] = IF pc'[u] \in Reading THEN 1 ELSE 0
    BY <1>1, <1>3 DEF Locks
  <2> QED
    BY <1>3, <2>1, <2>2 DEF Locks
<1>5. Readers' = Readers \cup {t} /\ t \notin Readers
  BY <1>1 DEF Readers
<1> QED
  BY <1>4, <1>5, FS_AddElement DEF Counted

\* ks_hash_read_unlock.
LEMMA UnlockRead ==
    ASSUME HashTypes, Locks, Counted, NEW t \in Threads, GoTo(t, "idle"),
           pc[t] \in Reading, GiveBackRead(t), readers' = readers - 1
    PROVE  Locks' /\ Counted'
<1>1. pc' = [pc EXCEPT ![t] = "idle"] /\ \A u \in Threads : pc'[u] = IF u = t THEN "idle" ELSE pc[u]
  BY DEF HashTypes, GoTo
<1>2. "idle" \notin Writing /\ "idle" \notin Reading /\ pc[t] \notin Writing
  BY DEF Reading, Writing
<1>3. /\ depth' = depth /\ \A u \in Threads : reads'[u] = IF u = t THEN reads[t] - 1 ELSE reads[u]
      /\ reads[t] = 1
  BY DEF GiveBackRead, HashTypes, Locks
<1>4. Locks'
  <2>1. \A u \in Threads : /\ pc'[u] \in Writing <=> pc[u] \in Writing
                           /\ pc'[u] \in Reading <=> u # t /\ pc[u] \in Reading
    BY <1>1, <1>2
  <2>2. ASSUME NEW u \in Threads PROVE reads'[u] = IF pc'[u] \in Reading THEN 1 ELSE 0
    BY <1>3, <2>1 DEF Locks
  <2> QED
    BY <1>3, <2>1, <2>2 DEF Locks
<1>5. Readers' = Readers \ {t} /\ t \in Readers
  BY <1>1, <1>2 DEF Readers
<1> QED
  BY <1>4, <1>5, FS_RemoveElement DEF Counted

\* ks_hash_write_lock.
LEMMA LockWrite ==
    ASSUME HashTypes, Locks, Counted, NEW t \in Threads, NEW w \in Writing, GoTo(t, w),
           pc[t] \notin Reading \cup Writing, GrantWrite(t), UNCHANGED readers
    PROVE  Locks' /\ Counted'
<1>1. pc' = [pc EXCEPT ![t] = w] /\ \A u \in Threads : pc'[u] = IF u = t THEN w ELSE pc[u]
  BY DEF HashTypes, GoTo
<1>2. w \notin Reading
  BY DEF Reading, Writing
<1>3. depth[t] = 0 /\ \A u \in Threads : depth[u] = 0 /\ reads[u] = 0
  BY DEF GrantWrite, MayWrite, Locks
<1>4. /\ reads' = reads /\ \A u \in Threads : depth'[u] = IF u = t THEN 1 ELSE 0
      /\ \A u \in Threads : pc[u] \notin Writing /\ pc[u] \notin Reading
  BY <1>3 DEF GrantWrite, HashTypes, Locks
<1>5. Locks'
  BY <1>1, <1>2, <1>3, <1>4 DEF Locks
<1>6. Readers' = Readers
  BY <1>1, <1>2 DEF Readers
<1> QED
  BY <1>5, <1>6 DEF Counted

\* ks_hash_write_unlock.
LEMMA UnlockWrite ==
    ASSUME HashTypes, Locks, Counted, NEW t \in Threads, GoTo(t, "idle"),
           pc[t] \in Writing, GiveBackWrite(t), UNCHANGED readers
    PROVE  Locks' /\ Counted'
<1>1. pc' = [pc EXCEPT ![t] = "idle"] /\ \A u \in Threads : pc'[u] = IF u = t THEN "idle" ELSE pc[u]
  BY DEF HashTypes, GoTo
<1>2. "idle" \notin Writing /\ "idle" \notin Reading /\ pc[t] \notin Reading
  BY DEF Reading, Writing
<1>3. /\ reads' = reads /\ \A u \in Threads : depth'[u] = IF u = t THEN depth[t] - 1 ELSE depth[u]
      /\ depth[t] = 1
  BY DEF GiveBackWrite, HashTypes, Locks
<1>4. \A u \in Threads : /\ pc'[u] \in Writing <=> u # t /\ pc[u] \in Writing
                         /\ pc'[u] \in Reading <=> pc[u] \in Reading
  BY <1>1, <1>2
<1>5. Locks'
  <2>1. ASSUME NEW u \in Threads PROVE depth'[u] = IF pc'[u] \in Writing THEN 1 ELSE 0
    BY <1>3, <1>4 DEF Locks
  <2> QED
    BY <1>3, <1>4, <2>1 DEF Locks
<1>6. Readers' = Readers
  BY <1>4 DEF Readers
<1> QED
  BY <1>5, <1>6 DEF Counted

\* Who may write, and does not read, is alone.
LEMMA WriterAlone ==
    ASSUME Locks, NEW t \in Threads, MayWrite(t)
    PROVE  \A u \in Threads \ {t} : pc[u] \notin Reading \cup Writing
<1>1. CASE depth[t] > 0
  <2>1. pc[t] \in Writing
    BY <1>1 DEF Locks
  <2> QED
    BY <2>1 DEF Locks
<1>2. CASE \A u \in Threads : depth[u] = 0 /\ reads[u] = 0
  <2>1. ASSUME NEW u \in Threads PROVE pc[u] \notin Reading /\ pc[u] \notin Writing
    BY <1>2 DEF Locks
  <2> QED
    BY <2>1
<1> QED
  BY <1>1, <1>2 DEF MayWrite

-----------------------------------------------------------------------------
(* The other threads                                                       *)

\* While the table stays as it is, nothing changes for who does nothing.
LEMMA QuietOthers ==
    ASSUME NEW u, Local(u), UNCHANGED heap, UNCHANGED role,
           pc'[u] = pc[u], k'[u] = k[u], index'[u] = index[u], found'[u] = found[u],
           i'[u] = i[u], visited'[u] = visited[u]
    PROVE  Local(u)'
<1>1. table' = table /\ key_of' = key_of /\ primeindex' = primeindex /\ role' = role
  BY DEF heap
<1>2. tablelength' = tablelength /\ Live' = Live
  BY <1>1 DEF tablelength, Live
<1>3. Inserts(u)'
  BY <1>1, <1>2 DEF Local, Inserts
<1>4. Searched(u)'
  BY <1>1, <1>2 DEF Local, Searched, Present
<1>5. Iterates(u)'
  BY <1>1 DEF Local, Iterates
<1> QED
  BY <1>3, <1>4, <1>5 DEF Local

\* While the table changes, nobody else looks at it, and who is about to
\* insert into it has the right bucket.
LEMMA BusyOthers ==
    ASSUME NEW u, Local(u), UNCHANGED role, pc[u] \notin Reading \cup Writing,
           pc[u] \in Inserting => UNCHANGED primeindex,
           pc'[u] \notin Reading \cup Writing, pc'[u] \in Inserting => pc'[u] = pc[u],
           k'[u] = k[u], index'[u] = index[u],
           i'[u] = i[u], visited'[u] = visited[u]
    PROVE  Local(u)'
<1>1. role' = role /\ (pc[u] \in Inserting => tablelength' = tablelength)
  BY DEF tablelength
<1>2. Inserts(u)'
  BY <1>1 DEF Local, Inserts
<1>3. Searched(u)'
  BY DEF Searched, Reading
<1>4. Iterates(u)'
  BY DEF Local, Iterates, Reading, Writing
<1> QED
  BY <1>2, <1>3, <1>4 DEF Local

-----------------------------------------------------------------------------
(* Removing and inserting                                                  *)

\* The first place of a key in a chain.
LEMMA FirstIs ==
    ASSUME NEW chain \in Seq(Entries), NEW key, At(chain, key) # {}
    PROVE  /\ FirstAt(chain, key) \in DOMAIN chain /\ key_of[chain[FirstAt(chain, key)]] = key
           /\ \A m \in At(chain, key) : FirstAt(chain, key) <= m
<1>1. At(chain, key) \subseteq Nat
  BY DEF At
<1>2. \E n \in At(chain, key) : \A m \in At(chain, key) : n <= m
  BY <1>1, Least
<1>3. FirstAt(chain, key) \in At(chain, key) /\ \A m \in At(chain, key) : FirstAt(chain, key) <= m
  BY <1>2 DEF FirstAt
<1> QED
  BY <1>3 DEF At

\* _ks_hash_remove leaves a sound table, and frees nothing that was in use
\* but an entry with the key.
LEMMA RemoveSound ==
    ASSUME NEW L \in Nat \ {0}, Sound(table, key_of, entrycount, L), NEW key, NEW b \in 0 .. L - 1,
           NEW h, h = _ks_hash_remove(Heap, key, b)
    PROVE  /\ Sound(h.tab, h.keys, h.count, L)
           /\ \A e \in Entries : key_of[e] = NoKey => h.keys[e] = NoKey
<1>1. table \in Tables(L) /\ key_of \in [Entries -> Keys \cup {NoKey}]
  BY DEF Sound
<1>2. table[b] \in Seq(Entries) /\ DOMAIN table = 0 .. L - 1
  BY <1>1 DEF Tables
<1>3. CASE At(table[b], key) = {}
  <2>1. h.tab = table /\ h.keys = key_of /\ h.count = entrycount
    BY <1>3 DEF _ks_hash_remove, Heap
  <2> QED
    BY <2>1
<1>4. CASE At(table[b], key) # {}
  <2>1. PICK n : n = FirstAt(table[b], key)
    OBVIOUS
  <2>2. n \in DOMAIN table[b]
    BY <1>2, <1>4, <2>1, FirstIs
  <2>3. h = [tab |-> Rechained(table, b, Cut(table[b], n)), count |-> entrycount - 1,
             keys |-> [key_of EXCEPT ![table[b][n]] = NoKey]]
    BY <1>4, <2>1 DEF _ks_hash_remove, Heap, Rechained, Cut
  <2>4. Sound(Rechained(table, b, Cut(table[b], n)), [key_of EXCEPT ![table[b][n]] = NoKey], entrycount - 1, L)
    BY <2>2, SoundDrop
  <2>5. h.tab = Rechained(table, b, Cut(table[b], n)) /\ h.count = entrycount - 1
        /\ h.keys = [key_of EXCEPT ![table[b][n]] = NoKey]
    BY <2>3
  <2>6. \A e \in Entries : key_of[e] = NoKey => h.keys[e] = NoKey
    BY <1>1, <2>5
  <2> QED
    BY <2>4, <2>5, <2>6
<1> QED
  BY <1>3, <1>4

\* While not every entry is in use there is one to be had.
LEMMA FreeEntry ==
    ASSUME Cardinality(Live) < MaxEntries
    PROVE  \E e \in Entries : key_of[e] = NoKey
<1>1. Live # Entries
  BY EntriesFinite, EntriesBounded
<1> QED
  BY <1>1 DEF Live

\* The second half of ks_hash_insert_ex leaves a sound table, of the same size
\* or of the next.
LEMMA InsertSound ==
    ASSUME HashTypes, NEW t \in Threads, k[t] \in Keys, index[t] = Bucket(tablelength, k[t]),
           NEW h, Sound(h.tab, h.keys, h.count, tablelength),
           \E e \in Entries : h.keys[e] = NoKey, Insert(t, h)
    PROVE  TableOK' /\ primeindex' \in 1 .. Len(primes)
<1> DEFINE big == h.count + 1 > loadlimit(tablelength)
           grow == big /\ primeindex < Len(primes)
           size == IF grow THEN primes[primeindex + 1] ELSE tablelength
           tab == IF grow THEN ks_hash_expand(h, size) ELSE h.tab
           b == IF big THEN Bucket(size, k[t]) ELSE index[t]
           e == CHOOSE x \in Entries : h.keys[x] = NoKey
<1>1. /\ primeindex' = IF grow THEN primeindex + 1 ELSE primeindex
      /\ table' = [tab EXCEPT ![b] = <<e>> \o @] /\ entrycount' = h.count + 1
      /\ key_of' = [h.keys EXCEPT ![e] = k[t]]
  BY DEF Insert, Become
<1>2. e \in Entries /\ h.keys[e] = NoKey
  OBVIOUS
<1> HIDE DEF e, big
<1>3. Len(primes) \in Nat /\ primeindex \in 1 .. Len(primes)
  BY PrimesGrow DEF HashTypes
<1>4. primeindex' \in 1 .. Len(primes) /\ tablelength' = size
  BY <1>1, <1>3 DEF tablelength
<1>5. size \in Nat \ {0} /\ tablelength \in Nat \ {0}
  <2>1. tablelength \in Nat \ {0}
    BY TableLength
  <2>2. grow => primeindex + 1 \in 1 .. Len(primes)
    BY <1>3
  <2>3. grow => primes[primeindex + 1] \in Nat \ {0}
    BY <2>2, SizeIs
  <2> QED
    BY <2>1, <2>3
<1>6. b = Bucket(size, k[t])
  OBVIOUS
<1>7. Sound(tab, h.keys, h.count, size)
  <2>1. CASE grow
    <3> HIDE DEF size
    <3>1. tab = ks_hash_expand(h, size)
      BY <2>1
    <3> QED
      BY <1>5, <3>1, SoundExpand
  <2>2. CASE ~grow
    BY <2>2
  <2> QED
    BY <2>1, <2>2
<1> HIDE DEF size, tab, b, grow
<1>8. Sound(Pushed(tab, b, e), [h.keys EXCEPT ![e] = k[t]], h.count + 1, size)
  BY <1>2, <1>5, <1>6, <1>7, SoundPush
<1>9. Sound(table', key_of', entrycount', tablelength')
  BY <1>1, <1>4, <1>8 DEF Pushed
<1> QED
  BY <1>4, <1>9 DEF TableOK

-----------------------------------------------------------------------------
(* Searching                                                               *)

\* A scan of the bucket of a key finds it when it is in the table.
LEMMA ScanFinds ==
    ASSUME HashTypes, TableOK, NEW key \in Keys
    PROVE  (At(table[Bucket(tablelength, key)], key) # {}) = Present(key)
<1> DEFINE b == Bucket(tablelength, key)
<1>1. /\ table \in Tables(tablelength) /\ Sits(table, key_of, tablelength)
      /\ \A e \in Entries : Holds(table, e) <=> key_of[e] # NoKey
  BY DEF TableOK, Sound
<1>2. b \in DOMAIN table /\ \A c \in DOMAIN table : table[c] \in Seq(Entries)
  BY <1>1, TableLength, BucketIn DEF Tables
<1>3. ASSUME At(table[b], key) # {} PROVE Present(key)
  <2>1. PICK n \in DOMAIN table[b] : key_of[table[b][n]] = key
    BY <1>3 DEF At
  <2>2. table[b][n] \in Entries /\ key # NoKey
    BY <1>2, NoKeyIsNone
  <2> QED
    BY <2>1, <2>2 DEF Present, Live
<1>4. ASSUME Present(key) PROVE At(table[b], key) # {}
  <2>1. PICK e \in Entries : key_of[e] # NoKey /\ key_of[e] = key
    BY <1>4 DEF Present, Live
  <2>2. PICK c \in DOMAIN table : \E n \in DOMAIN table[c] : table[c][n] = e
    BY <1>1, <2>1 DEF Holds
  <2>3. PICK n \in DOMAIN table[c] : table[c][n] = e
    BY <2>2
  <2>4. c = b
    BY <1>1, <2>1, <2>3 DEF Sits
  <2> QED
    BY <2>1, <2>3, <2>4 DEF At
<1> QED
  BY <1>3, <1>4 DEF Present

-----------------------------------------------------------------------------
(* Iterating                                                               *)

\* The first bucket from b on that has an entry.
LEMMA FromIs ==
    ASSUME NEW L \in Nat \ {0}, NEW tab \in Tables(L), NEW b \in Nat
    PROVE  \/ From(tab, b) = NoIterator /\ \A c \in DOMAIN tab : c >= b => tab[c] = <<>>
           \/ \E c \in DOMAIN tab :
                 /\ c >= b /\ tab[c] # <<>> /\ From(tab, b) = [pos |-> c, e |-> tab[c][1]]
                 /\ \A d \in DOMAIN tab : d >= b /\ d < c => tab[d] = <<>>
<1> DEFINE some == {c \in DOMAIN tab : c >= b /\ tab[c] # <<>>}
           c == CHOOSE c \in some : \A d \in some : c <= d
<1>1. From(tab, b) = IF some = {} THEN NoIterator ELSE [pos |-> c, e |-> tab[c][1]]
  BY DEF From
<1>2. DOMAIN tab = 0 .. L - 1
  BY DEF Tables
<1>3. CASE some = {}
  BY <1>1, <1>3
<1>4. CASE some # {}
  <2>1. some \subseteq Nat
    BY <1>2
  <2>2. \E x \in some : \A y \in some : x <= y
    <3> HIDE DEF some
    <3> QED
      BY <1>4, <2>1, Least
  <2>3. c \in some /\ \A d \in some : c <= d
    <3> HIDE DEF some
    <3> QED
      BY <2>2
  <2> HIDE DEF c
  <2>4. c \in DOMAIN tab /\ c >= b /\ tab[c] # <<>>
    BY <2>3
  <2>5. ASSUME NEW d \in DOMAIN tab, d >= b, d < c PROVE tab[d] = <<>>
    BY <1>2, <2>3, <2>4, <2>5
  <2> QED
    BY <1>1, <1>4, <2>4, <2>5
<1> QED
  BY <1>3, <1>4

\* ks_hash_next from a place of the table.
LEMMA NextIs ==
    ASSUME NEW L \in Nat \ {0}, table \in Tables(L), Once(table),
           NEW b \in DOMAIN table, NEW n \in DOMAIN table[b],
           NEW it, it = [pos |-> b, e |-> table[b][n]]
    PROVE  ks_hash_next(it) = IF n < Len(table[b]) THEN [pos |-> b, e |-> table[b][n + 1]]
                              ELSE From(table, b + 1)
<1>1. it.pos = b /\ it.e = table[b][n]
  OBVIOUS
<1>2. PICK m : m = CHOOSE o \in DOMAIN table[b] : table[b][o] = table[b][n]
  OBVIOUS
<1>3. m \in DOMAIN table[b] /\ table[b][m] = table[b][n]
  BY <1>2
<1>4. m = n
  BY <1>3, OnePlace
<1>5. ks_hash_next(it) = IF m < Len(table[b]) THEN [pos |-> b, e |-> table[b][m + 1]]
                         ELSE From(table, b + 1)
  BY <1>1, <1>2 DEF ks_hash_next
<1> QED
  BY <1>4, <1>5

\* What lies before the next place is what lay before and is at the last.
LEMMA BeforeStep ==
    ASSUME NEW L \in Nat \ {0}, NEW tab \in Tables(L), NEW b \in DOMAIN tab, NEW n \in DOMAIN tab[b],
           n < Len(tab[b])
    PROVE  /\ n + 1 \in DOMAIN tab[b] /\ tab[b][n + 1] \in Entries
           /\ Before(tab, b, n + 1) = Before(tab, b, n) \cup {tab[b][n + 1]}
<1>1. DOMAIN tab = 0 .. L - 1 /\ \A c \in DOMAIN tab : DOMAIN tab[c] = 1 .. Len(tab[c]) /\ Len(tab[c]) \in Nat
  BY DEF Tables
<1>2. n + 1 \in DOMAIN tab[b] /\ n \in Nat
  BY <1>1
<1>3. tab[b][n + 1] \in Entries
  BY <1>2 DEF Tables
<1>4. \A c \in DOMAIN tab : \A m \in DOMAIN tab[c] :
         (c < b \/ (c = b /\ m <= n + 1)) <=> (c < b \/ (c = b /\ m <= n) \/ (c = b /\ m = n + 1))
  BY <1>1, <1>2
<1>5. Before(tab, b, n + 1) = Before(tab, b, n) \cup {tab[b][n + 1]}
  BY <1>2, <1>3, <1>4 DEF Before
<1> QED
  BY <1>2, <1>3, <1>5

\* At the end of a chain the next place is the first of the next bucket that
\* has any.
LEMMA BeforeJump ==
    ASSUME NEW L \in Nat \ {0}, NEW tab \in Tables(L), NEW b \in DOMAIN tab,
           NEW n \in DOMAIN tab[b], ~(n < Len(tab[b])),
           NEW c \in DOMAIN tab, c >= b + 1, tab[c] # <<>>,
           \A d \in DOMAIN tab : d >= b + 1 /\ d < c => tab[d] = <<>>
    PROVE  /\ 1 \in DOMAIN tab[c] /\ tab[c][1] \in Entries
           /\ Before(tab, c, 1) = Before(tab, b, n) \cup {tab[c][1]}
<1>1. DOMAIN tab = 0 .. L - 1 /\ \A d \in DOMAIN tab : DOMAIN tab[d] = 1 .. Len(tab[d]) /\ Len(tab[d]) \in Nat
  BY DEF Tables
<1>2. tab[c] \in Seq(Entries)
  BY DEF Tables
<1>3. 1 \in DOMAIN tab[c] /\ tab[c][1] \in Entries
  BY <1>2, TailIs
<1>4. ASSUME NEW d \in DOMAIN tab, NEW m \in DOMAIN tab[d]
      PROVE  (d < c \/ (d = c /\ m <= 1)) <=> (d < b \/ (d = b /\ m <= n) \/ (d = c /\ m = 1))
  <2>1. d = b => m <= n
    BY <1>1
  <2>2. ~(d >= b + 1 /\ d < c)
    BY <1>1
  <2> QED
    BY <1>1, <2>1, <2>2
<1>5. Before(tab, c, 1) = Before(tab, b, n) \cup {tab[c][1]}
  BY <1>3, <1>4 DEF Before
<1> QED
  BY <1>3, <1>5

\* Nothing lies before the first place of the table.
LEMMA BeforeFirst ==
    ASSUME NEW L \in Nat \ {0}, NEW tab \in Tables(L), NEW c \in DOMAIN tab, tab[c] # <<>>,
           \A d \in DOMAIN tab : d < c => tab[d] = <<>>
    PROVE  /\ 1 \in DOMAIN tab[c] /\ tab[c][1] \in Entries
           /\ Before(tab, c, 1) = {tab[c][1]}
<1>1. DOMAIN tab = 0 .. L - 1 /\ \A d \in DOMAIN tab : DOMAIN tab[d] = 1 .. Len(tab[d]) /\ Len(tab[d]) \in Nat
  BY DEF Tables
<1>2. tab[c] \in Seq(Entries)
  BY DEF Tables
<1>3. 1 \in DOMAIN tab[c] /\ tab[c][1] \in Entries
  BY <1>2, TailIs
<1>4. ASSUME NEW d \in DOMAIN tab, NEW m \in DOMAIN tab[d]
      PROVE  (d < c \/ (d = c /\ m <= 1)) <=> (d = c /\ m = 1)
  BY <1>1
<1>5. Before(tab, c, 1) = {tab[c][1]}
  BY <1>3, <1>4 DEF Before
<1> QED
  BY <1>3, <1>5

\* At the end of the last chain there is nothing left to come.
LEMMA BeforeEnd ==
    ASSUME NEW L \in Nat \ {0}, NEW tab \in Tables(L), NEW b \in DOMAIN tab,
           NEW n \in DOMAIN tab[b], ~(n < Len(tab[b])),
           \A d \in DOMAIN tab : d >= b + 1 => tab[d] = <<>>
    PROVE  Before(tab, b, n) = {e \in Entries : Holds(tab, e)}
<1>1. DOMAIN tab = 0 .. L - 1 /\ \A d \in DOMAIN tab : DOMAIN tab[d] = 1 .. Len(tab[d]) /\ Len(tab[d]) \in Nat
  BY DEF Tables
<1>2. ASSUME NEW d \in DOMAIN tab, NEW m \in DOMAIN tab[d]
      PROVE  d < b \/ (d = b /\ m <= n)
  <2>1. d = b => m <= n
    BY <1>1
  <2>2. ~(d >= b + 1)
    BY <1>1
  <2> QED
    BY <1>1, <2>1, <2>2
<1> QED
  BY <1>2 DEF Before, Holds

-----------------------------------------------------------------------------
(* The steps                                                               *)

\* A thread that is in no call.
LEMMA IdleIs ==
    ASSUME HashIInv, NEW t \in Threads, pc[t] = "idle"
    PROVE  i[t] = NoIterator /\ visited[t] = {} /\ pc[t] \notin Reading \cup Writing \cup Inserting
BY DEF HashIInv, Local, Iterates, Reading, Writing, Inserting

\* The table stays sound while nothing of it changes.
LEMMA TableSame ==
    ASSUME TableOK, UNCHANGED heap
    PROVE  TableOK'
<1>1. table' = table /\ key_of' = key_of /\ entrycount' = entrycount /\ primeindex' = primeindex
  BY DEF heap
<1>2. tablelength' = tablelength
  BY <1>1 DEF tablelength
<1> QED
  BY <1>1, <1>2 DEF TableOK

\* A new table.
LEMMA InitIInv == Init => HashIInv
<1> SUFFICES ASSUME Init PROVE HashIInv
  OBVIOUS
<1>1. HashTypes
  <2>1. NoIterator \in [pos : Nat, e : Entries \cup {NoEntry}]
    BY DEF NoIterator
  <2>2. 1 \in 1 .. Len(primes)
    BY PrimesGrow
  <2> QED
    BY <2>1, <2>2 DEF Init, LockInit, HashTypes, Locations
<1>2. TableOK
  <2>1. tablelength \in Nat \ {0} /\ tablelength = primes[1]
    BY <1>1, TableLength DEF Init, tablelength
  <2>2. table = [b \in 0 .. tablelength - 1 |-> <<>>] /\ key_of = [e \in Entries |-> NoKey] /\ entrycount = 0
    BY <2>1 DEF Init
  <2>3. table \in Tables(tablelength) /\ \A b \in DOMAIN table : DOMAIN table[b] = {}
    BY <2>2 DEF Tables
  <2>4. Used(key_of) = {}
    BY <2>2 DEF Used
  <2>5. Once(table) /\ Sits(table, key_of, tablelength) /\ \A e : ~Holds(table, e)
    BY <2>3 DEF Once, Sits, Holds
  <2>6. entrycount = Cardinality(Used(key_of))
    BY <2>2, <2>4, FS_EmptySet
  <2>7. key_of \in [Entries -> Keys \cup {NoKey}] /\ \A e \in Entries : key_of[e] = NoKey
    BY <2>2
  <2> QED
    BY <2>3, <2>5, <2>6, <2>7 DEF TableOK, Sound
<1>3. pc = [t \in Threads |-> "idle"] /\ "idle" \notin Reading \cup Writing \cup Inserting
  BY DEF Init, Reading, Writing, Inserting
<1>4. Locks
  BY <1>3 DEF Init, LockInit, Locks
<1>5. Counted
  <2>1. Readers = {}
    BY <1>3 DEF Readers
  <2> QED
    BY <2>1, FS_EmptySet DEF Counted, Init
<1>6. ASSUME NEW t \in Threads PROVE Local(t)
  BY <1>3 DEF Local, Inserts, Searched, Iterates, Init
<1> QED
  BY <1>1, <1>2, <1>4, <1>5, <1>6 DEF HashIInv

\* ks_hash_insert_ex computes the index.
LEMMA InsertIndexIInv ==
    ASSUME HashIInv, NEW t \in Threads, NEW op \in {"insert", "insert_dup_check"}, NEW key \in Keys,
           InsertIndex(t, op, key)
    PROVE  HashIInv'
<1>1. HashTypes /\ TableOK /\ Locks /\ Counted /\ \A u \in Threads : Local(u)
  BY DEF HashIInv
<1>2. pc[t] = "idle" /\ op \in role[t] /\ i[t] = NoIterator /\ visited[t] = {}
  BY IdleIs DEF InsertIndex, Calls
<1>3. op \in Locations /\ op \notin Reading \cup Writing /\ pc[t] \notin Reading \cup Writing
  BY <1>2 DEF Locations, Reading, Writing
<1>4. /\ GoTo(t, op) /\ UNCHANGED <<lock, heap, readers, found, iter, role>>
      /\ k' = [k EXCEPT ![t] = key] /\ index' = [index EXCEPT ![t] = Bucket(tablelength, key)]
  BY DEF InsertIndex
<1>5. UNCHANGED lock /\ UNCHANGED heap /\ UNCHANGED readers /\ UNCHANGED role
  BY <1>4
<1>6. /\ primeindex' = primeindex /\ found' = found /\ i' = i /\ visited' = visited /\ role' = role
      /\ depth' = depth /\ reads' = reads
  BY <1>4 DEF heap, lock, iter
<1>7. Bucket(tablelength, key) \in Nat
  BY <1>1, TableLength, BucketIn
<1>8. HashTypes'
  BY <1>1, <1>3, <1>4, <1>6, <1>7 DEF HashTypes, GoTo
<1>9. TableOK'
  BY <1>1, <1>5, TableSame
<1>10. Locks' /\ Counted'
  BY <1>1, <1>3, <1>4, <1>5, LockSame
<1>11. ASSUME NEW u \in Threads PROVE Local(u)'
  <2>1. CASE u # t
    <3>1. pc'[u] = pc[u] /\ k'[u] = k[u] /\ index'[u] = index[u] /\ found'[u] = found[u]
          /\ i'[u] = i[u] /\ visited'[u] = visited[u]
      BY <1>1, <1>4, <1>6, <2>1 DEF HashTypes, GoTo
    <3> QED
      BY <1>1, <1>5, <3>1, QuietOthers
  <2>2. CASE u = t
    <3>1. pc'[u] = op /\ k'[u] = key /\ index'[u] = Bucket(tablelength, key) /\ i'[u] = NoIterator
          /\ visited'[u] = {} /\ role'[u] = role[t]
      BY <1>1, <1>2, <1>4, <1>6, <2>2 DEF HashTypes, GoTo
    <3>2. tablelength' = tablelength
      BY <1>6 DEF tablelength
    <3>3. Inserts(u)'
      BY <1>2, <3>1, <3>2 DEF Inserts
    <3>4. Searched(u)' /\ Iterates(u)'
      BY <3>1 DEF Searched, Iterates
    <3> QED
      BY <3>3, <3>4 DEF Local
  <2> QED
    BY <2>1, <2>2
<1> QED
  BY <1>8, <1>9, <1>10, <1>11 DEF HashIInv

\* ks_hash_write_lock around ks_hash_insert_ex.
LEMMA InsertLockedIInv ==
    ASSUME HashIInv, NEW t \in Threads, NEW key \in Keys, InsertLocked(t, key)
    PROVE  HashIInv'
<1>1. HashTypes /\ TableOK /\ Locks /\ Counted /\ \A u \in Threads : Local(u)
  BY DEF HashIInv
<1>2. pc[t] = "idle" /\ "lock_insert" \in role[t] /\ i[t] = NoIterator /\ visited[t] = {}
  BY IdleIs DEF InsertLocked, Calls
<1>3. "lock_insert" \in Locations /\ "lock_insert" \in Writing /\ pc[t] \notin Reading \cup Writing
  BY <1>2 DEF Locations, Reading, Writing
<1>4. /\ GoTo(t, "lock_insert") /\ GrantWrite(t) /\ UNCHANGED <<heap, readers, found, iter, role>>
      /\ k' = [k EXCEPT ![t] = key] /\ index' = [index EXCEPT ![t] = Bucket(tablelength, key)]
  BY DEF InsertLocked
<1>5. UNCHANGED heap /\ UNCHANGED readers /\ UNCHANGED role
  BY <1>4
<1>6. /\ primeindex' = primeindex /\ found' = found /\ i' = i /\ visited' = visited /\ role' = role
      /\ depth' = [depth EXCEPT ![t] = @ + 1] /\ reads' = reads
  BY <1>4 DEF heap, iter, GrantWrite
<1>7. Bucket(tablelength, key) \in Nat
  BY <1>1, TableLength, BucketIn
<1>8. HashTypes'
  BY <1>1, <1>3, <1>4, <1>6, <1>7 DEF HashTypes, GoTo
<1>9. TableOK'
  BY <1>1, <1>5, TableSame
<1>10. Locks' /\ Counted'
  BY <1>1, <1>3, <1>4, <1>5, LockWrite
<1>11. ASSUME NEW u \in Threads PROVE Local(u)'
  <2>1. CASE u # t
    <3>1. pc'[u] = pc[u] /\ k'[u] = k[u] /\ index'[u] = index[u] /\ found'[u] = found[u]
          /\ i'[u] = i[u] /\ visited'[u] = visited[u]
      BY <1>1, <1>4, <1>6, <2>1 DEF HashTypes, GoTo
    <3> QED
      BY <1>1, <1>5, <3>1, QuietOthers
  <2>2. CASE u = t
    <3>1. pc'[u] = "lock_insert" /\ k'[u] = key /\ index'[u] = Bucket(tablelength, key)
          /\ i'[u] = NoIterator /\ visited'[u] = {} /\ role'[u] = role[t]
      BY <1>1, <1>2, <1>4, <1>6, <2>2 DEF HashTypes, GoTo
    <3>2. tablelength' = tablelength
      BY <1>6 DEF tablelength
    <3>3. Inserts(u)'
      BY <1>2, <3>1, <3>2 DEF Inserts
    <3>4. Searched(u)' /\ Iterates(u)'
      BY <3>1 DEF Searched, Iterates
    <3> QED
      BY <3>3, <3>4 DEF Local
  <2> QED
    BY <2>1, <2>2
<1> QED
  BY <1>8, <1>9, <1>10, <1>11 DEF HashIInv

\* ks_hash_insert_ex under the lock: by whom it is the only one to insert, or
\* has the write lock around it.
LEMMA InsertDoIInv ==
    ASSUME HashIInv, \A r \in Roles : SoleInserter(r), NEW t \in Threads, InsertDo(t)
    PROVE  HashIInv'
<1>1. HashTypes /\ TableOK /\ Locks /\ Counted /\ \A u \in Threads : Local(u)
  BY DEF HashIInv
<1>2. pc[t] \in Inserting /\ MayWrite(t) /\ Cardinality(Live) < MaxEntries
  BY DEF InsertDo, Inserting
<1>3. /\ k[t] \in Keys /\ index[t] = Bucket(tablelength, k[t]) /\ pc[t] \in role[t]
      /\ i[t] = NoIterator /\ visited[t] = {}
  BY <1>1, <1>2 DEF Local, Inserts, Iterates, Inserting
<1>4. PICK w : w = IF pc[t] = "lock_insert" THEN "locked" ELSE "idle"
  OBVIOUS
<1>5. /\ w \in Locations /\ w \notin Inserting /\ (w \in Reading <=> pc[t] \in Reading)
      /\ (w \in Writing <=> pc[t] \in Writing) /\ w \notin Reading
      /\ w \notin {"iterate", "drain", "last", "searched_locked"}
  BY <1>2, <1>4 DEF Locations, Inserting, Reading, Writing
<1>6. GoTo(t, w) /\ Forget(t) /\ UNCHANGED <<lock, readers, iter, role>>
  BY <1>4 DEF InsertDo
<1>7. UNCHANGED lock /\ UNCHANGED readers /\ UNCHANGED role
  BY <1>6
<1>8. PICK h : /\ h = IF pc[t] = "insert_dup_check" THEN _ks_hash_remove(Heap, k[t], index[t]) ELSE Heap
               /\ Insert(t, h)
  BY DEF InsertDo
<1>9. Sound(h.tab, h.keys, h.count, tablelength) /\ \A e \in Entries : key_of[e] = NoKey => h.keys[e] = NoKey
  <2>1. tablelength \in Nat \ {0} /\ index[t] \in 0 .. tablelength - 1
    BY <1>1, <1>3, TableLength, BucketIn
  <2>2. Sound(table, key_of, entrycount, tablelength)
    BY <1>1 DEF TableOK
  <2>3. CASE pc[t] = "insert_dup_check"
    <3>1. h = _ks_hash_remove(Heap, k[t], index[t])
      BY <1>8, <2>3
    <3> QED
      BY <2>1, <2>2, <3>1, RemoveSound
  <2>4. CASE pc[t] # "insert_dup_check"
    <3>1. h.tab = table /\ h.keys = key_of /\ h.count = entrycount
      BY <1>8, <2>4 DEF Heap
    <3> QED
      BY <2>2, <3>1
  <2> QED
    BY <2>3, <2>4
<1>10. \E e \in Entries : h.keys[e] = NoKey
  BY <1>2, <1>9, FreeEntry
<1>11. TableOK' /\ primeindex' \in 1 .. Len(primes)
  BY <1>1, <1>3, <1>8, <1>9, <1>10, InsertSound
<1>12. /\ k' = [k EXCEPT ![t] = NoKey] /\ index' = [index EXCEPT ![t] = 0]
       /\ found' = [found EXCEPT ![t] = FALSE]
       /\ i' = i /\ visited' = visited /\ role' = role /\ depth' = depth /\ reads' = reads
  BY <1>6 DEF Forget, iter, lock
<1>13. HashTypes'
  BY <1>1, <1>5, <1>6, <1>11, <1>12 DEF HashTypes, GoTo
<1>14. Locks' /\ Counted'
  BY <1>1, <1>5, <1>6, <1>7, LockSame
<1>15. ASSUME NEW u \in Threads PROVE Local(u)'
  <2>1. CASE u # t
    <3>1. pc'[u] = pc[u] /\ k'[u] = k[u] /\ index'[u] = index[u] /\ i'[u] = i[u] /\ visited'[u] = visited[u]
      BY <1>1, <1>6, <1>12, <2>1 DEF HashTypes, GoTo
    <3>2. pc[u] \notin Reading \cup Writing
      BY <1>1, <1>2, <2>1, WriterAlone
    <3>3. pc[u] \notin Inserting
      <4> SUFFICES ASSUME pc[u] \in Inserting PROVE FALSE
        OBVIOUS
      <4>1. pc[u] \in role[u] /\ SoleInserter(role)
        BY <1>1 DEF Local, Inserts, HashTypes
      <4>2. pc[u] \in {"insert", "insert_dup_check"}
        BY <3>2 DEF Inserting, Writing
      <4>3. role[u] \cap {"insert", "insert_dup_check"} # {}
        BY <4>1, <4>2
      <4>4. role[t] \cap Inserting = {}
        BY <2>1, <4>1, <4>3 DEF SoleInserter
      <4> QED
        BY <1>2, <1>3, <4>4
    <3> QED
      BY <1>1, <1>7, <3>1, <3>2, <3>3, BusyOthers
  <2>2. CASE u = t
    <3>1. pc'[u] = w /\ i'[u] = NoIterator /\ visited'[u] = {}
      BY <1>1, <1>3, <1>6, <1>12, <2>2 DEF HashTypes, GoTo
    <3>2. Inserts(u)' /\ Searched(u)' /\ Iterates(u)'
      BY <1>5, <3>1 DEF Inserts, Searched, Iterates
    <3> QED
      BY <3>2 DEF Local
  <2> QED
    BY <2>1, <2>2
<1> QED
  BY <1>11, <1>13, <1>14, <1>15 DEF HashIInv

\* ks_hash_write_unlock keeps the invariant.
LEMMA WriteUnlockIInv ==
    ASSUME HashIInv, NEW t \in Threads, WriteUnlock(t)
    PROVE  HashIInv'
<1>1. HashTypes /\ TableOK /\ Locks /\ Counted /\ \A u \in Threads : Local(u)
  BY DEF HashIInv
<1>2. pc[t] = "locked" /\ pc[t] \in Writing /\ i[t] = NoIterator /\ visited[t] = {} /\ "idle" \in Locations
  BY <1>1 DEF WriteUnlock, Writing, Local, Iterates, Locations
<1>3. GoTo(t, "idle") /\ GiveBackWrite(t) /\ UNCHANGED <<heap, readers, mine, iter, role>>
  BY DEF WriteUnlock
<1>4. UNCHANGED heap /\ UNCHANGED readers /\ UNCHANGED role
  BY <1>3
<1>5. /\ k' = k /\ index' = index /\ found' = found /\ i' = i /\ visited' = visited /\ role' = role
      /\ primeindex' = primeindex /\ reads' = reads /\ depth' = [depth EXCEPT ![t] = @ - 1]
      /\ depth[t] > 0
  BY <1>3 DEF mine, iter, heap, GiveBackWrite
<1>6. HashTypes'
  <2>1. depth' \in [Threads -> Nat]
    BY <1>1, <1>5 DEF HashTypes
  <2> QED
    BY <1>1, <1>2, <1>3, <1>5, <2>1 DEF HashTypes, GoTo
<1>7. TableOK'
  BY <1>1, <1>4, TableSame
<1>8. Locks' /\ Counted'
  BY <1>1, <1>2, <1>3, <1>4, UnlockWrite
<1>9. ASSUME NEW u \in Threads PROVE Local(u)'
  <2>1. CASE u # t
    <3>1. pc'[u] = pc[u] /\ k'[u] = k[u] /\ index'[u] = index[u] /\ found'[u] = found[u]
          /\ i'[u] = i[u] /\ visited'[u] = visited[u]
      BY <1>1, <1>3, <1>5, <2>1 DEF HashTypes, GoTo
    <3> QED
      BY <1>1, <1>4, <3>1, QuietOthers
  <2>2. CASE u = t
    <3>1. pc'[u] = "idle" /\ i'[u] = NoIterator /\ visited'[u] = {}
      BY <1>1, <1>2, <1>3, <1>5, <2>2 DEF HashTypes, GoTo
    <3> QED
      BY <3>1 DEF Local, Inserts, Searched, Iterates, Inserting
  <2> QED
    BY <2>1, <2>2
<1> QED
  BY <1>6, <1>7, <1>8, <1>9 DEF HashIInv

\* ks_hash_remove keeps the invariant.
LEMMA RemoveEntryIInv ==
    ASSUME HashIInv, NEW t \in Threads, NEW key \in Keys, RemoveEntry(t, key)
    PROVE  HashIInv'
<1>1. HashTypes /\ TableOK /\ Locks /\ Counted /\ \A u \in Threads : Local(u)
  BY DEF HashIInv
<1>2. pc[t] = "idle" /\ MayWrite(t) /\ pc[t] \notin Reading \cup Writing
  BY IdleIs DEF RemoveEntry, Calls
<1>3. /\ depth' = depth /\ reads' = reads /\ primeindex' = primeindex /\ readers' = readers /\ pc' = pc
      /\ k' = k /\ index' = index /\ found' = found /\ i' = i /\ visited' = visited /\ role' = role
  BY DEF RemoveEntry, lock, mine, iter
<1>4. PICK h : h = _ks_hash_remove(Heap, key, Bucket(tablelength, key)) /\ Become(h)
  BY DEF RemoveEntry
<1>5. TableOK'
  <2>1. tablelength \in Nat \ {0} /\ Bucket(tablelength, key) \in 0 .. tablelength - 1
    BY <1>1, TableLength, BucketIn
  <2>2. Sound(table, key_of, entrycount, tablelength)
    BY <1>1 DEF TableOK
  <2>3. Sound(h.tab, h.keys, h.count, tablelength)
    BY <1>4, <2>1, <2>2, RemoveSound
  <2>4. tablelength' = tablelength
    BY <1>3 DEF tablelength
  <2> QED
    BY <1>4, <2>3, <2>4 DEF TableOK, Become
<1>6. HashTypes'
  BY <1>1, <1>3 DEF HashTypes
<1>7. Locks' /\ Counted'
  BY <1>1, <1>3 DEF Locks, Counted, Readers
<1>8. ASSUME NEW u \in Threads PROVE Local(u)'
  <2>1. pc[u] \notin Reading \cup Writing
    BY <1>1, <1>2, WriterAlone
  <2> QED
    BY <1>1, <1>3, <2>1, BusyOthers
<1> QED
  BY <1>5, <1>6, <1>7, <1>8 DEF HashIInv

\* ks_hash_search computes the index.
LEMMA SearchIndexIInv ==
    ASSUME HashIInv, NEW t \in Threads, NEW key \in Keys, SearchIndex(t, key)
    PROVE  HashIInv'
<1>1. HashTypes /\ TableOK /\ Locks /\ Counted /\ \A u \in Threads : Local(u)
  BY DEF HashIInv
<1>2. pc[t] = "idle" /\ i[t] = NoIterator /\ visited[t] = {}
  BY IdleIs DEF SearchIndex, Calls
<1>3. "search" \in Locations /\ "search" \notin Reading \cup Writing /\ pc[t] \notin Reading \cup Writing
  BY <1>2 DEF Locations, Reading, Writing
<1>4. /\ GoTo(t, "search") /\ UNCHANGED <<lock, heap, readers, found, iter, role>>
      /\ k' = [k EXCEPT ![t] = key] /\ index' = [index EXCEPT ![t] = Bucket(tablelength, key)]
  BY DEF SearchIndex
<1>5. UNCHANGED lock /\ UNCHANGED heap /\ UNCHANGED readers /\ UNCHANGED role
  BY <1>4
<1>6. /\ primeindex' = primeindex /\ found' = found /\ i' = i /\ visited' = visited /\ role' = role
      /\ depth' = depth /\ reads' = reads
  BY <1>4 DEF heap, lock, iter
<1>7. Bucket(tablelength, key) \in Nat
  BY <1>1, TableLength, BucketIn
<1>8. HashTypes'
  BY <1>1, <1>3, <1>4, <1>6, <1>7 DEF HashTypes, GoTo
<1>9. TableOK'
  BY <1>1, <1>5, TableSame
<1>10. Locks' /\ Counted'
  BY <1>1, <1>3, <1>4, <1>5, LockSame
<1>11. ASSUME NEW u \in Threads PROVE Local(u)'
  <2>1. CASE u # t
    <3>1. pc'[u] = pc[u] /\ k'[u] = k[u] /\ index'[u] = index[u] /\ found'[u] = found[u]
          /\ i'[u] = i[u] /\ visited'[u] = visited[u]
      BY <1>1, <1>4, <1>6, <2>1 DEF HashTypes, GoTo
    <3> QED
      BY <1>1, <1>5, <3>1, QuietOthers
  <2>2. CASE u = t
    <3>1. pc'[u] = "search" /\ i'[u] = NoIterator /\ visited'[u] = {}
      BY <1>1, <1>2, <1>4, <1>6, <2>2 DEF HashTypes, GoTo
    <3> QED
      BY <3>1 DEF Local, Inserts, Searched, Iterates, Inserting
  <2> QED
    BY <2>1, <2>2
<1> QED
  BY <1>8, <1>9, <1>10, <1>11 DEF HashIInv

\* ks_hash_search takes the lock and scans the bucket.
LEMMA SearchScanIInv ==
    ASSUME HashIInv, NEW t \in Threads, SearchScan(t)
    PROVE  HashIInv'
<1>1. HashTypes /\ TableOK /\ Locks /\ Counted /\ \A u \in Threads : Local(u)
  BY DEF HashIInv
<1>2. pc[t] = "search" /\ i[t] = NoIterator /\ visited[t] = {}
  BY <1>1 DEF SearchScan, Local, Iterates
<1>3. "searched" \in Locations /\ "searched" \in Reading /\ pc[t] \notin Reading \cup Writing
  BY <1>2 DEF Locations, Reading, Writing
<1>4. /\ GoTo(t, "searched") /\ GrantRead(t) /\ readers' = readers + 1
      /\ UNCHANGED <<heap, k, index, iter, role>>
      /\ \E x \in BOOLEAN : found' = [found EXCEPT ![t] = x]
  BY DEF SearchScan
<1>5. UNCHANGED heap /\ UNCHANGED role
  BY <1>4
<1>6. /\ primeindex' = primeindex /\ k' = k /\ index' = index /\ i' = i /\ visited' = visited
      /\ role' = role /\ depth' = depth /\ reads' = [reads EXCEPT ![t] = @ + 1]
  BY <1>4 DEF heap, iter, GrantRead
<1>7. HashTypes'
  BY <1>1, <1>3, <1>4, <1>6 DEF HashTypes, GoTo
<1>8. TableOK'
  BY <1>1, <1>5, TableSame
<1>9. Locks' /\ Counted'
  BY <1>1, <1>3, <1>4, LockRead
<1>10. ASSUME NEW u \in Threads PROVE Local(u)'
  <2>1. CASE u # t
    <3>1. pc'[u] = pc[u] /\ k'[u] = k[u] /\ index'[u] = index[u] /\ found'[u] = found[u]
          /\ i'[u] = i[u] /\ visited'[u] = visited[u]
      BY <1>1, <1>4, <1>6, <2>1 DEF HashTypes, GoTo
    <3> QED
      BY <1>1, <1>5, <3>1, QuietOthers
  <2>2. CASE u = t
    <3>1. pc'[u] = "searched" /\ i'[u] = NoIterator /\ visited'[u] = {}
      BY <1>1, <1>2, <1>4, <1>6, <2>2 DEF HashTypes, GoTo
    <3> QED
      BY <3>1 DEF Local, Inserts, Searched, Iterates, Inserting
  <2> QED
    BY <2>1, <2>2
<1> QED
  BY <1>7, <1>8, <1>9, <1>10 DEF HashIInv

\* ks_hash_search under the read lock finds what is there.
LEMMA SearchLockedIInv ==
    ASSUME HashIInv, NEW t \in Threads, NEW key \in Keys, SearchLocked(t, key)
    PROVE  HashIInv'
<1>1. HashTypes /\ TableOK /\ Locks /\ Counted /\ \A u \in Threads : Local(u)
  BY DEF HashIInv
<1>2. pc[t] = "idle" /\ i[t] = NoIterator /\ visited[t] = {}
  BY IdleIs DEF SearchLocked, Calls
<1>3. "searched_locked" \in Locations /\ "searched_locked" \in Reading /\ pc[t] \notin Reading \cup Writing
  BY <1>2 DEF Locations, Reading, Writing
<1>4. /\ GoTo(t, "searched_locked") /\ GrantRead(t) /\ readers' = readers + 1
      /\ UNCHANGED <<heap, index, iter, role>> /\ k' = [k EXCEPT ![t] = key]
      /\ found' = [found EXCEPT ![t] = At(table[Bucket(tablelength, key)], key) # {}]
  BY DEF SearchLocked
<1>5. UNCHANGED heap /\ UNCHANGED role
  BY <1>4
<1>6. /\ primeindex' = primeindex /\ index' = index /\ i' = i /\ visited' = visited /\ key_of' = key_of
      /\ role' = role /\ depth' = depth /\ reads' = [reads EXCEPT ![t] = @ + 1]
  BY <1>4 DEF heap, iter, GrantRead
<1>7. PICK x \in BOOLEAN : x = Present(key) /\ found' = [found EXCEPT ![t] = x]
  <2>1. (At(table[Bucket(tablelength, key)], key) # {}) = Present(key)
    BY <1>1, ScanFinds
  <2> QED
    BY <1>4, <2>1
<1>8. HashTypes'
  BY <1>1, <1>3, <1>4, <1>6, <1>7 DEF HashTypes, GoTo
<1>9. TableOK'
  BY <1>1, <1>5, TableSame
<1>10. Locks' /\ Counted'
  BY <1>1, <1>3, <1>4, LockRead
<1>11. ASSUME NEW u \in Threads PROVE Local(u)'
  <2>1. CASE u # t
    <3>1. pc'[u] = pc[u] /\ k'[u] = k[u] /\ index'[u] = index[u] /\ found'[u] = found[u]
          /\ i'[u] = i[u] /\ visited'[u] = visited[u]
      BY <1>1, <1>4, <1>6, <1>7, <2>1 DEF HashTypes, GoTo
    <3> QED
      BY <1>1, <1>5, <3>1, QuietOthers
  <2>2. CASE u = t
    <3>1. pc'[u] = "searched_locked" /\ i'[u] = NoIterator /\ visited'[u] = {} /\ k'[u] = key /\ found'[u] = x
      BY <1>1, <1>2, <1>4, <1>6, <1>7, <2>2 DEF HashTypes, GoTo
    <3>2. Present(key)' = Present(key)
      BY <1>6 DEF Present, Live
    <3>3. Searched(u)'
      BY <1>7, <3>1, <3>2 DEF Searched, Present, Live
    <3> QED
      BY <3>1, <3>3 DEF Local, Inserts, Iterates, Inserting
  <2> QED
    BY <2>1, <2>2
<1> QED
  BY <1>8, <1>9, <1>10, <1>11 DEF HashIInv

\* ks_hash_read_unlock keeps the invariant.
LEMMA ReadUnlockIInv ==
    ASSUME HashIInv, NEW t \in Threads, ReadUnlock(t)
    PROVE  HashIInv'
<1>1. HashTypes /\ TableOK /\ Locks /\ Counted /\ \A u \in Threads : Local(u)
  BY DEF HashIInv
<1>2. pc[t] \in Reading /\ i[t] = NoIterator /\ visited[t] = {} /\ "idle" \in Locations
  BY <1>1 DEF ReadUnlock, Reading, Local, Iterates, Locations
<1>3. /\ GoTo(t, "idle") /\ GiveBackRead(t) /\ readers' = readers - 1 /\ Forget(t)
      /\ UNCHANGED <<heap, iter, role>>
  BY DEF ReadUnlock
<1>4. UNCHANGED heap /\ UNCHANGED role
  BY <1>3
<1>5. /\ k' = [k EXCEPT ![t] = NoKey] /\ index' = [index EXCEPT ![t] = 0]
      /\ found' = [found EXCEPT ![t] = FALSE] /\ i' = i /\ visited' = visited /\ role' = role
      /\ primeindex' = primeindex /\ depth' = depth /\ reads' = [reads EXCEPT ![t] = @ - 1]
      /\ reads[t] > 0
  BY <1>3 DEF Forget, iter, heap, GiveBackRead
<1>6. HashTypes'
  <2>1. reads' \in [Threads -> Nat]
    BY <1>1, <1>5 DEF HashTypes
  <2> QED
    BY <1>1, <1>2, <1>3, <1>5, <2>1 DEF HashTypes, GoTo
<1>7. TableOK'
  BY <1>1, <1>4, TableSame
<1>8. Locks' /\ Counted'
  BY <1>1, <1>2, <1>3, UnlockRead
<1>9. ASSUME NEW u \in Threads PROVE Local(u)'
  <2>1. CASE u # t
    <3>1. pc'[u] = pc[u] /\ k'[u] = k[u] /\ index'[u] = index[u] /\ found'[u] = found[u]
          /\ i'[u] = i[u] /\ visited'[u] = visited[u]
      BY <1>1, <1>3, <1>5, <2>1 DEF HashTypes, GoTo
    <3> QED
      BY <1>1, <1>4, <3>1, QuietOthers
  <2>2. CASE u = t
    <3>1. pc'[u] = "idle" /\ i'[u] = NoIterator /\ visited'[u] = {}
      BY <1>1, <1>2, <1>3, <1>5, <2>2 DEF HashTypes, GoTo
    <3> QED
      BY <3>1 DEF Local, Inserts, Searched, Iterates, Inserting
  <2> QED
    BY <2>1, <2>2
<1> QED
  BY <1>6, <1>7, <1>8, <1>9 DEF HashIInv

\* An iterator at an entry is not at the end.
LEMMA AtEntry ==
    ASSUME NEW b \in Nat, NEW e \in Entries, NEW it, it = [pos |-> b, e |-> e]
    PROVE  it # NoIterator /\ it \in [pos : Nat, e : Entries \cup {NoEntry}] /\ it.e = e /\ e # NoEntry
<1>1. e # NoEntry
  BY NoEntryIsNone DEF Entries
<1> QED
  BY <1>1 DEF NoIterator

\* The iterator at the end.
LEMMA AtEnd ==
    NoIterator.e = NoEntry /\ NoIterator \in [pos : Nat, e : Entries \cup {NoEntry}]
BY DEF NoIterator

\* ks_hash_first: the iterator has been at the first entry and nothing else.
LEMMA IterateFirstIInv ==
    ASSUME HashIInv, NEW t \in Threads, IterateFirst(t)
    PROVE  HashIInv'
<1>1. HashTypes /\ TableOK /\ Locks /\ Counted /\ \A u \in Threads : Local(u)
  BY DEF HashIInv
<1>2. pc[t] = "idle" /\ i[t] = NoIterator /\ visited[t] = {}
  BY IdleIs DEF IterateFirst, Calls
<1>3. tablelength \in Nat \ {0} /\ table \in Tables(tablelength) /\ DOMAIN table = 0 .. tablelength - 1
  BY <1>1, TableLength DEF TableOK, Sound, Tables
<1>4. PICK it : it = From(table, 0)
  OBVIOUS
<1>5. /\ i' = [i EXCEPT ![t] = it] /\ visited' = [visited EXCEPT ![t] = @ \cup ({it.e} \ {NoEntry})]
      /\ GrantRead(t) /\ readers' = readers + 1 /\ UNCHANGED <<heap, mine, role>>
  BY <1>4 DEF IterateFirst, MoveTo
<1>6. PICK w : w = (IF it = NoIterator THEN "last" ELSE "iterate") /\ GoTo(t, w)
  <2>1. i'[t] = it
    BY <1>1, <1>5 DEF HashTypes
  <2> QED
    BY <2>1 DEF IterateFirst
<1>7. UNCHANGED heap /\ UNCHANGED role
  BY <1>5
<1>8. /\ primeindex' = primeindex /\ table' = table /\ k' = k /\ index' = index /\ found' = found
      /\ role' = role /\ depth' = depth /\ reads' = [reads EXCEPT ![t] = @ + 1]
  BY <1>5 DEF heap, mine, GrantRead
<1>9. \/ it = NoIterator /\ w = "last" /\ visited'[t] = {}
      \/ /\ w = "iterate"
         /\ \E b \in DOMAIN table : \E n \in DOMAIN table[b] :
               it = [pos |-> b, e |-> table[b][n]] /\ visited'[t] = Before(table, b, n)
  <2>0. visited'[t] = {it.e} \ {NoEntry}
    BY <1>1, <1>2, <1>5 DEF HashTypes
  <2>1. CASE it = NoIterator
    BY <1>6, <2>0, <2>1, AtEnd
  <2>2. CASE \E c \in DOMAIN table :
               /\ c >= 0 /\ table[c] # <<>> /\ it = [pos |-> c, e |-> table[c][1]]
               /\ \A d \in DOMAIN table : d >= 0 /\ d < c => table[d] = <<>>
    <3>1. PICK c \in DOMAIN table :
               /\ table[c] # <<>> /\ it = [pos |-> c, e |-> table[c][1]]
               /\ \A d \in DOMAIN table : d >= 0 /\ d < c => table[d] = <<>>
      BY <2>2
    <3>2. \A d \in DOMAIN table : d < c => table[d] = <<>>
      BY <1>3, <3>1
    <3>3. 1 \in DOMAIN table[c] /\ table[c][1] \in Entries /\ Before(table, c, 1) = {table[c][1]}
      BY <1>3, <3>1, <3>2, BeforeFirst
    <3>4. it # NoIterator /\ it.e = table[c][1] /\ it.e # NoEntry
      BY <1>3, <3>1, <3>3, AtEntry
    <3>5. visited'[t] = Before(table, c, 1)
      BY <2>0, <3>3, <3>4
    <3> QED
      BY <1>6, <3>1, <3>3, <3>4, <3>5
  <2> QED
    BY <1>3, <1>4, <2>1, <2>2, FromIs
<1>10. w \in Locations /\ w \in Reading /\ pc[t] \notin Reading \cup Writing
  BY <1>2, <1>6 DEF Locations, Reading, Writing
<1>11. it \in [pos : Nat, e : Entries \cup {NoEntry}]
  <2>1. CASE it = NoIterator
    BY <2>1, AtEnd
  <2>2. ASSUME NEW b \in DOMAIN table, NEW n \in DOMAIN table[b], it = [pos |-> b, e |-> table[b][n]]
        PROVE  it \in [pos : Nat, e : Entries \cup {NoEntry}]
    <3>1. b \in Nat /\ table[b][n] \in Entries
      BY <1>3 DEF Tables
    <3> QED
      BY <2>2, <3>1
  <2> QED
    BY <1>9, <2>1, <2>2
<1>12. HashTypes'
  <2>1. visited' \in [Threads -> SUBSET Entries]
    BY <1>1, <1>5, <1>11 DEF HashTypes
  <2> QED
    BY <1>1, <1>5, <1>6, <1>8, <1>10, <1>11, <2>1 DEF HashTypes, GoTo
<1>13. TableOK'
  BY <1>1, <1>7, TableSame
<1>14. Locks' /\ Counted'
  BY <1>1, <1>5, <1>6, <1>10, LockRead
<1>15. ASSUME NEW u \in Threads PROVE Local(u)'
  <2>1. CASE u # t
    <3>1. pc'[u] = pc[u] /\ k'[u] = k[u] /\ index'[u] = index[u] /\ found'[u] = found[u]
          /\ i'[u] = i[u] /\ visited'[u] = visited[u]
      BY <1>1, <1>5, <1>6, <1>8, <2>1 DEF HashTypes, GoTo
    <3> QED
      BY <1>1, <1>7, <3>1, QuietOthers
  <2>2. CASE u = t
    <3>1. pc'[u] = w /\ i'[u] = it
      BY <1>1, <1>5, <1>6, <2>2 DEF HashTypes, GoTo
    <3>2. w \in {"last", "iterate"} /\ (w = "last" => it = NoIterator)
      BY <1>6
    <3>3. Inserts(u)' /\ Searched(u)'
      BY <3>1, <3>2 DEF Inserts, Searched, Inserting
    <3>4. Iterates(u)'
      BY <1>8, <1>9, <2>2, <3>1, <3>2 DEF Iterates
    <3> QED
      BY <3>3, <3>4 DEF Local
  <2> QED
    BY <2>1, <2>2
<1> QED
  BY <1>12, <1>13, <1>14, <1>15 DEF HashIInv

\* ks_hash_next takes an iterator to the next entry, or to the end when it
\* has been at all of them.
LEMMA IterateNextDoes ==
    ASSUME HashIInv, NEW t \in Threads, IterateNext(t)
    PROVE  \E it :
             /\ i' = [i EXCEPT ![t] = it] /\ UNCHANGED heap
             /\ visited' = [visited EXCEPT ![t] = @ \cup ({it.e} \ {NoEntry})]
             /\ it \in [pos : Nat, e : Entries \cup {NoEntry}]
             /\ \/ it = NoIterator /\ GoTo(t, "last") /\ pc'[t] = "last" /\ visited'[t] = Live
                \/ /\ GoTo(t, "iterate") /\ pc'[t] = "iterate"
                   /\ \E b \in DOMAIN table : \E n \in DOMAIN table[b] :
                         it = [pos |-> b, e |-> table[b][n]] /\ visited'[t] = Before(table, b, n)
<1>1. HashTypes /\ TableOK /\ Local(t) /\ pc[t] = "iterate"
  BY DEF HashIInv, IterateNext
<1>2. /\ tablelength \in Nat \ {0} /\ table \in Tables(tablelength) /\ Once(table)
      /\ DOMAIN table = 0 .. tablelength - 1
      /\ \A e \in Entries : Holds(table, e) <=> key_of[e] # NoKey
  BY <1>1, TableLength DEF TableOK, Sound, Tables
<1>3. PICK b \in DOMAIN table : \E n \in DOMAIN table[b] :
         i[t] = [pos |-> b, e |-> table[b][n]] /\ visited[t] = Before(table, b, n)
  BY <1>1 DEF Local, Iterates
<1>4. PICK n \in DOMAIN table[b] :
         i[t] = [pos |-> b, e |-> table[b][n]] /\ visited[t] = Before(table, b, n)
  BY <1>3
<1>5. PICK it : it = ks_hash_next(i[t])
  OBVIOUS
<1>6. it = IF n < Len(table[b]) THEN [pos |-> b, e |-> table[b][n + 1]] ELSE From(table, b + 1)
  BY <1>2, <1>4, <1>5, NextIs
<1>7. /\ i' = [i EXCEPT ![t] = it] /\ visited' = [visited EXCEPT ![t] = @ \cup ({it.e} \ {NoEntry})]
      /\ UNCHANGED <<lock, heap, readers, mine, role>>
  BY <1>5 DEF IterateNext, MoveTo
<1>8. /\ GoTo(t, IF it = NoIterator THEN "last" ELSE "iterate")
      /\ pc'[t] = IF it = NoIterator THEN "last" ELSE "iterate"
  <2>1. i'[t] = it
    BY <1>1, <1>7 DEF HashTypes
  <2>2. GoTo(t, IF it = NoIterator THEN "last" ELSE "iterate")
    BY <2>1 DEF IterateNext
  <2> QED
    BY <1>1, <2>2 DEF GoTo, HashTypes
<1>9. visited'[t] = Before(table, b, n) \cup ({it.e} \ {NoEntry})
  BY <1>1, <1>4, <1>7 DEF HashTypes
<1>10. ASSUME NEW c \in DOMAIN table, NEW m \in DOMAIN table[c], it = [pos |-> c, e |-> table[c][m]],
              table[c][m] \in Entries, Before(table, c, m) = Before(table, b, n) \cup {table[c][m]}
       PROVE  /\ it \in [pos : Nat, e : Entries \cup {NoEntry}]
              /\ GoTo(t, "iterate") /\ pc'[t] = "iterate"
              /\ \E d \in DOMAIN table : \E o \in DOMAIN table[d] :
                    it = [pos |-> d, e |-> table[d][o]] /\ visited'[t] = Before(table, d, o)
  <2>1. /\ it # NoIterator /\ it \in [pos : Nat, e : Entries \cup {NoEntry}]
        /\ it.e = table[c][m] /\ it.e # NoEntry
    BY <1>2, <1>10, AtEntry
  <2>2. visited'[t] = Before(table, c, m)
    BY <1>9, <1>10, <2>1
  <2> QED
    BY <1>8, <1>10, <2>1, <2>2
<1>11. CASE n < Len(table[b])
  <2>1. /\ n + 1 \in DOMAIN table[b] /\ table[b][n + 1] \in Entries
        /\ Before(table, b, n + 1) = Before(table, b, n) \cup {table[b][n + 1]}
    BY <1>2, <1>11, BeforeStep
  <2>2. it = [pos |-> b, e |-> table[b][n + 1]]
    BY <1>6, <1>11
  <2>3. /\ it \in [pos : Nat, e : Entries \cup {NoEntry}]
        /\ GoTo(t, "iterate") /\ pc'[t] = "iterate"
        /\ \E d \in DOMAIN table : \E o \in DOMAIN table[d] :
              it = [pos |-> d, e |-> table[d][o]] /\ visited'[t] = Before(table, d, o)
    BY <1>10, <2>1, <2>2
  <2> QED
    BY <1>7, <2>3
<1>12. CASE ~(n < Len(table[b]))
  <2>1. it = From(table, b + 1) /\ b + 1 \in Nat
    BY <1>2, <1>6, <1>12
  <2>2. CASE it = NoIterator /\ \A c \in DOMAIN table : c >= b + 1 => table[c] = <<>>
    <3>1. Before(table, b, n) = {e \in Entries : Holds(table, e)}
      BY <1>2, <1>12, <2>2, BeforeEnd
    <3>2. visited'[t] = Live
      BY <1>2, <1>9, <2>2, <3>1, AtEnd DEF Live
    <3> QED
      BY <1>7, <1>8, <2>2, <3>2, AtEnd
  <2>3. CASE \E c \in DOMAIN table :
               /\ c >= b + 1 /\ table[c] # <<>> /\ it = [pos |-> c, e |-> table[c][1]]
               /\ \A d \in DOMAIN table : d >= b + 1 /\ d < c => table[d] = <<>>
    <3>1. PICK c \in DOMAIN table :
               /\ c >= b + 1 /\ table[c] # <<>> /\ it = [pos |-> c, e |-> table[c][1]]
               /\ \A d \in DOMAIN table : d >= b + 1 /\ d < c => table[d] = <<>>
      BY <2>3
    <3>2. /\ 1 \in DOMAIN table[c] /\ table[c][1] \in Entries
          /\ Before(table, c, 1) = Before(table, b, n) \cup {table[c][1]}
      BY <1>2, <1>12, <3>1, BeforeJump
    <3>3. /\ it \in [pos : Nat, e : Entries \cup {NoEntry}]
          /\ GoTo(t, "iterate") /\ pc'[t] = "iterate"
          /\ \E d \in DOMAIN table : \E o \in DOMAIN table[d] :
                it = [pos |-> d, e |-> table[d][o]] /\ visited'[t] = Before(table, d, o)
      BY <1>10, <3>1, <3>2
    <3> QED
      BY <1>7, <3>3
  <2> QED
    BY <1>2, <2>1, <2>2, <2>3, FromIs
<1> QED
  BY <1>11, <1>12

\* ks_hash_next keeps the invariant.
LEMMA IterateNextIInv ==
    ASSUME HashIInv, NEW t \in Threads, IterateNext(t)
    PROVE  HashIInv'
<1>1. HashTypes /\ TableOK /\ Locks /\ Counted /\ \A u \in Threads : Local(u)
  BY DEF HashIInv
<1>2. pc[t] = "iterate" /\ UNCHANGED <<lock, heap, readers, mine, role>>
  BY DEF IterateNext
<1>3. PICK it :
         /\ i' = [i EXCEPT ![t] = it] /\ UNCHANGED heap
         /\ visited' = [visited EXCEPT ![t] = @ \cup ({it.e} \ {NoEntry})]
         /\ it \in [pos : Nat, e : Entries \cup {NoEntry}]
         /\ \/ it = NoIterator /\ GoTo(t, "last") /\ pc'[t] = "last" /\ visited'[t] = Live
            \/ /\ GoTo(t, "iterate") /\ pc'[t] = "iterate"
               /\ \E b \in DOMAIN table : \E n \in DOMAIN table[b] :
                     it = [pos |-> b, e |-> table[b][n]] /\ visited'[t] = Before(table, b, n)
  BY IterateNextDoes
<1>4. PICK w \in {"last", "iterate"} : GoTo(t, w) /\ pc'[t] = w
  BY <1>3
<1>5. UNCHANGED lock /\ UNCHANGED heap /\ UNCHANGED readers /\ UNCHANGED role
  BY <1>2
<1>6. /\ primeindex' = primeindex /\ table' = table /\ k' = k /\ index' = index /\ found' = found
      /\ role' = role /\ depth' = depth /\ reads' = reads
  BY <1>2 DEF heap, mine, lock
<1>7. w \in Locations /\ w \in Reading /\ w \notin Writing /\ pc[t] \in Reading /\ pc[t] \notin Writing
  BY <1>2 DEF Locations, Reading, Writing
<1>8. HashTypes'
  <2>1. visited' \in [Threads -> SUBSET Entries]
    BY <1>1, <1>3 DEF HashTypes
  <2> QED
    BY <1>1, <1>3, <1>4, <1>6, <1>7, <2>1 DEF HashTypes, GoTo
<1>9. TableOK'
  BY <1>1, <1>5, TableSame
<1>10. Locks' /\ Counted'
  BY <1>1, <1>4, <1>5, <1>7, LockSame
<1>11. ASSUME NEW u \in Threads PROVE Local(u)'
  <2>1. CASE u # t
    <3>1. pc'[u] = pc[u] /\ k'[u] = k[u] /\ index'[u] = index[u] /\ found'[u] = found[u]
          /\ i'[u] = i[u] /\ visited'[u] = visited[u]
      BY <1>1, <1>3, <1>4, <1>6, <2>1 DEF HashTypes, GoTo
    <3> QED
      BY <1>1, <1>5, <3>1, QuietOthers
  <2>2. CASE u = t
    <3>1. pc'[u] = w /\ i'[u] = it
      BY <1>1, <1>3, <1>4, <2>2 DEF HashTypes
    <3>2. Inserts(u)' /\ Searched(u)'
      BY <3>1 DEF Inserts, Searched, Inserting
    <3>3. Iterates(u)'
      BY <1>3, <1>6, <2>2, <3>1 DEF Iterates
    <3> QED
      BY <3>2, <3>3 DEF Local
  <2> QED
    BY <2>1, <2>2
<1> QED
  BY <1>8, <1>9, <1>10, <1>11 DEF HashIInv

\* ks_hash_last keeps the invariant.
LEMMA IterateLastIInv ==
    ASSUME HashIInv, NEW t \in Threads, IterateLast(t)
    PROVE  HashIInv'
<1>1. HashTypes /\ TableOK /\ Locks /\ Counted /\ \A u \in Threads : Local(u)
  BY DEF HashIInv
<1>2. pc[t] \in Reading /\ "idle" \in Locations
  BY DEF IterateLast, Reading, Locations
<1>3. /\ GoTo(t, "idle") /\ GiveBackRead(t) /\ readers' = readers - 1
      /\ i' = [i EXCEPT ![t] = NoIterator] /\ visited' = [visited EXCEPT ![t] = {}]
      /\ UNCHANGED <<heap, mine, role>>
  BY DEF IterateLast
<1>4. UNCHANGED heap /\ UNCHANGED role
  BY <1>3
<1>5. /\ k' = k /\ index' = index /\ found' = found /\ role' = role
      /\ primeindex' = primeindex /\ depth' = depth /\ reads' = [reads EXCEPT ![t] = @ - 1]
      /\ reads[t] > 0
  BY <1>3 DEF mine, heap, GiveBackRead
<1>6. HashTypes'
  <2>1. reads' \in [Threads -> Nat]
    BY <1>1, <1>5 DEF HashTypes
  <2>2. i' \in [Threads -> [pos : Nat, e : Entries \cup {NoEntry}]]
    BY <1>1, <1>3, AtEnd DEF HashTypes
  <2> QED
    BY <1>1, <1>2, <1>3, <1>5, <2>1, <2>2 DEF HashTypes, GoTo
<1>7. TableOK'
  BY <1>1, <1>4, TableSame
<1>8. Locks' /\ Counted'
  BY <1>1, <1>2, <1>3, UnlockRead
<1>9. ASSUME NEW u \in Threads PROVE Local(u)'
  <2>1. CASE u # t
    <3>1. pc'[u] = pc[u] /\ k'[u] = k[u] /\ index'[u] = index[u] /\ found'[u] = found[u]
          /\ i'[u] = i[u] /\ visited'[u] = visited[u]
      BY <1>1, <1>3, <1>5, <2>1 DEF HashTypes, GoTo
    <3> QED
      BY <1>1, <1>4, <3>1, QuietOthers
  <2>2. CASE u = t
    <3>1. pc'[u] = "idle" /\ i'[u] = NoIterator /\ visited'[u] = {}
      BY <1>1, <1>3, <2>2 DEF HashTypes, GoTo
    <3> QED
      BY <3>1 DEF Local, Inserts, Searched, Iterates, Inserting
  <2> QED
    BY <2>1, <2>2
<1> QED
  BY <1>6, <1>7, <1>8, <1>9 DEF HashIInv

-----------------------------------------------------------------------------
(* The loop that empties the table, and its end                            *)

\* DrainFirst starts at the first entry there is.
LEMMA DrainFirstIInv ==
    ASSUME HashIInv, NEW t \in Threads, DrainFirst(t)
    PROVE  HashIInv'
<1>1. HashTypes /\ TableOK /\ Locks /\ Counted /\ \A u \in Threads : Local(u)
  BY DEF HashIInv
<1>2. pc[t] = "idle" /\ i[t] = NoIterator /\ visited[t] = {}
  BY IdleIs DEF DrainFirst, Calls
<1>3. tablelength \in Nat \ {0} /\ table \in Tables(tablelength) /\ DOMAIN table = 0 .. tablelength - 1
  BY <1>1, TableLength DEF TableOK, Sound, Tables
<1>4. PICK it : it = From(table, 0)
  OBVIOUS
<1>5. /\ i' = [i EXCEPT ![t] = it] /\ GrantWrite(t) /\ UNCHANGED <<heap, readers, mine, visited, role>>
  BY <1>4 DEF DrainFirst
<1>6. PICK w : w = (IF it = NoIterator THEN "locked" ELSE "drain") /\ GoTo(t, w)
  <2>1. i'[t] = it
    BY <1>1, <1>5 DEF HashTypes
  <2> QED
    BY <2>1 DEF DrainFirst
<1>7. UNCHANGED heap /\ UNCHANGED role /\ UNCHANGED readers
  BY <1>5
<1>8. /\ primeindex' = primeindex /\ table' = table /\ k' = k /\ index' = index /\ found' = found
      /\ visited' = visited /\ role' = role /\ reads' = reads /\ depth' = [depth EXCEPT ![t] = @ + 1]
  BY <1>5 DEF heap, mine, GrantWrite
<1>9. \/ it = NoIterator /\ w = "locked"
      \/ /\ w = "drain" /\ it \in [pos : Nat, e : Entries \cup {NoEntry}]
         /\ \E b \in DOMAIN table :
               table[b] # <<>> /\ it = [pos |-> b, e |-> table[b][1]] /\ Emptied(table, b)
  <2>1. CASE it = NoIterator
    BY <1>6, <2>1
  <2>2. CASE \E c \in DOMAIN table :
               /\ c >= 0 /\ table[c] # <<>> /\ it = [pos |-> c, e |-> table[c][1]]
               /\ \A d \in DOMAIN table : d >= 0 /\ d < c => table[d] = <<>>
    <3>1. PICK c \in DOMAIN table :
               /\ table[c] # <<>> /\ it = [pos |-> c, e |-> table[c][1]]
               /\ \A d \in DOMAIN table : d >= 0 /\ d < c => table[d] = <<>>
      BY <2>2
    <3>2. Emptied(table, c)
      BY <1>3, <3>1 DEF Emptied
    <3>3. table[c] \in Seq(Entries)
      BY <1>3 DEF Tables
    <3>4. 1 \in DOMAIN table[c] /\ table[c][1] \in Entries
      BY <3>1, <3>3, TailIs
    <3>5. it # NoIterator /\ it \in [pos : Nat, e : Entries \cup {NoEntry}]
      BY <1>3, <3>1, <3>4, AtEntry
    <3> QED
      BY <1>6, <3>1, <3>2, <3>5
  <2> QED
    BY <1>3, <1>4, <2>1, <2>2, FromIs
<1>10. w \in Locations /\ w \in Writing /\ pc[t] \notin Reading \cup Writing
  BY <1>2, <1>6 DEF Locations, Reading, Writing
<1>11. it \in [pos : Nat, e : Entries \cup {NoEntry}]
  BY <1>9, AtEnd
<1>12. HashTypes'
  BY <1>1, <1>5, <1>6, <1>8, <1>10, <1>11 DEF HashTypes, GoTo
<1>13. TableOK'
  BY <1>1, <1>7, TableSame
<1>14. Locks' /\ Counted'
  BY <1>1, <1>5, <1>6, <1>7, <1>10, LockWrite
<1>15. ASSUME NEW u \in Threads PROVE Local(u)'
  <2>1. CASE u # t
    <3>1. pc'[u] = pc[u] /\ k'[u] = k[u] /\ index'[u] = index[u] /\ found'[u] = found[u]
          /\ i'[u] = i[u] /\ visited'[u] = visited[u]
      BY <1>1, <1>5, <1>6, <1>8, <2>1 DEF HashTypes, GoTo
    <3> QED
      BY <1>1, <1>7, <3>1, QuietOthers
  <2>2. CASE u = t
    <3>1. pc'[u] = w /\ i'[u] = it /\ visited'[u] = {}
      BY <1>1, <1>2, <1>5, <1>6, <1>8, <2>2 DEF HashTypes, GoTo
    <3>2. w \in {"locked", "drain"}
      BY <1>6
    <3>3. Inserts(u)' /\ Searched(u)'
      BY <3>1, <3>2 DEF Inserts, Searched, Inserting
    <3>4. Iterates(u)'
      BY <1>8, <1>9, <3>1, <3>2 DEF Iterates
    <3> QED
      BY <3>3, <3>4 DEF Local
  <2> QED
    BY <2>1, <2>2
<1> QED
  BY <1>12, <1>13, <1>14, <1>15 DEF HashIInv

\* DrainStep removes the entry its iterator was at and leaves the iterator
\* at the first that is left, or at the end when nothing is.
LEMMA DrainStepDoes ==
    ASSUME HashIInv, NEW t \in Threads, DrainStep(t)
    PROVE  \E it :
             /\ i' = [i EXCEPT ![t] = it] /\ TableOK'
             /\ it \in [pos : Nat, e : Entries \cup {NoEntry}]
             /\ \/ it = NoIterator /\ GoTo(t, "locked") /\ pc'[t] = "locked" /\ Live' = {}
                \/ /\ GoTo(t, "drain") /\ pc'[t] = "drain"
                   /\ \E b \in DOMAIN table' :
                         /\ table'[b] # <<>> /\ it = [pos |-> b, e |-> table'[b][1]]
                         /\ Emptied(table', b)
<1>1. HashTypes /\ TableOK /\ Local(t) /\ pc[t] = "drain"
  BY DEF HashIInv, DrainStep
<1>2. /\ tablelength \in Nat \ {0} /\ table \in Tables(tablelength) /\ Once(table)
      /\ DOMAIN table = 0 .. tablelength - 1 /\ Sits(table, key_of, tablelength)
      /\ Sound(table, key_of, entrycount, tablelength)
      /\ key_of \in [Entries -> Keys \cup {NoKey}]
      /\ \A e \in Entries : Holds(table, e) <=> key_of[e] # NoKey
  BY <1>1, TableLength DEF TableOK, Sound, Tables
<1>3. PICK b \in DOMAIN table :
         table[b] # <<>> /\ i[t] = [pos |-> b, e |-> table[b][1]] /\ Emptied(table, b)
  BY <1>1 DEF Local, Iterates
<1>4. table[b] \in Seq(Entries) /\ 1 \in DOMAIN table[b] /\ table[b][1] \in Entries
  <2>1. table[b] \in Seq(Entries)
    BY <1>2, <1>3 DEF Tables
  <2> QED
    BY <1>3, <2>1, TailIs
<1>5. PICK it : it = ks_hash_next(i[t])
  OBVIOUS
<1>6. it = IF 1 < Len(table[b]) THEN [pos |-> b, e |-> table[b][1 + 1]] ELSE From(table, b + 1)
  BY <1>2, <1>3, <1>4, <1>5, NextIs
<1>7. PICK key : key = key_of[i[t].e]
  OBVIOUS
<1>8. key = key_of[table[b][1]] /\ Bucket(tablelength, key) = b
  BY <1>2, <1>3, <1>4, <1>7 DEF Sits
<1>9. PICK h : h = _ks_hash_remove(Heap, key, b) /\ Become(h)
  BY <1>7, <1>8 DEF DrainStep
<1>10. i' = [i EXCEPT ![t] = it] /\ tablelength' = tablelength
  BY <1>5 DEF DrainStep, tablelength
<1>11. /\ GoTo(t, IF it = NoIterator THEN "locked" ELSE "drain")
       /\ pc'[t] = IF it = NoIterator THEN "locked" ELSE "drain"
  <2>1. i'[t] = it
    BY <1>1, <1>10 DEF HashTypes
  <2>2. GoTo(t, IF it = NoIterator THEN "locked" ELSE "drain")
    BY <2>1 DEF DrainStep
  <2> QED
    BY <1>1, <2>2 DEF GoTo, HashTypes
<1>12. TableOK' /\ Sound(table', key_of', entrycount', tablelength)
  <2>1. b \in 0 .. tablelength - 1
    BY <1>2, <1>3
  <2>2. Sound(h.tab, h.keys, h.count, tablelength)
    BY <1>2, <1>9, <2>1, RemoveSound
  <2>3. table' = h.tab /\ key_of' = h.keys /\ entrycount' = h.count
    BY <1>9 DEF Become
  <2> QED
    BY <1>10, <2>2, <2>3 DEF TableOK
<1>13. FirstAt(table[b], key) = 1 /\ At(table[b], key) # {}
  <2>1. 1 \in At(table[b], key)
    BY <1>4, <1>8 DEF At
  <2>2. FirstAt(table[b], key) \in DOMAIN table[b] /\ FirstAt(table[b], key) <= 1
    BY <1>4, <2>1, FirstIs
  <2> QED
    BY <1>4, <2>1, <2>2
<1>14. table' = Rechained(table, b, Cut(table[b], 1))
  BY <1>9, <1>13 DEF Become, _ks_hash_remove, Heap, Rechained, Cut
<1>15. Without(Cut(table[b], 1), table[b], 1)
  BY <1>4, CutIs
<1>16. DOMAIN table' = DOMAIN table /\ Without(table'[b], table[b], 1) /\ \A c \in DOMAIN table \ {b} : table'[c] = table[c]
  BY <1>2, <1>3, <1>14, <1>15 DEF Rechained, Tables
<1>17. b \in Nat /\ \A c \in DOMAIN table : c \in Nat
  BY <1>2, <1>3
<1>18. ASSUME NEW c \in DOMAIN table', table'[c] # <<>>, it = [pos |-> c, e |-> table'[c][1]], Emptied(table', c)
       PROVE  /\ it \in [pos : Nat, e : Entries \cup {NoEntry}]
              /\ GoTo(t, "drain") /\ pc'[t] = "drain"
  <2>1. table'[c] \in Seq(Entries) /\ c \in Nat
    BY <1>12, <1>16, <1>17, <1>18 DEF Sound, Tables
  <2>2. table'[c][1] \in Entries
    BY <1>18, <2>1, TailIs
  <2>3. it # NoIterator /\ it \in [pos : Nat, e : Entries \cup {NoEntry}]
    BY <1>18, <2>1, <2>2, AtEntry
  <2> QED
    BY <1>11, <2>3
<1>19. CASE 1 < Len(table[b])
  <2>1. it = [pos |-> b, e |-> table[b][2]]
    BY <1>6, <1>19
  <2>2. table'[b] # <<>> /\ table'[b][1] = table[b][2]
    BY <1>4, <1>16, <1>19 DEF Without
  <2>3. Emptied(table', b)
    BY <1>3, <1>16, <1>17 DEF Emptied
  <2> QED
    BY <1>3, <1>10, <1>12, <1>16, <1>18, <2>1, <2>2, <2>3
<1>20. CASE ~(1 < Len(table[b]))
  <2>1. it = From(table, b + 1) /\ b + 1 \in Nat
    BY <1>6, <1>17, <1>20
  <2>2. table'[b] = <<>>
    BY <1>4, <1>16, <1>20 DEF Without
  <2>3. \A c \in DOMAIN table : c < b + 1 => table'[c] = <<>>
    BY <1>3, <1>16, <1>17, <2>2 DEF Emptied
  <2>4. CASE it = NoIterator /\ \A c \in DOMAIN table : c >= b + 1 => table[c] = <<>>
    <3>1. \A c \in DOMAIN table : table'[c] = <<>>
      BY <1>16, <1>17, <2>3, <2>4
    <3>2. \A c \in DOMAIN table' : DOMAIN table'[c] = {}
      BY <1>16, <3>1
    <3>3. \A e \in Entries : ~Holds(table', e)
      BY <3>2 DEF Holds
    <3>4. Live' = {}
      BY <1>12, <3>3 DEF Live, Sound
    <3> QED
      BY <1>10, <1>11, <1>12, <2>4, <3>4, AtEnd
  <2>5. CASE \E c \in DOMAIN table :
               /\ c >= b + 1 /\ table[c] # <<>> /\ it = [pos |-> c, e |-> table[c][1]]
               /\ \A d \in DOMAIN table : d >= b + 1 /\ d < c => table[d] = <<>>
    <3>1. PICK c \in DOMAIN table :
               /\ c >= b + 1 /\ table[c] # <<>> /\ it = [pos |-> c, e |-> table[c][1]]
               /\ \A d \in DOMAIN table : d >= b + 1 /\ d < c => table[d] = <<>>
      BY <2>5
    <3>2. c # b /\ table'[c] = table[c]
      BY <1>16, <1>17, <3>1
    <3>3. ASSUME NEW d \in DOMAIN table', d < c PROVE table'[d] = <<>>
      <4>1. CASE d < b + 1
        BY <1>16, <2>3, <4>1
      <4>2. CASE ~(d < b + 1)
        <5>1. d \in DOMAIN table /\ d # b /\ d >= b + 1
          BY <1>16, <1>17, <4>2
        <5> QED
          BY <1>16, <3>1, <3>3, <5>1
      <4> QED
        BY <4>1, <4>2
    <3>4. Emptied(table', c)
      BY <3>3 DEF Emptied
    <3> QED
      BY <1>10, <1>12, <1>16, <1>18, <3>1, <3>2, <3>4
  <2> QED
    BY <1>2, <2>1, <2>4, <2>5, FromIs
<1> QED
  BY <1>19, <1>20

\* DrainStep keeps the invariant.
LEMMA DrainStepIInv ==
    ASSUME HashIInv, NEW t \in Threads, DrainStep(t)
    PROVE  HashIInv'
<1>1. HashTypes /\ TableOK /\ Locks /\ Counted /\ \A u \in Threads : Local(u)
  BY DEF HashIInv
<1>2. pc[t] = "drain" /\ UNCHANGED <<lock, primeindex, readers, mine, visited, role>>
  BY DEF DrainStep
<1>3. PICK it :
         /\ i' = [i EXCEPT ![t] = it] /\ TableOK'
         /\ it \in [pos : Nat, e : Entries \cup {NoEntry}]
         /\ \/ it = NoIterator /\ GoTo(t, "locked") /\ pc'[t] = "locked" /\ Live' = {}
            \/ /\ GoTo(t, "drain") /\ pc'[t] = "drain"
               /\ \E b \in DOMAIN table' :
                     /\ table'[b] # <<>> /\ it = [pos |-> b, e |-> table'[b][1]]
                     /\ Emptied(table', b)
  BY DrainStepDoes
<1>4. PICK w \in {"locked", "drain"} : GoTo(t, w) /\ pc'[t] = w
  BY <1>3
<1>5. UNCHANGED lock /\ UNCHANGED readers /\ UNCHANGED role /\ UNCHANGED primeindex
  BY <1>2
<1>6. /\ primeindex' = primeindex /\ k' = k /\ index' = index /\ found' = found /\ visited' = visited
      /\ role' = role /\ depth' = depth /\ reads' = reads
  BY <1>2 DEF mine, lock
<1>7. w \in Locations /\ w \in Writing /\ w \notin Reading /\ pc[t] \in Writing /\ pc[t] \notin Reading
  BY <1>2 DEF Locations, Reading, Writing
<1>8. HashTypes'
  BY <1>1, <1>3, <1>4, <1>6, <1>7 DEF HashTypes, GoTo
<1>9. Locks' /\ Counted'
  BY <1>1, <1>4, <1>5, <1>7, LockSame
<1>10. ASSUME NEW u \in Threads PROVE Local(u)'
  <2>1. CASE u # t
    <3>1. pc'[u] = pc[u] /\ k'[u] = k[u] /\ index'[u] = index[u]
          /\ i'[u] = i[u] /\ visited'[u] = visited[u]
      BY <1>1, <1>3, <1>4, <1>6, <2>1 DEF HashTypes, GoTo
    <3>2. pc[u] \notin Reading \cup Writing
      BY <1>1, <1>7, <2>1 DEF Locks
    <3> QED
      BY <1>1, <1>5, <3>1, <3>2, BusyOthers
  <2>2. CASE u = t
    <3>1. pc'[u] = w /\ i'[u] = it
      BY <1>1, <1>3, <1>4, <2>2 DEF HashTypes
    <3>2. Inserts(u)' /\ Searched(u)'
      BY <3>1 DEF Inserts, Searched, Inserting
    <3>3. visited'[u] = {}
      BY <1>1, <1>2, <1>6, <2>2 DEF Local, Iterates
    <3>4. Iterates(u)'
      BY <1>3, <2>2, <3>1, <3>3 DEF Iterates
    <3> QED
      BY <3>2, <3>4 DEF Local
  <2> QED
    BY <2>1, <2>2
<1> QED
  BY <1>3, <1>8, <1>9, <1>10 DEF HashIInv

\* ks_hash_destroy frees every entry.
LEMMA DestroyIInv ==
    ASSUME HashIInv, NEW t \in Threads, Destroy(t)
    PROVE  HashIInv'
<1>1. HashTypes /\ TableOK /\ Locks /\ Counted /\ \A u \in Threads : Local(u)
  BY DEF HashIInv
<1>2. /\ \A u \in Threads : pc[u] = "idle"
      /\ UNCHANGED <<lock, primeindex, readers, mine, iter, role>> /\ GoTo(t, "destroyed")
  BY DEF Destroy
<1>3. UNCHANGED lock /\ UNCHANGED readers /\ UNCHANGED role /\ UNCHANGED primeindex
  BY <1>2
<1>4. /\ primeindex' = primeindex /\ k' = k /\ index' = index /\ found' = found /\ visited' = visited
      /\ i' = i /\ role' = role /\ depth' = depth /\ reads' = reads
  BY <1>2 DEF mine, lock, iter
<1>5. TableOK'
  <2>1. /\ tablelength' = tablelength /\ tablelength \in Nat \ {0}
        /\ table \in Tables(tablelength) /\ DOMAIN table = 0 .. tablelength - 1
        /\ key_of \in [Entries -> Keys \cup {NoKey}]
        /\ \A e \in Entries : Holds(table, e) <=> key_of[e] # NoKey
    BY <1>1, <1>4, TableLength DEF TableOK, Sound, Tables, tablelength
  <2>2. /\ table' = [b \in DOMAIN table |-> <<>>] /\ entrycount' = 0
        /\ key_of' = [e \in Entries |-> IF Holds(table, e) THEN NoKey ELSE key_of[e]]
    BY DEF Destroy, Become, Holds
  <2>3. key_of' \in [Entries -> Keys \cup {NoKey}] /\ \A e \in Entries : key_of'[e] = NoKey
    BY <2>1, <2>2
  <2>4. table' \in Tables(tablelength) /\ \A b \in DOMAIN table' : DOMAIN table'[b] = {}
    BY <2>1, <2>2 DEF Tables
  <2>5. Used(key_of') = {}
    BY <2>3 DEF Used
  <2>6. Once(table') /\ Sits(table', key_of', tablelength) /\ \A e : ~Holds(table', e)
    BY <2>4 DEF Once, Sits, Holds
  <2>7. entrycount' = Cardinality(Used(key_of'))
    BY <2>2, <2>5, FS_EmptySet
  <2> QED
    BY <2>1, <2>3, <2>4, <2>6, <2>7 DEF TableOK, Sound
<1>6. "destroyed" \in Locations /\ "destroyed" \notin Reading \cup Writing \cup Inserting
      /\ "idle" \notin Reading \cup Writing \cup Inserting
  BY DEF Locations, Reading, Writing, Inserting
<1>7. HashTypes'
  BY <1>1, <1>2, <1>4, <1>6 DEF HashTypes, GoTo
<1>8. Locks' /\ Counted'
  BY <1>1, <1>2, <1>3, <1>6, LockSame
<1>9. ASSUME NEW u \in Threads PROVE Local(u)'
  <2>1. pc'[u] \in {"idle", "destroyed"}
    BY <1>1, <1>2 DEF HashTypes, GoTo
  <2>2. pc[u] \notin Reading \cup Writing /\ pc'[u] \notin Reading \cup Writing /\ pc'[u] \notin Inserting
    BY <1>2, <1>6, <2>1
  <2> QED
    BY <1>1, <1>3, <1>4, <2>2, BusyOthers
<1> QED
  BY <1>5, <1>7, <1>8, <1>9 DEF HashIInv

-----------------------------------------------------------------------------
(* Every step, and what it means                                           *)

\* A step that changes nothing changes nothing of the invariant.
LEMMA StutterIInv ==
    ASSUME HashIInv, UNCHANGED vars
    PROVE  HashIInv'
<1>1. /\ UNCHANGED heap /\ UNCHANGED role /\ readers' = readers /\ depth' = depth /\ reads' = reads
      /\ primeindex' = primeindex /\ pc' = pc /\ k' = k /\ index' = index /\ found' = found
      /\ i' = i /\ visited' = visited /\ role' = role
  BY DEF vars, heap, lock, mine, iter
<1>2. HashTypes' /\ Locks' /\ Counted'
  BY <1>1 DEF HashIInv, HashTypes, Locks, Counted, Readers
<1>3. TableOK'
  BY <1>1, TableSame DEF HashIInv
<1>4. ASSUME NEW u \in Threads PROVE Local(u)'
  <2>1. Local(u)
    BY DEF HashIInv
  <2> QED
    BY <1>1, <2>1, QuietOthers
<1> QED
  BY <1>2, <1>3, <1>4 DEF HashIInv

\* Every step keeps the invariant.
LEMMA NextIInv ==
    ASSUME \A r \in Roles : SoleInserter(r), HashIInv, [Next]_vars
    PROVE  HashIInv'
<1>1. ASSUME NEW t \in Threads, Step(t) PROVE HashIInv'
  <2>1. ASSUME NEW key \in Keys,
               \/ InsertIndex(t, "insert", key) \/ InsertIndex(t, "insert_dup_check", key)
               \/ InsertLocked(t, key) \/ RemoveEntry(t, key)
               \/ SearchIndex(t, key) \/ SearchLocked(t, key)
        PROVE  HashIInv'
    BY <2>1, InsertIndexIInv, InsertLockedIInv, RemoveEntryIInv, SearchIndexIInv, SearchLockedIInv
  <2>2. CASE InsertDo(t) \/ WriteUnlock(t) \/ SearchScan(t) \/ ReadUnlock(t)
    BY <2>2, InsertDoIInv, WriteUnlockIInv, SearchScanIInv, ReadUnlockIInv
  <2>3. CASE IterateFirst(t) \/ IterateNext(t) \/ IterateLast(t)
    BY <2>3, IterateFirstIInv, IterateNextIInv, IterateLastIInv
  <2>4. CASE DrainFirst(t) \/ DrainStep(t) \/ Destroy(t)
    BY <2>4, DrainFirstIInv, DrainStepIInv, DestroyIInv
  <2> QED
    BY <1>1, <2>1, <2>2, <2>3, <2>4 DEF Step
<1> QED
  BY <1>1, StutterIInv DEF Next

\* When each thread that inserts without the write lock around it is the only
\* one to insert (SoleInserter, what MCKsHashRace shows ks_hash.c to need),
\* however threads insert, remove, search, iterate, drain and grow the table:
\* every live entry is in exactly one place, in the bucket of its key, a search
\* under the lock finds exactly what is there, and every iterator is at an
\* entry that is alive.
THEOREM HashTableSound ==
    ASSUME \A r \in Roles : SoleInserter(r)
    PROVE  Spec => [](TypeOK /\ HashSound)
<1>1. Init => HashIInv
  BY InitIInv
<1>2. HashIInv /\ [Next]_vars => HashIInv'
  BY NextIInv
<1>3. HashIInv => TypeOK /\ HashSound
  BY HashIInvMeans
<1> QED
  BY <1>1, <1>2, <1>3, PTL DEF Spec

\* The steps of an operation are those of its thread.
LEMMA OwnStep ==
    ASSUME HashIInv, NEW t \in Threads, NEW u \in Threads, Step(u), t # u
    PROVE  pc'[t] = pc[t]
<1>1. pc \in [Threads -> Locations]
  BY DEF HashIInv, HashTypes
<1>2. pc' = pc \/ \E w : pc' = [pc EXCEPT ![u] = w]
  BY DEF Step, InsertIndex, InsertLocked, RemoveEntry, SearchIndex, SearchLocked, InsertDo,
         WriteUnlock, SearchScan, ReadUnlock, IterateFirst, IterateNext, IterateLast,
         DrainFirst, DrainStep, Destroy, GoTo
<1> QED
  BY <1>1, <1>2

\* Where an iterator and the loop that empties the table can end.
LEMMA EndsBy ==
    ASSUME HashIInv, NEW t \in Threads, Step(t)
    PROVE  /\ pc[t] = "iterate" /\ pc'[t] = "last" => IterateNext(t)
           /\ pc[t] = "drain" /\ pc'[t] = "locked" => DrainStep(t)
<1>1. pc \in [Threads -> Locations]
  BY DEF HashIInv, HashTypes
<1>2. \/ pc[t] \notin {"iterate", "drain"} \/ IterateNext(t) \/ DrainStep(t)
      \/ IterateLast(t)
  BY DEF Step, InsertIndex, InsertLocked, RemoveEntry, SearchIndex, SearchLocked, InsertDo,
         WriteUnlock, SearchScan, ReadUnlock, IterateFirst, DrainFirst, Destroy, Calls
<1>3. IterateLast(t) => pc'[t] = "idle"
  BY <1>1 DEF IterateLast, GoTo
<1>4. IterateNext(t) => pc[t] = "iterate"
  BY DEF IterateNext
<1>5. DrainStep(t) => pc[t] = "drain"
  BY DEF DrainStep
<1> QED
  BY <1>2, <1>3, <1>4, <1>5

\* An iterator that ks_hash_next ends has been at every entry there is, and
\* the loop of testhash.c and ks_thread_pool.c that removes each entry behind
\* its iterator leaves the table empty.
THEOREM IteratorsComplete ==
    ASSUME \A r \in Roles : SoleInserter(r)
    PROVE  Spec => IterateAll
<1> DEFINE Ends(t) ==
             /\ pc[t] = "iterate" /\ pc'[t] = "last" => visited'[t] = Live'
             /\ pc[t] = "drain" /\ pc'[t] = "locked" => Live' = {}
<1>1. Init => HashIInv
  BY InitIInv
<1>2. HashIInv /\ [Next]_vars => HashIInv'
  BY NextIInv
<1>3. HashIInv /\ [Next]_vars => [\A t \in Threads : Ends(t)]_vars
  <2> SUFFICES ASSUME HashIInv, NEW u \in Threads, Step(u), NEW t \in Threads
               PROVE  Ends(t)
    BY DEF Next
  <2>1. CASE t # u
    BY <2>1, OwnStep
  <2>2. CASE t = u
    <3>1. ASSUME IterateNext(t), pc'[t] = "last" PROVE visited'[t] = Live'
      <4>1. visited'[t] = Live /\ UNCHANGED heap
        BY <3>1, IterateNextDoes
      <4> QED
        BY <4>1 DEF Live, heap
    <3>2. ASSUME DrainStep(t), pc'[t] = "locked" PROVE Live' = {}
      BY <3>2, DrainStepDoes
    <3> QED
      BY <2>2, <3>1, <3>2, EndsBy
  <2> QED
    BY <2>1, <2>2
<1> QED
  BY <1>1, <1>2, <1>3, PTL DEF Spec, IterateAll
=============================================================================
