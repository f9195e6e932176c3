----------------------------- MODULE KsListSort -----------------------------
(***************************************************************************)
(* Two algorithms over a whole list (src/simclist.c): ks_list_sort, a      *)
(* quicksort with a random pivot that leaves short runs to selection sort, *)
(* and the dump of a list into a file and its restoration.  A datum is     *)
(* [key, size]: the comparator orders keys, the meter or serializer says   *)
(* how many words of four bytes the datum takes in a file.                 *)
(***************************************************************************)
EXTENDS Integers, Sequences, FiniteSetsExt, SequencesExt, Functions

CONSTANTS SortKeys, Sizes,  \* of the data; sizes of at least one word
          MaxSort,          \* bound: length of the lists
          MinQuick          \* SIMCLIST_MINQUICKSORTELS: runs up to this are selection-sorted

VARIABLE job

ListJobs == UNION {[1..n -> [key : SortKeys, size : Sizes]] : n \in 0..MaxSort}

NewListJob(s) == [from |-> s, op |-> "idle", versus |-> 0, to |-> <<>>, ok |-> TRUE]

ListJobInit == \E s \in ListJobs : job = NewListJob(s)

Cmp(a, b) == (IF a.key < b.key THEN 1 ELSE 0) - (IF a.key > b.key THEN 1 ELSE 0)

Swapped(s, i, j) == [s EXCEPT ![i] = s[j], ![j] = s[i]]

(* ks_list_sort_selectionsort: the extreme of the rest goes first. *)
SelectionSort(s, versus) ==
    FoldLeft(LAMBDA t, i :
                 Swapped(t, i, FoldLeft(LAMBDA m, c : IF Cmp(t[m], t[c]) * (-versus) > 0 THEN c ELSE m,
                                        i, [k \in 1..(Len(t) - i) |-> i + k])),
             s, [i \in 1..(Len(s) - 1) |-> i])

-----------------------------------------------------------------------------
(* The partition around the pivot at place p: [s, p] when it is done.  First *)
(* left and right, outside the pivot, are exchanged in pairs.                *)
RECURSIVE Exchange(_, _, _, _, _)
Exchange(s, p, left, right, versus) ==
    LET l == Min({i \in left..p : i = p \/ Cmp(s[i], s[p]) * (-versus) > 0})
        r == Max({i \in p..right : i = p \/ Cmp(s[i], s[p]) * (-versus) < 0})
    IN  IF left = p \/ right = p THEN [s |-> s, left |-> left, right |-> right]
        ELSE IF l = p \/ r = p THEN [s |-> s, left |-> l, right |-> r]
        ELSE Exchange(Swapped(s, l, r), p, l + 1, r - 1, versus)

(* Then the side that is left over moves past the pivot one by one. *)
Turn(s, i, j, k) == [s EXCEPT ![i] = s[j], ![j] = s[k], ![k] = s[i]]

RECURSIVE LeftOver(_, _, _, _)
LeftOver(s, p, left, versus) ==
    IF left = p THEN [s |-> s, p |-> p]
    ELSE IF Cmp(s[left], s[p]) * (-versus) > 0
         THEN LET t == Turn(s, left, p - 1, p) IN LeftOver(t, p - 1, left, versus)
    ELSE LeftOver(s, p, left + 1, versus)

RECURSIVE RightOver(_, _, _, _)
RightOver(s, p, right, versus) ==
    IF right = p THEN [s |-> s, p |-> p]
    ELSE IF Cmp(s[right], s[p]) * (-versus) < 0
         THEN LET t == Turn(s, right, p + 1, p) IN RightOver(t, p + 1, right, versus)
    ELSE RightOver(s, p, right - 1, versus)

Partition(s, p, versus) ==
    LET e == Exchange(s, p, 1, Len(s), versus) IN
    IF e.right = p THEN LeftOver(e.s, p, e.left, versus) ELSE RightOver(e.s, p, e.right, versus)

(* ks_list_sort_quicksort, for every random choice of pivots. *)
RECURSIVE Quicksort(_, _)
Quicksort(s, versus) ==
    IF Len(s) <= Max({1, MinQuick}) THEN {SelectionSort(s, versus)}
    ELSE UNION {LET q == Partition(s, p, versus) IN
                {a \o <<q.s[q.p]>> \o b : a \in Quicksort(SubSeq(q.s, 1, q.p - 1), versus),
                                          b \in Quicksort(SubSeq(q.s, q.p + 1, Len(s)), versus)}
                : p \in 1..Len(s)}

-----------------------------------------------------------------------------
(* The file: words after the header.  A word is part i of a datum, a size,   *)
(* the terminator, or whatever lay behind a size in memory.                  *)
Part(d, i) == [is |-> "data", d |-> d, i |-> i]
SizeWord(n) == [is |-> "size", d |-> n, i |-> 0]
Stray == [is |-> "stray", d |-> 0, i |-> 0]
Terminator == [is |-> "term", d |-> 0, i |-> 0]

Parts(d) == [i \in 1..d.size |-> Part(d, i)]

Total(s) == FoldLeft(LAMBDA n, d : n + d.size, 0, s)

(* ks_list_dump_filedescriptor.  The size of the first datum is tried for    *)
(* all; at the first other size everything is written again, each datum      *)
(* behind its size, which is written with the width of a ks_size_t.  Only    *)
(* with a serializer is the file first wound back.                           *)
Dump(s, serializer) ==
    LET other == SelectInSeq(s, LAMBDA d : d.size # s[1].size)
        plain(t) == FlattenSeq([i \in DOMAIN t |-> Parts(t[i])])
        sized(t) == FlattenSeq([i \in DOMAIN t |-> <<SizeWord(t[i].size), Stray>> \o Parts(t[i])])
    IN  [elemlen |-> IF s = <<>> \/ other # 0 THEN 0 ELSE s[1].size,
         numels |-> Len(s), totlistlen |-> Total(s),
         words |-> (IF other = 0 THEN plain(s)
                    ELSE (IF serializer THEN <<>> ELSE plain(SubSeq(s, 1, other - 1))) \o sized(s))
                   \o <<Terminator>>]

(* ks_list_restore_filedescriptor: the data and the words read, or a read    *)
(* past the end of the file, which fails.  A datum is what its words say.    *)
(* Any other word in the place of a size is taken as a size beyond the file.  *)
Datum(w) == IF \E d \in {w[i].d : i \in {j \in DOMAIN w : w[j].is = "data"}} : w = Parts(d)
            THEN w[1].d ELSE [key |-> -1, size |-> Len(w)]

RECURSIVE RestoreEach(_, _, _, _)
RestoreEach(words, elemlen, n, got) ==
    IF n = 0 THEN [ok |-> TRUE, got |-> got, rest |-> words]
    ELSE LET size == IF elemlen > 0 THEN elemlen
                     ELSE IF words # <<>> /\ words[1].is = "size" THEN words[1].d ELSE Len(words) + 1
             from == IF elemlen > 0 THEN 0 ELSE 1
         IN  IF from + size > Len(words) THEN [ok |-> FALSE, got |-> got, rest |-> words]
             ELSE RestoreEach(SubSeq(words, from + size + 1, Len(words)), elemlen, n - 1,
                              Append(got, Datum(SubSeq(words, from + 1, from + size))))

Restore(f) ==
    LET r == RestoreEach(f.words, f.elemlen, f.numels, <<>>)
        read == Total(r.got)
        ended == r.ok /\ r.rest # <<>>
    IN  [ok |-> /\ ended
                /\ ~(read # f.totlistlen /\ r.rest[1] = Terminator)
                /\ Len(r.rest) = 1,
         got |-> r.got]

-----------------------------------------------------------------------------
SortList == \E versus \in {-1, 1} :
    /\ job.op = "idle"
    /\ \E s \in (IF Len(job.from) <= 1 THEN {job.from} ELSE Quicksort(job.from, versus)) :
          job' = [job EXCEPT !.op = "sort", !.versus = versus, !.to = s]

DumpRestore == \E serializer \in BOOLEAN :
    /\ job.op = "idle"
    /\ LET r == Restore(Dump(job.from, serializer)) IN
       job' = [job EXCEPT !.op = "dump", !.ok = r.ok, !.to = r.got]

ListJobNext == SortList \/ DumpRestore

-----------------------------------------------------------------------------
(* Every field holds a value of its type. *)
ListJobTypeOK == /\ job.from \in ListJobs /\ job.op \in {"idle", "sort", "dump"}
                 /\ job.versus \in {-1, 0, 1} /\ job.ok \in BOOLEAN
                 /\ \A i \in DOMAIN job.to : DOMAIN job.to[i] = {"key", "size"}

(* Whatever pivots come up, sorting loses and doubles nothing and leaves the *)
(* keys from small to big for a positive versus, from big to small for a     *)
(* negative one (ks_list_sort).                                              *)
Sorted ==
    job.op = "sort" =>
        /\ \A d \in Range(job.from) \cup Range(job.to) :
              Len(SelectSeq(job.from, LAMBDA x : x = d)) = Len(SelectSeq(job.to, LAMBDA x : x = d))
        /\ \A i \in 1..(Len(job.to) - 1) : job.to[i].key * job.versus <= job.to[i + 1].key * job.versus

(* A list whose data have one size comes back from its dump as it was        *)
(* (ks_list_dump_filedescriptor, ks_list_restore_filedescriptor).            *)
DumpsRestore ==
    job.op = "dump" /\ Cardinality({d.size : d \in Range(job.from)}) <= 1 =>
        job.ok /\ job.to = job.from
=============================================================================
