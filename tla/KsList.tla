------------------------------- MODULE KsList -------------------------------
(***************************************************************************)
(* The doubly linked list of libks (src/simclist.c): entries between two   *)
(* sentinels, a pointer to the middle entry from which positions are found *)
(* in at most a quarter of the list, spare entries kept for the next       *)
(* insertion, and one iterator that is part of the list.  `want' is the    *)
(* sequence of data the calls so far should have left.                     *)
(*                                                                         *)
(* One caller: every operation is one action.  The operations test numels  *)
(* and iter_active before they take the lock, so callers that share a list *)
(* need a lock of their own.                                               *)
(***************************************************************************)
EXTENDS Integers, Sequences, FiniteSetsExt, SequencesExt, Functions

CONSTANTS MaxEls,           \* bound: entries allocated at once
          ListData,         \* the data; numbers, in the comparator's order
          MaxSpare,         \* SIMCLIST_MAX_SPARE_ELEMS
          MaxIterDeletes    \* bound: ks_list_delete_iterator calls in one iteration

ASSUME ListConstants == /\ MaxEls \in Nat \ {0} /\ MaxSpare \in Nat /\ MaxIterDeletes \in Nat
                        /\ ListData \subseteq Nat

VARIABLE list

NullNode == -1
HeadNode == 0
TailNode == MaxEls + 1
ListEntries == 1..MaxEls
Nodes == 0..(MaxEls + 1)

NoIter == [active |-> FALSE, pos |-> 0, cur |-> NullNode, last |-> NullNode, deletes |-> 0]

(* copy: attrs.copy_data; copies: the data the list has allocated for it.    *)
NewList(copy) ==
    [next |-> [n \in Nodes |-> IF n = HeadNode THEN TailNode ELSE NullNode],
     prev |-> [n \in Nodes |-> IF n = TailNode THEN HeadNode ELSE NullNode],
     data |-> [n \in Nodes |-> 0], live |-> {}, spare |-> <<>>,
     numels |-> 0, mid |-> NullNode, iter |-> NoIter,
     copy |-> copy, copies |-> 0, want |-> <<>>]

ListInit == \E copy \in BOOLEAN : list = NewList(copy)

Follow(f, from, k) ==
    LET walk[i \in 0..k] == IF i = 0 THEN from ELSE f[walk[i - 1]] IN walk[k]

(* The last entry of the first half. *)
MidPos(numels) == (numels - 1) \div 2

(* ks_list_findpos: from the nearest of head, middle and tail.  An empty     *)
(* list is searched from the tail: x is then not a number, or infinite.      *)
ListFindPos(l, pos) ==
    LET x4 == 4 * (pos + 1) IN
    IF pos < -1 \/ pos > l.numels THEN NullNode
    ELSE IF l.numels > 0 /\ x4 <= l.numels THEN Follow(l.next, HeadNode, pos + 1)
    ELSE IF l.numels > 0 /\ x4 < 2 * l.numels
         THEN Follow(l.prev, l.mid, Max({0, MidPos(l.numels) - pos}))
    ELSE IF l.numels > 0 /\ x4 <= 3 * l.numels
         THEN Follow(l.next, l.mid, Max({0, pos - MidPos(l.numels)}))
    ELSE Follow(l.prev, TailNode, l.numels - pos)

-----------------------------------------------------------------------------
Link(l, a, b) == [l EXCEPT !.next[a] = b, !.prev[b] = a]

(* Entries that leave the list become spares as long as there is room.  What *)
(* they hold is written before it is read again, and is blank here.          *)
Release(l, S) ==
    LET room == SubSeq(S, 1, Min({Len(S), MaxSpare - Len(l.spare)}))
        blank(f, v) == [n \in Nodes |-> IF n \in Range(S) THEN v ELSE f[n]]
    IN
    [l EXCEPT !.next = blank(@, NullNode), !.prev = blank(@, NullNode), !.data = blank(@, 0),
              !.spare = @ \o room, !.live = @ \ (Range(S) \ Range(room)),
              !.copies = IF l.copy THEN @ - Len(S) ELSE @]

(* ks_list_insert_at *)
LinkIn(l, v, pos) ==
    LET node == IF l.spare # <<>> THEN Last(l.spare)
                ELSE CHOOSE n \in ListEntries \ l.live : \A m \in ListEntries \ l.live : n <= m
        prec == ListFindPos(l, pos - 1)
        succ == l.next[prec]
        numels == l.numels + 1
        in == [Link(Link(l, prec, node), node, succ) EXCEPT
                  !.data[node] = v, !.numels = numels, !.live = @ \cup {node},
                  !.spare = IF @ # <<>> THEN Front(@) ELSE @,
                  !.copies = IF l.copy THEN @ + 1 ELSE @,
                  !.want = InsertAt(@, pos + 1, v)]
    IN  [in EXCEPT !.mid =
            IF numels = 1 THEN node
            ELSE IF numels % 2 = 1 THEN (IF pos >= MidPos(numels) THEN in.next[@] ELSE @)
            ELSE (IF pos <= MidPos(numels) THEN in.prev[@] ELSE @)]

(* Mutant: the middle stays where it is when it is itself dropped. *)
DropElemLate(l, node, pos) ==
    LET mid == IF l.numels = 1 THEN NullNode
               ELSE IF l.numels % 2 = 1 /\ pos > l.numels \div 2 THEN l.prev[l.mid]
               ELSE IF l.numels % 2 = 0 /\ pos < l.numels \div 2 THEN l.next[l.mid]
               ELSE l.mid
    IN  Release([Link(l, l.prev[node], l.next[node]) EXCEPT !.mid = mid, !.numels = @ - 1], <<node>>)

(* ks_list_drop_elem and the numels-- of its callers. *)
DropElem(l, node, pos) ==
    LET mid == IF l.numels = 1 THEN NullNode
               ELSE IF l.numels % 2 = 1 /\ pos >= l.numels \div 2 THEN l.prev[l.mid]
               ELSE IF l.numels % 2 = 0 /\ pos < l.numels \div 2 THEN l.next[l.mid]
               ELSE l.mid
    IN  Release([Link(l, l.prev[node], l.next[node]) EXCEPT !.mid = mid, !.numels = @ - 1], <<node>>)

(* The entries, from the first to the last. *)
Contents(l) == [i \in 1..l.numels |-> Follow(l.next, HeadNode, i)]

-----------------------------------------------------------------------------
ListIdle == ~list.iter.active

(* ks_list_insert_at; ks_list_append and ks_list_prepend choose the position.*)
ListInsert ==
    \E v \in ListData, pos \in 0..list.numels :
        /\ ListIdle
        /\ list.spare # <<>> \/ Cardinality(list.live) < MaxEls
        /\ list' = LinkIn(list, v, pos)

(* ks_list_extract_at, ks_list_fetch: the data is the caller's from now on. *)
ListExtract ==
    \E pos \in 0..(list.numels - 1) :
        /\ ListIdle
        /\ LET node == ListFindPos(list, pos) IN
           list' = [DropElem([list EXCEPT !.data[node] = 0], node, pos) EXCEPT
                        !.want = RemoveAt(@, pos + 1)]

(* ks_list_locate: the first entry the comparator calls equal, or -1. *)
Locate(l, v) == SelectInSeq(Contents(l), LAMBDA n : l.data[n] = v) - 1

(* ks_list_get_minmax with a ready-made comparator, which is positive when    *)
(* its first argument is the smaller one: the datum, or 0 for none.          *)
Comparator(a, b) == (IF a < b THEN 1 ELSE 0) - (IF a > b THEN 1 ELSE 0)

MinMax(l, versus) ==
    LET in == Contents(l)
        cur[i \in 1..l.numels] ==
            IF i = 1 THEN l.data[l.next[HeadNode]]
            ELSE IF Comparator(cur[i - 1], l.data[in[i]]) * versus > 0 THEN l.data[in[i]]
            ELSE cur[i - 1]
    IN  IF l.numels = 0 THEN 0 ELSE cur[l.numels]

(* ks_list_delete_at; ks_list_delete has the position from ks_list_locate.   *)
ListDeleteAt(pos) ==
    /\ ListIdle /\ pos \in 0..(list.numels - 1)
    /\ list' = [DropElem(list, ListFindPos(list, pos), pos) EXCEPT !.want = RemoveAt(@, pos + 1)]

ListDelete == \/ \E pos \in 0..(list.numels - 1) : ListDeleteAt(pos)
              \/ \E v \in ListData : ListDeleteAt(Locate(list, v))

(* ks_list_clear, and ks_list_delete_range of everything. *)
Cleared(l) ==
    [Release(Link(l, HeadNode, TailNode), Contents(l)) EXCEPT !.numels = 0, !.mid = NullNode, !.want = <<>>]

ListClear == ListIdle /\ list' = Cleared(list)

(* ks_list_delete_range: the middle moves first, over entries still linked.  *)
DeleteRange(l, posstart, posend) ==
    LET numdel == posend - posstart + 1
        first == ListFindPos(l, posstart)
        doomed == [i \in 1..numdel |-> Follow(l.next, first, i - 1)]
        after == (l.numels - 1 - numdel) \div 2
        midpos == IF after < posstart THEN after ELSE after + numdel
        movedx == midpos - MidPos(l.numels)
        mid == IF movedx > 0 THEN Follow(l.next, l.mid, movedx) ELSE Follow(l.prev, l.mid, -movedx)
    IN  Release([Link(l, l.prev[first], l.next[Last(doomed)]) EXCEPT
                    !.mid = mid, !.numels = @ - numdel,
                    !.want = SubSeq(@, 1, posstart) \o SubSeq(@, posend + 2, Len(@))], doomed)

ListDeleteRange ==
    \E posstart, posend \in 0..(list.numels - 1) :
        /\ ListIdle /\ posstart <= posend
        /\ list' = IF posend - posstart + 1 = list.numels THEN Cleared(list)
                   ELSE DeleteRange(list, posstart, posend)

(* ks_list_concat into a new list, which takes the place of this one.  The   *)
(* middle starts at the last entry of l1.                                    *)
Concat(s1, s2) ==
    LET n1 == Len(s1)  n2 == Len(s2)  n == n1 + n2
        l == [NewList(FALSE) EXCEPT
                 !.next = [i \in Nodes |-> IF i = n THEN TailNode ELSE IF i < n THEN i + 1 ELSE NullNode],
                 !.prev = [i \in Nodes |-> IF i = TailNode THEN n ELSE IF i \in 1..n THEN i - 1 ELSE NullNode],
                 !.data = [i \in Nodes |-> IF i \in 1..n THEN (s1 \o s2)[i] ELSE 0],
                 !.numels = n, !.live = 1..n, !.want = s1 \o s2]
        err == n2 - n1
    IN  IF n = 0 THEN NewList(FALSE)
        ELSE [l EXCEPT !.mid = IF err > 0 THEN Follow(l.next, n1, (err + 1) \div 2)
                               ELSE Follow(l.prev, n1, (-err) \div 2)]

ListConcat ==
    \E s \in {Contents(list)} \cup {SubSeq(Contents(list), 1, k) : k \in 0..list.numels},
       before \in BOOLEAN :
        /\ Len(s) + list.numels <= MaxEls
        /\ LET other == [i \in DOMAIN s |-> list.data[s[i]]] IN
           list' = IF before THEN Concat(other, list.want) ELSE Concat(list.want, other)

-----------------------------------------------------------------------------
ListIterStart == /\ ListIdle
                 /\ list' = [list EXCEPT !.iter = [NoIter EXCEPT !.active = TRUE, !.cur = list.next[HeadNode]]]

(* ks_list_iterator_next, asked as long as ks_list_iterator_hasnext says so. *)
ListIterNext ==
    /\ list.iter.active /\ list.iter.pos < list.numels
    /\ list' = [list EXCEPT !.iter.cur = list.next[@], !.iter.last = list.iter.cur, !.iter.pos = @ + 1]

(* ks_list_delete_iterator, on an entry ks_list_iterator_next has returned.  *)
(* iter_pos stays what it was.                                               *)
ListIterDelete ==
    LET it == list.iter  pos == it.pos - 1 IN
    /\ it.active /\ it.pos <= list.numels /\ it.last # NullNode /\ it.deletes < MaxIterDeletes
    /\ list' = [DropElem(list, ListFindPos(list, pos), pos) EXCEPT
                   !.iter.last = NullNode, !.iter.deletes = @ + 1,
                   !.want = RemoveAt(@, SelectInSeq(Contents(list), LAMBDA n : n = it.last))]

ListIterStop == list.iter.active /\ list' = [list EXCEPT !.iter = NoIter]

ListNext ==
    \/ ListInsert \/ ListExtract \/ ListDelete \/ ListClear \/ ListDeleteRange \/ ListConcat
    \/ ListIterStart \/ ListIterNext \/ ListIterDelete \/ ListIterStop

ListSpec == ListInit /\ [][ListNext]_list

-----------------------------------------------------------------------------
(* Every field holds a value of its type; links lead to nodes or nowhere. *)
ListTypeOK ==
    /\ list.next \in [Nodes -> Nodes \cup {NullNode}] /\ list.prev \in [Nodes -> Nodes \cup {NullNode}]
    /\ list.data \in [Nodes -> ListData \cup {0}]
    /\ list.live \subseteq ListEntries /\ list.spare \in Seq(ListEntries)
    /\ list.numels \in 0..MaxEls /\ list.mid \in ListEntries \cup {NullNode}
    /\ list.iter \in [active : BOOLEAN, pos : 0..MaxEls, cur : Nodes \cup {NullNode},
                      last : Nodes \cup {NullNode}, deletes : 0..MaxIterDeletes]
    /\ list.copy \in BOOLEAN /\ list.copies \in Int /\ list.want \in Seq(ListData)

(* What ks_list_repOk asserts after every change (the links agree in both    *)
(* directions and mid is the middle entry), and that spares are no entries.  *)
RepOk ==
    LET in == Contents(list) IN
    /\ Cardinality(Range(in)) = list.numels
    /\ \A n \in Range(in) \cup {HeadNode} : list.next[n] # NullNode /\ list.prev[list.next[n]] = n
    /\ Follow(list.next, HeadNode, list.numels + 1) = TailNode
    /\ list.mid = IF list.numels = 0 THEN NullNode ELSE in[MidPos(list.numels) + 1]
    /\ Len(list.spare) <= MaxSpare
    /\ list.live = Range(in) \cup Range(list.spare)
    /\ Cardinality(list.live) = list.numels + Len(list.spare)

(* Each position, the sentinels' included, is found wherever the search      *)
(* starts, and holds the datum the calls so far have put there, so that      *)
(* searches for a datum, the least and the greatest find them; the list owns *)
(* one copy per entry, if it copies.                                         *)
SameElements ==
    /\ [i \in 1..list.numels |-> list.data[ListFindPos(list, i - 1)]] = list.want
    /\ ListFindPos(list, -1) = HeadNode /\ ListFindPos(list, list.numels) = TailNode
    /\ \A v \in ListData : Locate(list, v) = SelectInSeq(list.want, LAMBDA x : x = v) - 1
    /\ list.numels > 0 => /\ MinMax(list, 1) = Max(Range(list.want))
                          /\ MinMax(list, -1) = Min(Range(list.want))
    /\ list.copies = IF list.copy THEN list.numels ELSE 0

(* An iteration goes on with an entry of the list, or is at its end. *)
IterLive == list.iter.active => list.iter.cur \in Range(Contents(list)) \cup {TailNode}

(* The three above. *)
ListSound == RepOk /\ SameElements /\ IterLive
=============================================================================
