----------------------------- MODULE KJsonTree ------------------------------
(***************************************************************************)
(* JSON items in memory (src/include/cJSON/cJSON.c, behind src/ks_json.c): *)
(* items are cells of a heap, the children of an array or object are a     *)
(* doubly linked list that begins at child, and an item of an object has a *)
(* name of its own.  Beside the heap stands what the caller believes: the  *)
(* items it owns, and the sequence of children of each item.               *)
(*                                                                         *)
(* A heap without room is an allocation that fails.  References, which     *)
(* ks_json does not offer, are left out.                                   *)
(***************************************************************************)
EXTENDS Integers, Sequences, FiniteSetsExt, SequencesExt, Functions

CONSTANTS MaxItems,     \* cells of the heap
          JsonNames,    \* names: [n, fold], numbers in the order of strcmp; fold is the lower case
          MaxCalls      \* bound on the calls of the caller

ASSUME JsonConstants == MaxItems \in Nat \ {0} /\ MaxCalls \in Nat

VARIABLE json

Cells == 1..MaxItems
NoName == [n |-> 0, fold |-> 0]
NoCell == [kind |-> "free", next |-> 0, prev |-> 0, child |-> 0, name |-> NoName, const |-> FALSE]

(* strings: names in memory.  roots: items of the caller.  kids: what the    *)
(* caller put where.                                                         *)
NewJson == [heap |-> [i \in Cells |-> NoCell], strings |-> 0,
            roots |-> {}, kids |-> [i \in Cells |-> <<>>], calls |-> 0]

JsonInit == json = NewJson

Room == {i \in Cells : json.heap[i].kind = "free"}

(* The first k cells of S, in order; S is the free cells for an allocation.  *)
FirstCells(S, k) == [n \in 1..k |-> CHOOSE x \in S : Cardinality({y \in S : y < x}) = n - 1]
FreshCells(k) == FirstCells(Room, k)

-----------------------------------------------------------------------------
(* Walks the list from cell i; MaxItems steps are enough. *)
ListFrom(h, i) ==
    LET walk[n \in 0..MaxItems] ==
            IF n = 0 THEN (IF i = 0 THEN <<>> ELSE <<i>>)
            ELSE LET w == walk[n - 1] IN
                 IF w = <<>> \/ h[Last(w)].next = 0 THEN w ELSE Append(w, h[Last(w)].next)
    IN  walk[MaxItems]

(* get_array_item, get_object_item: the cell, or 0. *)
ArrayItem(h, c, index) ==
    LET list == ListFrom(h, h[c].child) IN IF index < Len(list) THEN list[index + 1] ELSE 0

ObjectItem(h, c, name, case_sensitive) ==
    LET list == ListFrom(h, h[c].child)
        at == SelectInSeq(list, LAMBDA i : IF case_sensitive THEN h[i].name.n = name.n
                                           ELSE h[i].name.fold = name.fold)
    IN  IF at = 0 THEN 0 ELSE list[at]

(* kJSON_Delete: everything reached over child and next.  One name less for  *)
(* each name that was a copy.                                                *)
Reached(h, i) ==
    LET reach[n \in 0..MaxItems] ==
            IF n = 0 THEN {i} \ {0}
            ELSE LET r == reach[n - 1] IN
                 r \cup (({h[x].child : x \in r} \cup {h[x].next : x \in r}) \ {0})
    IN  reach[MaxItems]

Copies(h, S) == Cardinality({i \in S : h[i].name # NoName /\ ~h[i].const})

DeleteItem(j, i) ==
    LET S == Reached(j.heap, i) IN
    [j EXCEPT !.heap = [x \in Cells |-> IF x \in S THEN NoCell ELSE j.heap[x]],
              !.strings = @ - Copies(j.heap, S), !.roots = @ \ S,
              !.kids = [x \in Cells |-> IF x \in S THEN <<>> ELSE @[x]]]

(* add_item_to_array: behind the last child. *)
AddItem(j, c, i) ==
    LET list == ListFrom(j.heap, j.heap[c].child) IN
    [j EXCEPT !.heap = IF list = <<>> THEN [@ EXCEPT ![c].child = i]
                       ELSE [@ EXCEPT ![Last(list)].next = i, ![i].prev = Last(list)],
              !.roots = @ \ {i}, !.kids[c] = Append(@, i)]

(* The name of an item is replaced: the old copy is freed, and a new one     *)
(* made unless the caller's own string is kept.                              *)
Rename(j, i, name, const) ==
    [j EXCEPT !.strings = @ - Copies(j.heap, {i}) + (IF const THEN 0 ELSE 1),
              !.heap[i].name = name, !.heap[i].const = const]

(* Mutant: the next item keeps pointing back at the one that left. *)
DetachHead(j, c, i) ==
    LET p == j.heap[i].prev  n == j.heap[i].next
        h1 == IF p # 0 THEN [j.heap EXCEPT ![p].next = n] ELSE j.heap
        h3 == IF h1[c].child = i THEN [h1 EXCEPT ![c].child = n] ELSE h1
    IN  [j EXCEPT !.heap = [h3 EXCEPT ![i].next = 0, ![i].prev = 0],
                  !.roots = @ \cup {i},
                  !.kids[c] = RemoveAt(@, SelectInSeq(@, LAMBDA x : x = i))]

(* kJSON_DetachItemViaPointer *)
Detach(j, c, i) ==
    LET p == j.heap[i].prev  n == j.heap[i].next
        h1 == IF p # 0 THEN [j.heap EXCEPT ![p].next = n] ELSE j.heap
        h2 == IF n # 0 THEN [h1 EXCEPT ![n].prev = p] ELSE h1
        h3 == IF h2[c].child = i THEN [h2 EXCEPT ![c].child = n] ELSE h2
    IN  [j EXCEPT !.heap = [h3 EXCEPT ![i].next = 0, ![i].prev = 0],
                  !.roots = @ \cup {i},
                  !.kids[c] = RemoveAt(@, SelectInSeq(@, LAMBDA x : x = i))]

(* kJSON_InsertItemInArray: before the item that is there, else at the end.  *)
InsertBefore(j, c, index, i) ==
    LET after == ArrayItem(j.heap, c, index)
        p == j.heap[after].prev
        h1 == [j.heap EXCEPT ![i].next = after, ![i].prev = p, ![after].prev = i]
        h2 == IF h1[c].child = after THEN [h1 EXCEPT ![c].child = i] ELSE [h1 EXCEPT ![p].next = i]
    IN  IF after = 0 THEN AddItem(j, c, i)
        ELSE [j EXCEPT !.heap = h2, !.roots = @ \ {i}, !.kids[c] = InsertAt(@, index + 1, i)]

(* kJSON_ReplaceItemViaPointer: the new item takes the place of the old one, *)
(* which is deleted; nothing happens if there is no old one.                 *)
Replace(j, c, old, i) ==
    LET p == j.heap[old].prev  n == j.heap[old].next
        h1 == [j.heap EXCEPT ![i].next = n, ![i].prev = p]
        h2 == IF n # 0 THEN [h1 EXCEPT ![n].prev = i] ELSE h1
        h3 == IF p # 0 THEN [h2 EXCEPT ![p].next = i] ELSE h2
        h4 == IF h3[c].child = old THEN [h3 EXCEPT ![c].child = i] ELSE h3
        k == [j EXCEPT !.heap = [h4 EXCEPT ![old].next = 0, ![old].prev = 0],
                       !.roots = @ \ {i},
                       !.kids[c] = ReplaceAt(@, SelectInSeq(@, LAMBDA x : x = old), i)]
    IN  IF old = 0 THEN j ELSE DeleteItem(k, old)

-----------------------------------------------------------------------------
(* The caller's calls.  It hands over only an item that it owns, and never   *)
(* puts an item into itself.                                                 *)
Owned == json.roots
Called(j) == json.calls < MaxCalls /\ json' = [j EXCEPT !.calls = @ + 1]
Containers(kind) == {c \in Cells : json.heap[c].kind = kind}
Outside(c, i) == c \notin Reached(json.heap, i)

CreateItem == \E kind \in {"array", "object", "value"} :
    /\ Room # {}
    /\ Called([json EXCEPT !.heap[FreshCells(1)[1]].kind = kind,
                            !.roots = @ \cup {FreshCells(1)[1]}])

(* kJSON_CreateIntArray and its like: an array of two values, all or nothing *)
CreateValues ==
    /\ Cardinality(Room) >= 3
    /\ LET f == FreshCells(3)
           cell == [NoCell EXCEPT !.kind = "value"]
       IN  Called([json EXCEPT !.roots = @ \cup {f[1]}, !.kids[f[1]] = <<f[2], f[3]>>,
                      !.heap[f[1]] = [NoCell EXCEPT !.kind = "array", !.child = f[2]],
                      !.heap[f[2]] = [cell EXCEPT !.next = f[3]],
                      !.heap[f[3]] = [cell EXCEPT !.prev = f[2]]])

AddToArray == \E c \in Containers("array"), i \in Owned :
    Outside(c, i) /\ Called(AddItem(json, c, i))

AddToObject == \E c \in Containers("object"), i \in Owned, name \in JsonNames, const \in BOOLEAN :
    Outside(c, i) /\ Called(AddItem(Rename(json, i, name, const), c, i))

DetachFromArray == \E c \in Containers("array"), index \in 0..1 :
    LET i == ArrayItem(json.heap, c, index) IN i # 0 /\ Called(Detach(json, c, i))

DetachFromObject == \E c \in Containers("object"), name \in JsonNames, cs \in BOOLEAN :
    LET i == ObjectItem(json.heap, c, name, cs) IN i # 0 /\ Called(Detach(json, c, i))

DeleteFromArray == \E c \in Containers("array"), index \in 0..1 :
    LET i == ArrayItem(json.heap, c, index) IN
    i # 0 /\ Called(DeleteItem(Detach(json, c, i), i))

(* ks_json_delete_item_from_object does not look at the case of the name. *)
DeleteFromObject == \E c \in Containers("object"), name \in JsonNames :
    LET i == ObjectItem(json.heap, c, name, FALSE) IN
    i # 0 /\ Called(DeleteItem(Detach(json, c, i), i))

InsertInArray == \E c \in Containers("array"), i \in Owned, index \in 0..1 :
    Outside(c, i) /\ Called(InsertBefore(json, c, index, i))

ReplaceInArray == \E c \in Containers("array"), i \in Owned, index \in 0..1 :
    Outside(c, i) /\ Called(Replace(json, c, ArrayItem(json.heap, c, index), i))

(* The name changes even if nothing is replaced. *)
ReplaceInObject == \E c \in Containers("object"), i \in Owned, name \in JsonNames, cs \in BOOLEAN :
    /\ Outside(c, i)
    /\ Called(Replace(Rename(json, i, name, FALSE), c, ObjectItem(json.heap, c, name, cs), i))

DeleteOwned == \E i \in Owned : Called(DeleteItem(json, i))

(* kJSON_Duplicate of a whole tree, all or nothing. *)
Duplicate == \E i \in Cells :
    LET S == Reached([json.heap EXCEPT ![i].next = 0], i)
        src == FirstCells(S, Cardinality(S))
        f == FreshCells(Cardinality(S))
        To(x) == IF x = 0 \/ x \notin S THEN 0 ELSE f[SelectInSeq(src, LAMBDA y : y = x)]
        From(x) == src[SelectInSeq(f, LAMBDA y : y = x)]
    IN  /\ json.heap[i].kind # "free" /\ Cardinality(S) <= Cardinality(Room)
        /\ Called([json EXCEPT
               !.heap = [x \in Cells |->
                  IF x \notin Range(f) THEN @[x]
                  ELSE [@[From(x)] EXCEPT !.next = IF From(x) = i THEN 0 ELSE To(@),
                                          !.prev = IF From(x) = i THEN 0 ELSE To(@),
                                          !.child = To(@)]],
               !.strings = @ + Copies(json.heap, S), !.roots = @ \cup {To(i)},
               !.kids = [x \in Cells |-> IF x \notin Range(f) THEN @[x]
                                         ELSE [k \in DOMAIN @[From(x)] |-> To(@[From(x)][k])]]])

JsonNext == \/ CreateItem \/ CreateValues \/ AddToArray \/ AddToObject \/ DetachFromArray
            \/ DetachFromObject \/ DeleteFromArray \/ DeleteFromObject \/ InsertInArray
            \/ ReplaceInArray \/ ReplaceInObject \/ DeleteOwned \/ Duplicate

-----------------------------------------------------------------------------
(* Links stay within the heap, and no name is freed twice.                   *)
JsonTypeOK ==
    /\ \A i \in Cells : /\ json.heap[i].kind \in {"free", "array", "object", "value"}
                        /\ {json.heap[i].next, json.heap[i].prev, json.heap[i].child} \subseteq 0..MaxItems
    /\ json.strings \in 0..MaxItems /\ json.roots \subseteq Cells

(* After any sequence of calls the lists are what the caller asked for: the   *)
(* children of every item in order, each linked back to the one before it;    *)
(* every item in memory is owned by the caller or is in exactly one list; and *)
(* there is one copied name for each item that has one.                       *)
ListsAgree ==
    LET live == {i \in Cells : json.heap[i].kind # "free"} IN
    /\ \A c \in live :
         LET list == ListFrom(json.heap, json.heap[c].child) IN
         /\ list = json.kids[c]
         /\ \A k \in DOMAIN list :
               json.heap[list[k]].prev = IF k = 1 THEN 0 ELSE list[k - 1]
    /\ \A i \in live : IF i \in json.roots THEN \A c \in live : ~Contains(json.kids[c], i)
                       ELSE \E c \in live : Contains(json.kids[c], i)
    /\ \A i \in Cells \ live : i \notin json.roots /\ \A c \in live : ~Contains(json.kids[c], i)
    /\ json.strings = Copies(json.heap, live)
=============================================================================
