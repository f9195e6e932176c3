----------------------------- MODULE KJsonPatch -----------------------------
(***************************************************************************)
(* JSON pointers, patches and merge patches (src/include/cJSON/            *)
(* cJSON_Utils.c).  Items are those of KJsonText.  A pointer is the        *)
(* sequence of what stands between its slashes, as bytes; a place is the   *)
(* sequence of the positions that lead to it from the root.                *)
(*                                                                         *)
(* Patches are applied to a copy of their own.  compare_json sorts the     *)
(* objects it compares; here a test leaves them as they are, which no      *)
(* later step but a printer can tell.                                      *)
(***************************************************************************)
EXTENDS KJsonText

CONSTANTS PatchJobs      \* what is asked: a sequence of sets of DiffJob, MergeJob, ApplyJob or PointerJob

VARIABLE pat

NoPlace == <<0>>
NoItem == Literal("none")
Minus == <<45>>
IndexStep(n) == <<48 + n>>                      \* one digit

RECURSIVE ItemAt(_, _), PutAt(_, _, _)
ItemAt(i, place) == IF place = <<>> THEN i ELSE ItemAt(i.kids[Head(place)].i, Tail(place))
PutAt(i, place, new) ==
    IF place = <<>> THEN new
    ELSE [i EXCEPT !.kids[Head(place)].i = PutAt(@, Tail(place), new)]

(* encode_string_as_pointer: a slash becomes junk, what the memory held, and *)
(* a 1; a tilde becomes what stands for a slash.                             *)
EncodeStep(name, junk) ==
    LET one(b) == CASE b = 47 -> <<junk, 49>> [] b = 126 -> <<126, 49>> [] OTHER -> <<b>>
    IN  FoldLeft(LAMBDA out, b : out \o one(b), <<>>, name)

(* compare_pointers: does the step mean this name? *)
RECURSIVE Means(_, _, _)
Means(name, step, case_sensitive) ==
    IF name = <<>> \/ step = <<>> THEN name = <<>> /\ step = <<>>
    ELSE IF step[1] = 126
         THEN /\ Len(step) > 1 /\ <<step[2], name[1]>> \in {<<48, 126>>, <<49, 47>>}
              /\ Means(Tail(name), SubSeq(step, 3, Len(step)), case_sensitive)
    ELSE SameName(<<name[1]>>, <<step[1]>>, case_sensitive) /\ Means(Tail(name), Tail(step), case_sensitive)

(* decode_array_index_from_pointer: -1 if it is none.  Behind a digit, every *)
(* byte from '0' on counts.                                                  *)
IndexOf(step) ==
    IF step = <<>> THEN 0
    ELSE IF (step[1] = 48 /\ Len(step) > 1) \/ step[1] > 57 \/ (\E n \in DOMAIN step : step[n] < 48) THEN -1
    ELSE FoldLeft(LAMBDA v, b : 10 * v + b - 48, 0, step)

Without(kids, n) == IF n = 0 THEN kids ELSE RemoveAt(kids, n)

(* get_item_from_pointer: the place, or NoPlace. *)
ChildAt(i, step, case_sensitive) ==
    CASE i.t = "array" -> IndexOf(step) + 1
      [] i.t = "object" -> SelectInSeq(i.kids, LAMBDA kid : Means(kid.k, step, case_sensitive))
      [] OTHER -> 0
Below(n, place) == IF place = NoPlace THEN NoPlace ELSE <<n>> \o place
RECURSIVE PlaceOf(_, _, _), PlaceIn(_, _, _, _)
PlaceIn(i, n, path, case_sensitive) ==
    IF n \notin DOMAIN i.kids THEN NoPlace
    ELSE Below(n, PlaceOf(i.kids[n].i, Tail(path), case_sensitive))
PlaceOf(i, path, case_sensitive) ==
    IF path = <<>> THEN <<>>
    ELSE PlaceIn(i, ChildAt(i, path[1], case_sensitive), path, case_sensitive)

(* decode_pointer_inplace reads at i and writes at j; a byte that is no      *)
(* escape is not moved, and the slash of ~1 goes one byte too far.           *)
RECURSIVE DecodeFrom(_, _, _)
DecodeFrom(b, i, j) ==
    IF i > Len(b) THEN SubSeq(b, 1, j - 1)
    ELSE IF b[i] # 126 THEN DecodeFrom(b, i + 1, j + 1)
    ELSE IF i = Len(b) \/ b[i + 1] \notin {48, 49} THEN b
    ELSE IF b[i + 1] = 48 THEN DecodeFrom([b EXCEPT ![j] = 126], i + 2, j + 1)
    ELSE DecodeFrom([b EXCEPT ![j + 1] = 47], i + 2, j + 1)
DecodeInplace(step) == DecodeFrom(step, 1, 1)

-----------------------------------------------------------------------------
(* detach_path: a name is looked up whatever its case. *)
Detached(ok, doc, item) == [ok |-> ok, doc |-> doc, item |-> item]
DetachNth(doc, place, parent, n) ==
    IF n \notin DOMAIN parent.kids THEN Detached(FALSE, doc, NoItem)
    ELSE Detached(TRUE, PutAt(doc, place, [parent EXCEPT !.kids = RemoveAt(@, n)]), parent.kids[n].i)
DetachFrom(doc, place, parent, step) ==
    DetachNth(doc, place, parent, CASE parent.t = "array" -> IndexOf(step) + 1
                                    [] parent.t = "object" -> KidAt(parent, step, FALSE)
                                    [] OTHER -> 0)
DetachAt(doc, place, step) ==
    IF place = NoPlace THEN Detached(FALSE, doc, NoItem)
    ELSE DetachFrom(doc, place, ItemAt(doc, place), step)
DetachPath(doc, path, case_sensitive) ==
    IF path = <<>> THEN Detached(FALSE, doc, NoItem)
    ELSE DetachAt(doc, PlaceOf(doc, Front(path), case_sensitive), DecodeInplace(Last(path)))

(* The end of apply_patch: value becomes the item at path.  The new kids of  *)
(* its parent, or the status.                                                *)
Result(doc, status) == [doc |-> doc, status |-> status]
InsertKid(kids, index, value) ==
    IF index < 0 THEN Result(kids, 11)
    ELSE IF index > Len(kids) THEN Result(kids, 10)
    ELSE Result(InsertAt(kids, index + 1, [k |-> <<>>, i |-> value]), 0)
AddKid(parent, step, value, case_sensitive) ==
    CASE parent.t = "array" ->
            InsertKid(parent.kids, IF step = Minus THEN Len(parent.kids) ELSE IndexOf(step), value)
      [] parent.t = "object" ->
            Result(Append(Without(parent.kids, KidAt(parent, step, case_sensitive)),
                          [k |-> step, i |-> value]), 0)
      [] OTHER -> Result(parent.kids, 9)
PutKids(doc, place, kids) ==
    IF kids.status # 0 THEN Result(doc, kids.status)
    ELSE Result(PutAt(doc, place, [ItemAt(doc, place) EXCEPT !.kids = kids.doc]), 0)
AddIn(doc, place, step, value, case_sensitive) ==
    IF place = NoPlace THEN Result(doc, 9)
    ELSE PutKids(doc, place, AddKid(ItemAt(doc, place), step, value, case_sensitive))
AddAt(doc, path, value, case_sensitive) ==
    IF path = <<>> THEN Result(doc, 9)
    ELSE AddIn(doc, PlaceOf(doc, Front(path), case_sensitive), DecodeInplace(Last(path)), value,
               case_sensitive)

(* compare_json *)
RECURSIVE SortKids(_, _)
StrLess(a, b) ==
    \E n \in 0..Len(a) : /\ n < Len(b) /\ SubSeq(a, 1, n) = SubSeq(b, 1, n)
                         /\ n = Len(a) \/ a[n + 1] < b[n + 1]
NameLess(a, b, case_sensitive) == IF case_sensitive THEN StrLess(a, b) ELSE StrLess(Lower(a), Lower(b))

(* sort_list: a list that is sorted stays as it is, else its halves are      *)
(* sorted and merged, and the merge never looks at the case.                 *)
RECURSIVE MergeKids(_, _)
MergeKids(a, b) ==
    IF a = <<>> \/ b = <<>> THEN a \o b
    ELSE IF NameLess(a[1].k, b[1].k, FALSE) THEN <<a[1]>> \o MergeKids(Tail(a), b)
    ELSE <<b[1]>> \o MergeKids(a, Tail(b))
SortKids(kids, case_sensitive) ==
    LET half == (Len(kids) + 1) \div 2 IN
    IF \A n \in 1..(Len(kids) - 1) : NameLess(kids[n].k, kids[n + 1].k, case_sensitive) THEN kids
    ELSE MergeKids(SortKids(SubSeq(kids, 1, half), case_sensitive),
                   SortKids(SubSeq(kids, half + 1, Len(kids)), case_sensitive))

RECURSIVE CompareJson(_, _, _)
CompareJson(a, b, case_sensitive) ==
    LET order(i) == IF i.t = "object" THEN SortKids(i.kids, case_sensitive) ELSE i.kids
        x == order(a)  y == order(b)
    IN  /\ a.t = b.t
        /\ a.t = "number" => a.v = b.v
        /\ a.t = "string" => a.s = b.s
        /\ a.t \in {"array", "object"} =>
              /\ Len(x) = Len(y)
              /\ \A n \in DOMAIN x : SameName(x[n].k, y[n].k, case_sensitive)
                                     /\ CompareJson(x[n].i, y[n].i, case_sensitive)

-----------------------------------------------------------------------------
(* A patch has members: has is those of "path", "from" and "value" it has.   *)
PatchOf(op, has, path, from, value) ==
    [op |-> op, has |-> has, path |-> path, from |-> from, value |-> value]

(* apply_patch up to where a value is ready to be added.  It may be that    *)
(* nothing is left to add: the status is known, the item is NoItem.          *)
Ready(doc, status, item) == [doc |-> doc, status |-> status, item |-> item]
Tested(doc, p, place, case_sensitive) ==
    IF place # NoPlace /\ "value" \in p.has THEN CompareJson(ItemAt(doc, place), p.value, case_sensitive)
    ELSE FALSE
OwnValue(doc, p) ==
    IF "value" \in p.has THEN Ready(doc, 0, p.value) ELSE Ready(doc, 7, NoItem)
WithoutOld(p, old) ==
    IF ~old.ok THEN Ready(old.doc, 13, NoItem)
    ELSE IF p.op = "remove" THEN Ready(old.doc, 0, NoItem)
    ELSE OwnValue(old.doc, p)
CopyOf(doc, place) == IF place = NoPlace THEN Ready(doc, 5, NoItem) ELSE Ready(doc, 0, ItemAt(doc, place))
MovedFrom(from) == Ready(from.doc, IF from.ok THEN 0 ELSE 5, from.item)
TakeValue(doc, p, case_sensitive) ==
    CASE p.op \in {"remove", "replace"} -> WithoutOld(p, DetachPath(doc, p.path, case_sensitive))
      [] p.op = "add" -> OwnValue(doc, p)
      [] p.op \in {"move", "copy"} /\ "from" \notin p.has -> Ready(doc, 4, NoItem)
      [] p.op = "move" /\ "from" \in p.has -> MovedFrom(DetachPath(doc, p.from, case_sensitive))
      [] p.op = "copy" /\ "from" \in p.has -> CopyOf(doc, PlaceOf(doc, p.from, case_sensitive))

AddValue(p, ready, case_sensitive) ==
    IF ready.item = NoItem THEN Result(ready.doc, ready.status)
    ELSE AddAt(ready.doc, p.path, ready.item, case_sensitive)
ReplaceRoot(doc, p) ==
    IF p.op = "remove" THEN Result(Literal("invalid"), 0)
    ELSE IF "value" \in p.has THEN Result(p.value, 0) ELSE Result(doc, 7)
ApplyPatch(doc, p, case_sensitive) ==
    IF "path" \notin p.has THEN Result(doc, 2)
    ELSE IF p.op = "bad" THEN Result(doc, 3)
    ELSE IF p.op = "test"
         THEN Result(doc, IF Tested(doc, p, PlaceOf(doc, p.path, case_sensitive), case_sensitive)
                          THEN 0 ELSE 1)
    ELSE IF p.path = <<>> /\ p.op \in {"remove", "replace", "add"} THEN ReplaceRoot(doc, p)
    ELSE AddValue(p, TakeValue(doc, p, case_sensitive), case_sensitive)

(* compose_patch, for a name or an index behind the path. *)
Compose(op, path, value) ==
    PatchOf(op, IF value = NoItem THEN {"path"} ELSE {"path", "value"}, path, <<>>, value)

RECURSIVE CreatePatches(_, _, _, _, _)
RECURSIVE DiffKids(_, _, _, _, _)
(* Mutant: what only the first object has is not removed. *)
DiffKidsKeeps(path, a, b, case_sensitive, junk) ==
    IF b = <<>> THEN <<>>
    ELSE IF a = <<>> THEN <<Compose("add", Append(path, EncodeStep(b[1].k, junk)), b[1].i)>> \o
                          DiffKids(path, a, Tail(b), case_sensitive, junk)
    ELSE CreatePatches(Append(path, EncodeStep(a[1].k, junk)), a[1].i, b[1].i, case_sensitive, junk) \o
         DiffKids(path, Tail(a), Tail(b), case_sensitive, junk)

(* create_patches on two objects, sorted by name. *)
DiffKids(path, a, b, case_sensitive, junk) ==
    LET step(k) == Append(path, EncodeStep(k, junk)) IN
    IF a = <<>> /\ b = <<>> THEN <<>>
    ELSE IF a # <<>> /\ b # <<>> /\ SameName(a[1].k, b[1].k, case_sensitive)
         THEN CreatePatches(step(a[1].k), a[1].i, b[1].i, case_sensitive, junk) \o
              DiffKids(path, Tail(a), Tail(b), case_sensitive, junk)
    ELSE IF a # <<>> /\ (b = <<>> \/ NameLess(a[1].k, b[1].k, case_sensitive))
         THEN <<Compose("remove", step(a[1].k), NoItem)>> \o
              DiffKids(path, Tail(a), b, case_sensitive, junk)
    ELSE <<Compose("add", step(b[1].k), b[1].i)>> \o DiffKids(path, a, Tail(b), case_sensitive, junk)

CreatePatches(path, from, to, case_sensitive, junk) ==
    LET m == Len(from.kids)  n == Len(to.kids)  both == IF m < n THEN m ELSE n
        elements == [x \in 1..both |->
                        CreatePatches(Append(path, IndexStep(x - 1)), from.kids[x].i, to.kids[x].i,
                                      case_sensitive, junk)]
    IN  CASE from.t # to.t -> <<Compose("replace", path, to)>>
          [] from.t = to.t /\ from.t \in {"number", "string"} ->
                IF <<from.v, from.s>> = <<to.v, to.s>> THEN <<>> ELSE <<Compose("replace", path, to)>>
          [] from.t = to.t /\ from.t = "array" ->
                FlattenSeq(elements) \o
                [x \in 1..(m - both) |-> Compose("remove", Append(path, IndexStep(both)), NoItem)] \o
                [x \in 1..(n - both) |-> Compose("add", Append(path, Minus), to.kids[both + x].i)]
          [] from.t = to.t /\ from.t = "object" ->
                DiffKids(path, SortKids(from.kids, case_sensitive), SortKids(to.kids, case_sensitive),
                         case_sensitive, junk)
          [] OTHER -> <<>>

-----------------------------------------------------------------------------
(* merge_patch and generate_merge_patch; NoItem is NULL. *)
RECURSIVE MergePatch(_, _, _)
MergeKid(target, n, kid, case_sensitive) ==
    [target EXCEPT !.kids =
        IF kid.i.t = "null" THEN Without(@, n)
        ELSE Append(Without(@, n),
                    [k |-> kid.k,
                     i |-> MergePatch(IF n = 0 THEN NoItem ELSE target.kids[n].i, kid.i, case_sensitive)])]
MergePatch(target, p, case_sensitive) ==
    IF p.t # "object" THEN p
    ELSE FoldLeft(LAMBDA t, kid : MergeKid(t, KidAt(t, kid.k, case_sensitive), kid, case_sensitive),
                  IF target.t = "object" THEN target ELSE JObject(<<>>), p.kids)

RECURSIVE GenerateMerge(_, _, _)
RECURSIVE MergeDiff(_, _, _)
(* The walk over both lists, by strcmp. *)
MergeDiff(a, b, case_sensitive) ==
    IF a = <<>> /\ b = <<>> THEN <<>>
    ELSE IF a # <<>> /\ b # <<>> /\ a[1].k = b[1].k
         THEN LET p == GenerateMerge(a[1].i, b[1].i, FALSE) IN
              (IF CompareJson(a[1].i, b[1].i, case_sensitive) \/ p = NoItem THEN <<>>
               ELSE <<[k |-> b[1].k, i |-> p]>>) \o MergeDiff(Tail(a), Tail(b), case_sensitive)
    ELSE IF a # <<>> /\ (b = <<>> \/ StrLess(a[1].k, b[1].k))
         THEN <<[k |-> a[1].k, i |-> Literal("null")]>> \o MergeDiff(Tail(a), b, case_sensitive)
    ELSE <<b[1]>> \o MergeDiff(a, Tail(b), case_sensitive)

GenerateMerge(from, to, case_sensitive) ==
    LET kids == MergeDiff(SortKids(from.kids, case_sensitive), SortKids(to.kids, case_sensitive),
                          case_sensitive)
    IN  IF from.t # "object" \/ to.t # "object" THEN to
        ELSE IF kids = <<>> THEN NoItem ELSE JObject(kids)

(* kJSONUtils_FindPointerFromObjectTo *)
RECURSIVE FindPointer(_, _, _)
FindPointer(i, place, junk) ==
    IF place = <<>> THEN <<>>
    ELSE LET kid == i.kids[Head(place)] IN
         <<IF i.t = "array" THEN IndexStep(Head(place) - 1) ELSE EncodeStep(kid.k, junk)>> \o
         FindPointer(kid.i, Tail(place), junk)

-----------------------------------------------------------------------------
PJob(job, from, to, case_sensitive, p, place, junk) ==
    [job |-> job, from |-> from, to |-> to, cs |-> case_sensitive, p |-> p, place |-> place,
     junk |-> junk]
NoPatch == PatchOf("bad", {}, <<>>, <<>>, NoItem)
DiffJob(from, to, cs, junk) == PJob("diff", from, to, cs, NoPatch, <<>>, junk)
MergeJob(from, to, cs) == PJob("merge", from, to, cs, NoPatch, <<>>, 0)
ApplyJob(doc, p, cs) == PJob("apply", doc, doc, cs, p, <<>>, 0)
PointerJob(doc, place, cs, junk) == PJob("pointer", doc, doc, cs, NoPatch, place, junk)

NewPat(j) == [do |-> j, at |-> j.job, doc |-> j.from, status |-> 0, todo |-> <<>>, merge |-> NoItem,
              found |-> NoPlace]

PatchInit == \E n \in DOMAIN PatchJobs : \E j \in PatchJobs[n] : pat = NewPat(j)

(* kJSONUtils_GeneratePatches; AddPatchToArray puts the patch of the caller. *)
GeneratePatches ==
    /\ pat.at \in {"diff", "apply"}
    /\ pat' = [pat EXCEPT !.at = "applying",
                  !.todo = IF pat.at = "apply" THEN <<pat.do.p>>
                           ELSE CreatePatches(<<>>, pat.do.from, pat.do.to, pat.do.cs, pat.do.junk)]

(* kJSONUtils_ApplyPatches: one patch, and no other after one that fails. *)
ApplyPatches ==
    /\ pat.at = "applying" /\ pat.todo # <<>> /\ pat.status = 0
    /\ \E r \in {ApplyPatch(pat.doc, Head(pat.todo), pat.do.cs)} :
          pat' = [pat EXCEPT !.todo = Tail(@), !.doc = r.doc, !.status = r.status]

GenerateMergePatch ==
    /\ pat.at = "merge"
    /\ pat' = [pat EXCEPT !.at = "merging", !.merge = GenerateMerge(pat.do.from, pat.do.to, pat.do.cs)]

ApplyMergePatch ==
    /\ pat.at = "merging"
    /\ pat' = [pat EXCEPT !.at = "merged",
                  !.doc = IF pat.merge = NoItem THEN @ ELSE MergePatch(@, pat.merge, pat.do.cs)]

FindAndGetPointer ==
    /\ pat.at = "pointer"
    /\ pat' = [pat EXCEPT !.at = "found",
                  !.found = PlaceOf(pat.doc, FindPointer(pat.doc, pat.do.place, pat.do.junk), pat.do.cs)]

PatchNext == GeneratePatches \/ ApplyPatches \/ GenerateMergePatch \/ ApplyMergePatch \/ FindAndGetPointer

-----------------------------------------------------------------------------
(* No name needs an escape in a pointer; all names are of one case; no null  *)
(* is the value of a name (a merge patch cannot say so).                     *)
RECURSIVE PlainNames(_), LowerNames(_), NoNulls(_)
PlainNames(i) == \A n \in DOMAIN i.kids :
                    Range(i.kids[n].k) \cap {47, 126} = {} /\ PlainNames(i.kids[n].i)
LowerNames(i) == \A n \in DOMAIN i.kids : Lower(i.kids[n].k) = i.kids[n].k /\ LowerNames(i.kids[n].i)
NoNulls(i) == \A n \in DOMAIN i.kids :
                 (i.t = "object" => i.kids[n].i.t # "null") /\ NoNulls(i.kids[n].i)
Names(P(_)) == P(pat.do.from) /\ P(pat.do.to)
OnceOnly(i) == UniqueNames(i, FALSE)

(* The state of a job is what the jobs allow.                                *)
PatchTypeOK ==
    /\ pat.at \in {"diff", "apply", "applying", "merge", "merging", "merged", "pointer", "found"}
    /\ pat.status \in 0..13 /\ pat.doc.t \in STRING

(* kJSONUtils_GeneratePatches walks both objects in the order of their names *)
(* and apply_patch finds each item again by its path, though earlier patches *)
(* have moved and removed others: the patches from one item to another,      *)
(* applied one after the other, make the one the other.  (Names of one case, *)
(* without ~ and /.)                                                         *)
PatchesReach ==
    pat.at = "applying" /\ pat.do.job = "diff" /\ Names(PlainNames) /\ Names(LowerNames)
        /\ Names(OnceOnly) =>
            /\ pat.status = 0
            /\ pat.todo = <<>> => SameValue(pat.doc, pat.do.to, pat.do.cs)

(* The same for the merge patch from one item to another, if the other has   *)
(* no null under a name.                                                     *)
MergeReaches ==
    pat.at = "merged" /\ Names(LowerNames) /\ Names(OnceOnly) /\ NoNulls(pat.do.to) =>
        SameValue(pat.doc, pat.do.to, pat.do.cs)

(* Only a replace or a move can fail halfway (cJSON_Utils.h:48: ApplyPatches *)
(* is not atomic): any other patch that fails has changed nothing, and where *)
(* one that adds or copies succeeded, a test finds the value.                *)
AppliesSound ==
    pat.at = "applying" /\ pat.do.job = "apply" /\ pat.todo = <<>> =>
        LET p == pat.do.p
            value == IF p.op # "copy" THEN p.value
                     ELSE ItemAt(pat.do.from, PlaceOf(pat.do.from, p.from, pat.do.cs))
            plain == /\ p.path = <<>> \/ Range(Last(p.path)) \cap {45, 126} = {}
                     /\ PlainNames(pat.do.from) /\ OnceOnly(pat.do.from)
        IN  /\ pat.status # 0 /\ p.op \notin {"replace", "move"} => pat.doc = pat.do.from
            /\ pat.status = 0 /\ p.op \in {"add", "replace", "copy"} /\ plain =>
                  Tested(pat.doc, [p EXCEPT !.has = {"value"}, !.value = value],
                         PlaceOf(pat.doc, p.path, pat.do.cs), pat.do.cs)

(* The pointer that leads from an object to an item leads to that item       *)
(* ("construct a pointer from one to the other", cJSON_Utils.h:77), where no *)
(* name needs an escape and none is there twice.                             *)
PointersLead ==
    pat.at = "found" /\ Names(PlainNames) /\ Names(OnceOnly) => pat.found = pat.do.place

(* What was taken apart by kJSONUtils is put together again: all the above.  *)
PatchesFaithful == PatchesReach /\ MergeReaches /\ AppliesSound /\ PointersLead
=============================================================================
