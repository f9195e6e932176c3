------------------------------- MODULE MCData -------------------------------
(***************************************************************************)
(* Small instances of the parts that keep data: hash tables, descriptors,  *)
(* lists, buffers, access lists, JSON items, texts and patches, and the    *)
(* conversions of texts.  A behaviour is one of them, chosen at the start, *)
(* with the others at rest.                                                *)
(***************************************************************************)
EXTENDS KsHash, KsSocket, KsList, KsListSort, KsBuffer, KsAcl, KJsonTree, KJsonPatch, KsText

CONSTANTS t1, t2, t3, k1, k2, k3

VARIABLE part

records == <<net, list, job, buf, acl, json, text, pat, txt>>
dataVars == <<part, vars, records>>

-----------------------------------------------------------------------------
(* The hash table: two keys share a bucket of the first table only.        *)

MCThreads == {t1, t2, t3}
MCKeys == {k1, k2, k3}
MChash == [key \in MCKeys |-> CASE key = k1 -> 2 [] key = k2 -> 4 [] key = k3 -> 5]
MCprimes == <<2, 5>>

Of(x, y, z) == [t \in MCThreads |-> CASE t = t1 -> x [] t = t2 -> y [] t = t3 -> z]

\* One thread inserts, without the lock around it, against a reader and a
\* remover; or two do, with it.
MCRoles == {
    Of({"insert", "drain"}, {"iterate"}, {"lock_search", "remove"}),
    Of({"insert_dup_check"}, {"iterate", "search"}, {"remove", "destroy"}),
    Of({"lock_insert"}, {"lock_insert", "drain"}, {"lock_search", "iterate"}) }

ASSUME InsertersAlone == \A r \in Roles : SoleInserter(r)

-----------------------------------------------------------------------------
(* Buffers that may grow as they like, up to 3 bytes, and one that is made *)
(* larger than it may grow.                                                *)
MCShapes == {[blocksize |-> 2, start_len |-> 2, max_len |-> 0],
             [blocksize |-> 1, start_len |-> 2, max_len |-> 3],
             [blocksize |-> 1, start_len |-> 3, max_len |-> 2]}

(* Two names that differ in case only.                                     *)
MCNames == {[n |-> 97, fold |-> 97], [n |-> 65, fold |-> 97]}

-----------------------------------------------------------------------------
(* JSON items, texts and pairs of items.                                   *)
name_a == <<97>>
name_b == <<98>>
name_B == <<66>>
null == Literal("null")
one == JNumber(100)
two == JNumber(200)

Kid(name, item) == [k |-> name, i |-> item]

Arrays(S) == {JArray(<<>>)} \cup {JArray(<<x>>) : x \in S} \cup {JArray(<<x, y>>) : x \in S, y \in S}

\* Printed and read back: every short string of delicate bytes, every item
\* of depth two, some of depth three and four.
Leaves == {null, Literal("true"), one, JNumber(116), JNumber(105), JNumber(NotFinite),
           JString(<<34, 10>>), Item("raw", 0, <<110, 117, 108, 108>>, <<>>)}
Flat == {null, one, JObject(<<>>)} \cup Arrays({null, one})
        \cup {JObject(<<Kid(name_a, x)>>) : x \in {null, one}}
        \cup {JObject(<<Kid(name_a, x), Kid(name_B, y)>>) : x \in {null, one}, y \in {null, one}}
Deep == {JArray(<<x>>) : x \in Flat} \cup {JObject(<<Kid(name_a, x)>>) : x \in Flat}
Printable == Leaves \cup Flat \cup Deep \cup {JArray(<<x>>) : x \in Deep}
             \cup {JArray(<<x, one>>) : x \in Leaves}
             \cup {JString(s) : s \in UNION {[1..n -> {34, 92, 117, 110, 1, 200}] : n \in 0..3}}

PrintJobs == {PrintJob(how, item, formatted, room) :
                 how \in {"print", "buffered", "fixed"}, item \in Printable,
                 formatted \in BOOLEAN, room \in {0, 8, 20}}
             \cup {PrintJob("fixed", item, formatted, TextWidth(Printed(item, formatted)) + 6) :
                      item \in Printable, formatted \in BOOLEAN}

\* Every text of up to four tokens, a number too long to be read whole, and
\* strings with every kind of escape.
Tokens == {Mark("["), Mark("]"), Mark(","), Mark("{"), Mark("}"), Mark(":"),
           Token("ws", 0, <<>>, 1), Token("num", 100, <<>>, 1), Token("str", 0, name_a, 3)}
LongNumber == Token("num", 100, <<>>, 12)

\* \u0041, 0080, 07fF, 0800, the ends of the surrogates, e000, ffff, g000.
Hexes == {<<48, 48, 52, 49>>, <<48, 48, 56, 48>>, <<48, 55, 102, 70>>, <<48, 56, 48, 48>>,
          <<100, 56, 48, 48>>, <<68, 66, 70, 70>>, <<100, 99, 48, 48>>, <<68, 70, 70, 70>>,
          <<101, 48, 48, 48>>, <<102, 102, 102, 102>>, <<103, 48, 48, 48>>}
Bodies == {<<92, 117>> \o h : h \in Hexes}
          \cup {<<92, 117>> \o h \o <<92, 117>> \o g : h \in Hexes, g \in Hexes}
          \cup UNION {[1..n -> {92, 117, 47, 97, 34}] : n \in 0..4}
Texts == UNION {[1..n -> Tokens] : n \in 0..4}
         \cup {<<LongNumber>>, <<Mark("["), LongNumber, Mark("]")>>}
         \cup {<<Token("str", 0, s, Len(s) + 2)>> : s \in Bodies}
ParseJobs == {ParseJob(s, whole) : s \in Texts, whole \in BOOLEAN}

Comparable == {null, one, JString(name_a), JNumber(NotFinite), JArray(<<one>>), JArray(<<one, null>>)}
              \cup {JObject(kids) : kids \in
                       UNION {[1..n -> {Kid(name, x) : name \in {name_a, name_B, name_b}, x \in {null, one}}] : n \in 0..2}}
CompareJobs == {CompareJob(x, y, cs) : x \in Comparable, y \in Comparable, cs \in BOOLEAN}

MCTextJobs == <<PrintJobs, ParseJobs, CompareJobs>>

-----------------------------------------------------------------------------
(* Pairs of documents, patches and pointers.                               *)

Objects(names, S) ==
    {JObject(<<>>)} \cup {JObject(<<Kid(name, x)>>) : name \in names, x \in S}
    \cup {JObject(<<Kid(n[1], x), Kid(n[2], y)>>) :
             n \in {m \in names \X names : m[1] # m[2]}, x \in S, y \in S}

Plain == {one, null} \cup Objects({name_a, name_b}, {one, null}) \cup Arrays({one, two})
Nested == {JObject(<<Kid(name_b, x), Kid(name_a, two)>>) : x \in Plain}
          \cup {JArray(<<x, one>>) : x \in Plain}
          \cup {JObject(<<Kid(name_a, x)>>) : x \in Plain \cup {JString(name_a)}}
          \cup {JObject(<<Kid(<<99>>, one), Kid(name_b, one), Kid(name_a, two)>>)}
Docs == Plain \cup Nested

\* Names that a pointer must escape (~ and /), and two cases of a letter.
Odd == Objects({<<126>>, <<47>>, name_B, name_a}, {one})

Steps == {name_a, name_b, Minus, IndexStep(0), IndexStep(2), <<126, 48>>, <<>>, <<48, 49>>}
Paths == {<<>>} \cup {<<x>> : x \in Steps}
         \cup {<<x, y>> : x \in {name_a, IndexStep(0)}, y \in Steps}
Patches ==
    {PatchOf(op, has, p, <<>>, two) :
        op \in {"add", "replace", "remove", "test", "bad"},
        has \in {{"path", "value"}, {"path"}, {}}, p \in Paths}
    \cup {PatchOf(op, has, p, f, two) :
        op \in {"move", "copy"}, has \in {{"path", "from"}, {"path"}}, p \in Paths,
        f \in {<<name_a>>, <<name_b>>, <<IndexStep(0)>>, <<name_a, name_a>>, <<>>}}
Patched == {one, JObject(<<Kid(<<126>>, one)>>),
            JObject(<<Kid(name_a, JArray(<<one>>)), Kid(name_B, one)>>),
            JArray(<<one, JObject(<<Kid(name_a, two)>>)>>)}

Places(doc) == {<<>>} \cup {<<n>> : n \in DOMAIN doc.kids}
               \cup UNION {{<<n, m>> : m \in DOMAIN doc.kids[n].i.kids} : n \in DOMAIN doc.kids}

\* 120 stands for the byte that is left behind a shortened name.  The names
\* of Docs are of one case, which need not be asked for both ways.
Junk == 120
MCPatchJobs == <<
    {ApplyJob(doc, p, cs) : doc \in Patched, p \in Patches, cs \in BOOLEAN},
    UNION {{PointerJob(doc, p, cs, Junk) : p \in Places(doc), cs \in BOOLEAN} : doc \in Docs \cup Odd},
    {DiffJob(x, y, cs, Junk) : x \in Odd, y \in Odd, cs \in BOOLEAN},
    {MergeJob(x, y, cs) : x \in Odd, y \in Odd, cs \in BOOLEAN},
    {MergeJob(x, y, TRUE) : x \in Docs, y \in Docs},
    {DiffJob(x, y, TRUE, Junk) : x \in Docs, y \in Docs}>>

-----------------------------------------------------------------------------
DataInit ==
    /\ part \in {"hash", "net", "list", "job", "buf", "acl", "json", "text", "pat", "txt"}
    /\ IF part = "hash" THEN Init ELSE Init /\ role = CHOOSE r \in Roles : TRUE
    /\ IF part = "net" THEN SocketInit ELSE net = NewNet(FALSE, FALSE)
    /\ IF part = "list" THEN ListInit ELSE list = NewList(FALSE)
    /\ IF part = "job" THEN ListJobInit ELSE job = NewListJob(<<>>)
    /\ IF part = "buf" THEN BufInit ELSE buf = NewBuf(CHOOSE s \in BufShapes : TRUE, 0)
    /\ IF part = "acl" THEN AclInit ELSE acl = NewAcl(FALSE)
    /\ JsonInit
    /\ IF part = "text" THEN TextInit ELSE text = NewText(CompareJob(null, null, FALSE))
    /\ IF part = "pat" THEN PatchInit ELSE pat = NewPat(MergeJob(null, null, FALSE))
    /\ IF part = "txt" THEN TxtInit ELSE txt = NewTxt("bytes", <<>>)

\* The parts, but for the one that is named, stay as they are.
Others(p) ==
    /\ p # "hash" => UNCHANGED vars
    /\ p # "net" => UNCHANGED net
    /\ p # "list" => UNCHANGED list
    /\ p # "job" => UNCHANGED job
    /\ p # "buf" => UNCHANGED buf
    /\ p # "acl" => UNCHANGED acl
    /\ p # "json" => UNCHANGED json
    /\ p # "text" => UNCHANGED text
    /\ p # "pat" => UNCHANGED pat
    /\ UNCHANGED <<part, txt>>

DataNext ==
    \/ part = "hash" /\ Next /\ Others("hash")
    \/ part = "net" /\ SocketNext /\ Others("net")
    \/ part = "list" /\ ListNext /\ Others("list")
    \/ part = "job" /\ ListJobNext /\ Others("job")
    \/ part = "buf" /\ BufNext /\ Others("buf")
    \/ part = "acl" /\ AclNext /\ Others("acl")
    \/ part = "json" /\ JsonNext /\ Others("json")
    \/ part = "text" /\ TextNext /\ Others("text")
    \/ part = "pat" /\ PatchNext /\ Others("pat")

DataSpec == DataInit /\ [][DataNext]_dataVars

-----------------------------------------------------------------------------
(* Every field of the part that moves holds a value of its type.           *)
DataTypeOK ==
    CASE part = "hash" -> TypeOK [] part = "net" -> SocketTypeOK [] part = "list" -> ListTypeOK
      [] part = "job" -> ListJobTypeOK [] part = "buf" -> BufTypeOK [] part = "acl" -> AclTypeOK
      [] part = "json" -> JsonTypeOK [] part = "text" -> TextTypeOK [] part = "pat" -> PatchTypeOK
      [] part = "txt" -> TxtTypeOK

(* The algorithms against their reference definitions: the longest network *)
(* decides (ks_acl.c), base64 and UTF-8 come back (ks_base64.c, ks_utf8.c),*)
(* lists are sorted whatever the pivots and come back from their dumps     *)
(* (simclist.c).                                                           *)
AlgorithmsExact ==
    part \in {"acl", "txt", "job"} =>
        LongestDecides /\ Base64Exact /\ Utf8Exact /\ Sorted /\ DumpsRestore
=============================================================================
