----------------------------- MODULE KJsonText ------------------------------
(***************************************************************************)
(* JSON as text (src/include/cJSON/cJSON.c, behind ks_json_parse and       *)
(* ks_json_print): the printer, with the buffer it grows or the fixed one  *)
(* the caller gives; the parser; and kJSON_Compare.                        *)
(*                                                                         *)
(* An item is [t, v, s, kids]: its type, a number's value counted in       *)
(* 1/Unit, a string's bytes, and the children, [k, i] with a name and an   *)
(* item.  A text is a sequence of tokens [c, v, s, w], w bytes long.  The  *)
(* body of a string is kept as bytes, as it stands between the quotes.     *)
(***************************************************************************)
EXTENDS Integers, Sequences, FiniteSetsExt, SequencesExt, Functions

CONSTANTS NestingLimit,  \* CJSON_NESTING_LIMIT
          NumberMax,     \* bytes of a number that parse_number looks at
          IntMax,        \* INT_MAX, for the size of a print buffer
          TextJobs       \* what is asked: a sequence of sets of PrintJob, ParseJob or CompareJob

VARIABLE text

Unit == 100              \* the value 1; the last digit of "%lf" is 10
NotFinite == -1          \* NaN and the infinities

Item(t, v, s, kids) == [t |-> t, v |-> v, s |-> s, kids |-> kids]
Literal(t) == Item(t, 0, <<>>, <<>>)
JNumber(v) == Item("number", v, <<>>, <<>>)
JString(s) == Item("string", 0, s, <<>>)
JArray(items) == Item("array", 0, <<>>, [n \in DOMAIN items |-> [k |-> <<>>, i |-> items[n]]])
JObject(kids) == Item("object", 0, <<>>, kids)

Token(c, v, s, w) == [c |-> c, v |-> v, s |-> s, w |-> w]
Mark(c) == Token(c, 0, <<>>, 1)
Space(n) == IF n = 0 THEN <<>> ELSE <<Token("ws", 0, <<>>, n)>>
Word(c) == Token(c, 0, <<>>, IF c = "false" THEN 5 ELSE 4)

TextWidth(toks) == FoldLeft(LAMBDA n, t : n + t.w, 0, toks)

-----------------------------------------------------------------------------
(* Strings.  print_string_ptr: the bytes between the quotes. *)
Short == [b \in {34, 92, 8, 12, 10, 13, 9} |->
            CASE b = 8 -> 98 [] b = 12 -> 102 [] b = 10 -> 110 [] b = 13 -> 114 [] b = 9 -> 116
              [] OTHER -> b]
HexDigit(d) == IF d < 10 THEN 48 + d ELSE 87 + d

EscapeByte(b) ==
    IF b \in DOMAIN Short THEN <<92, Short[b]>>
    ELSE IF b < 32 THEN <<92, 117, 48, 48, HexDigit(b \div 16), HexDigit(b % 16)>>
    ELSE <<b>>
Escape(s) == FoldLeft(LAMBDA out, b : out \o EscapeByte(b), <<>>, s)

(* parse_hex4: a digit that is none gives 0. *)
HexValue(b) == CASE b \in 48..57 -> b - 48 [] b \in 65..70 -> b - 55 [] b \in 97..102 -> b - 87
                 [] OTHER -> -1
Hex4(b) == LET d == [n \in 1..4 |-> HexValue(b[n])] IN
           IF \E n \in 1..4 : d[n] < 0 THEN 0 ELSE ((d[1] * 16 + d[2]) * 16 + d[3]) * 16 + d[4]

Utf8Bytes(cp) ==
    LET low(k) == 128 + ((cp \div 64 ^ k) % 64) IN
    CASE cp < 128 -> <<cp>>
      [] cp \in 128..2047 -> <<192 + (cp \div 64), low(0)>>
      [] cp \in 2048..65535 -> <<224 + (cp \div 4096), low(1), low(0)>>
      [] OTHER -> <<240 + (cp \div 262144), low(2), low(1), low(0)>>

(* utf16_literal_to_utf8: how many bytes of b it takes (0: it fails), and    *)
(* what it writes.                                                           *)
Utf16Literal(b) ==
    LET bad == [n |-> 0, out |-> <<>>]
        first == Hex4(SubSeq(b, 3, 6))
        pair == Len(b) >= 12 /\ b[7] = 92 /\ b[8] = 117
        second == Hex4(SubSeq(b, 9, 12))
    IN  CASE Len(b) < 6 -> bad
          [] Len(b) >= 6 /\ first \in 56320..57343 -> bad
          [] Len(b) >= 6 /\ first \in 55296..56319 ->
                IF pair /\ second \in 56320..57343
                THEN [n |-> 12, out |-> Utf8Bytes(65536 + (first % 1024) * 1024 + (second % 1024))]
                ELSE bad
          [] OTHER -> [n |-> 6, out |-> Utf8Bytes(first)]

(* parse_string: first the end of the string and the room it needs, then the *)
(* bytes.  A string that has a zero byte ends there for everyone who reads   *)
(* it.                                                                       *)
RECURSIVE Unescape(_, _)
Unescape(b, out) ==
    LET bad == [ok |-> FALSE, s |-> out]
        rest(n) == SubSeq(b, n + 1, Len(b))
        u == Utf16Literal(b)
    IN  IF b = <<>> THEN [ok |-> TRUE, s |-> out]
        ELSE IF b[1] # 92 THEN Unescape(rest(1), Append(out, b[1]))
        ELSE IF Len(b) < 2 THEN bad
        ELSE IF b[2] = 117 THEN (IF u.n = 0 THEN bad ELSE Unescape(rest(u.n), out \o u.out))
        ELSE IF b[2] = 47 THEN Unescape(rest(2), Append(out, 47))
        ELSE IF b[2] \in Range(Short)
             THEN Unescape(rest(2), Append(out, CHOOSE x \in DOMAIN Short : Short[x] = b[2]))
        ELSE bad

(* The escapes that the first pass counts, or -1 if the quote is not found   *)
(* where the token ends.                                                     *)
RECURSIVE Escapes(_)
Escapes(b) ==
    IF b = <<>> THEN 0
    ELSE IF b[1] = 34 \/ (b[1] = 92 /\ Len(b) = 1) THEN -1
    ELSE LET n == IF b[1] = 92 THEN 2 ELSE 1
             e == Escapes(SubSeq(b, n + 1, Len(b)))
         IN  IF e = -1 THEN -1 ELSE e + n - 1
StringRoom(b) == Len(b) + 2 - Escapes(b)

UpToZero(s) == LET z == SelectInSeq(s, LAMBDA b : b = 0) IN
               IF z = 0 THEN s ELSE SubSeq(s, 1, z - 1)
ParseString(b) ==
    LET u == Unescape(b, <<>>) IN
    IF Escapes(b) = -1 THEN [ok |-> FALSE, s |-> <<>>]
    ELSE [ok |-> u.ok, s |-> UpToZero(u.s)]

-----------------------------------------------------------------------------
(* The printer: the calls of ensure with what is written after each.         *)
Ask(need, toks, nul) == [need |-> need, toks |-> toks, nul |-> nul]
Extra(fmt) == IF fmt THEN 1 ELSE 0

(* print_number: "%ld" if nothing follows the point, else "%lf". *)
Digits(n) == IF n < 10 THEN 1 ELSE IF n < 100 THEN 2 ELSE 3
RoundedTo6(v) == IF v % Unit = 0 THEN v ELSE ((v + 5) \div 10) * 10
PrintNumber(v) ==
    LET w == Digits(RoundedTo6(v) \div Unit) + (IF v % Unit = 0 THEN 0 ELSE 7)
        tok == IF v = NotFinite THEN Word("null") ELSE Token("num", RoundedTo6(v), <<>>, w)
    IN  <<Ask(tok.w + 1, <<tok>>, TRUE)>>

PrintString(s) ==
    LET body == Escape(s) IN
    <<Ask(Len(body) + 3, <<Token("str", 0, body, Len(body) + 2)>>, TRUE)>>

RECURSIVE PrintValue(_, _, _)
PrintArray(i, fmt, depth) ==
    LET n == Len(i.kids)
        one(x) == PrintValue(i.kids[x].i, fmt, depth + 1) \o
                  (IF x = n THEN <<>>
                   ELSE <<Ask(2 + Extra(fmt), <<Mark(",")>> \o Space(Extra(fmt)), TRUE)>>)
    IN  <<Ask(1, <<Mark("[")>>, FALSE)>> \o FlattenSeq([x \in 1..n |-> one(x)]) \o
        <<Ask(2, <<Mark("]")>>, TRUE)>>

PrintObject(i, fmt, depth) ==
    LET n == Len(i.kids)  deeper == depth + 1
        comma(x) == IF x = n THEN <<>> ELSE <<Mark(",")>>
        one(x) == (IF fmt THEN <<Ask(deeper, Space(deeper), FALSE)>> ELSE <<>>) \o
                  PrintString(i.kids[x].k) \o
                  <<Ask(1 + Extra(fmt), <<Mark(":")>> \o Space(Extra(fmt)), FALSE)>> \o
                  PrintValue(i.kids[x].i, fmt, deeper) \o
                  <<Ask(Extra(fmt) + Len(comma(x)) + 1, comma(x) \o Space(Extra(fmt)), TRUE)>>
    IN  <<Ask(2 + Extra(fmt), <<Mark("{")>> \o Space(Extra(fmt)), FALSE)>> \o
        FlattenSeq([x \in 1..n |-> one(x)]) \o
        <<Ask(IF fmt THEN deeper + 1 ELSE 2,
              (IF fmt THEN Space(depth) ELSE <<>>) \o <<Mark("}")>>, TRUE)>>

(* A raw item is text of the caller's; here always a null. *)
RawText(s) == Token("null", 0, <<>>, Len(s))

PrintValue(i, fmt, depth) ==
    CASE i.t \in {"null", "false", "true"} -> <<Ask(Word(i.t).w + 1, <<Word(i.t)>>, TRUE)>>
      [] i.t = "number" -> PrintNumber(i.v)
      [] i.t = "raw" -> <<Ask(Len(i.s) + 1, <<RawText(i.s)>>, TRUE)>>
      [] i.t = "string" -> PrintString(i.s)
      [] i.t = "array" -> PrintArray(i, fmt, depth)
      [] i.t = "object" -> PrintObject(i, fmt, depth)

Printed(i, fmt) == LET p == PrintValue(i, fmt, 0) IN FlattenSeq([n \in DOMAIN p |-> p[n].toks])

-----------------------------------------------------------------------------
(* The parser: each operator takes what is left of the text and the depth.   *)
Parsed1(item, rest) == [ok |-> TRUE, i |-> item, rest |-> rest]
NotParsed == [ok |-> FALSE, i |-> Literal("null"), rest |-> <<>>]

(* buffer_skip_whitespace *)
RECURSIVE SkipSpace(_)
SkipSpace(s) == IF s # <<>> /\ s[1].c = "ws" THEN SkipSpace(Tail(s)) ELSE s
Begins(s, c) == s # <<>> /\ s[1].c = c

(* parse_number: the bytes behind NumberMax are left in the text. *)
ParseNumber(s) ==
    IF s[1].w <= NumberMax THEN Parsed1(JNumber(s[1].v), Tail(s))
    ELSE Parsed1(JNumber(s[1].v), <<[s[1] EXCEPT !.w = @ - NumberMax]>> \o Tail(s))

RECURSIVE ParseValue(_, _)
(* The do-while loops of parse_array and parse_object. *)
RECURSIVE ParseKids(_, _, _, _)
ParseKids(s, depth, named, kids) ==
    LET s1 == SkipSpace(s)
        name == ParseString(s1[1].s)
        s2 == SkipSpace(Tail(s1))
        value == IF named THEN ParseValue(SkipSpace(Tail(s2)), depth) ELSE ParseValue(s1, depth)
        after == SkipSpace(value.rest)
        all == Append(kids, [k |-> IF named THEN name.s ELSE <<>>, i |-> value.i])
    IN  IF named /\ (~Begins(s1, "str") \/ ~name.ok) THEN NotParsed
        ELSE IF named /\ ~Begins(s2, ":") THEN NotParsed
        ELSE IF ~value.ok THEN NotParsed
        ELSE IF Begins(after, ",") THEN ParseKids(Tail(after), depth, named, all)
        ELSE IF Begins(after, IF named THEN "}" ELSE "]")
             THEN Parsed1([Literal(IF named THEN "object" ELSE "array") EXCEPT !.kids = all], Tail(after))
        ELSE NotParsed

(* Mutant: one level of nesting too many is let in. *)
ParseListDeeper(s, depth, named) ==
    LET s1 == SkipSpace(Tail(s)) IN
    IF depth > NestingLimit THEN NotParsed
    ELSE IF Begins(s1, IF named THEN "}" ELSE "]")
         THEN Parsed1(Literal(IF named THEN "object" ELSE "array"), Tail(s1))
    ELSE ParseKids(s1, depth + 1, named, <<>>)

ParseList(s, depth, named) ==
    LET s1 == SkipSpace(Tail(s)) IN
    IF depth >= NestingLimit THEN NotParsed
    ELSE IF Begins(s1, IF named THEN "}" ELSE "]")
         THEN Parsed1(Literal(IF named THEN "object" ELSE "array"), Tail(s1))
    ELSE ParseKids(s1, depth + 1, named, <<>>)

ParseValue(s, depth) ==
    CASE s = <<>> -> NotParsed
      [] s # <<>> /\ s[1].c \in {"null", "false", "true"} -> Parsed1(Literal(s[1].c), Tail(s))
      [] Begins(s, "str") -> (LET p == ParseString(s[1].s) IN
                              IF p.ok THEN Parsed1(JString(p.s), Tail(s)) ELSE NotParsed)
      [] Begins(s, "num") -> ParseNumber(s)
      [] Begins(s, "[") -> ParseList(s, depth, FALSE)
      [] Begins(s, "{") -> ParseList(s, depth, TRUE)
      [] OTHER -> NotParsed

(* kJSON_ParseWithOpts *)
Parse(s, whole) ==
    LET p == ParseValue(SkipSpace(s), 0) IN
    IF p.ok /\ whole /\ SkipSpace(p.rest) # <<>> THEN NotParsed ELSE p

-----------------------------------------------------------------------------
(* kJSON_Compare.  The name that get_object_item looks for is found where it *)
(* first is, whatever its case unless case_sensitive.                        *)
Lower(s) == [n \in DOMAIN s |-> IF s[n] \in 65..90 THEN s[n] + 32 ELSE s[n]]
SameName(a, b, case_sensitive) == IF case_sensitive THEN a = b ELSE Lower(a) = Lower(b)
KidAt(i, k, case_sensitive) ==
    SelectInSeq(i.kids, LAMBDA kid : SameName(kid.k, k, case_sensitive))

RECURSIVE Compare(_, _, _)
Covers(a, b, case_sensitive) ==
    \A n \in DOMAIN a.kids :
        LET at == KidAt(b, a.kids[n].k, case_sensitive) IN
        at # 0 /\ Compare(a.kids[n].i, b.kids[at].i, case_sensitive)
Compare(a, b, case_sensitive) ==
    /\ a.t = b.t
    /\ CASE a.t = "number" -> a.v = b.v /\ a.v # NotFinite
         [] a.t \in {"string", "raw"} -> a.s = b.s
         [] a.t = "array" ->
                /\ Len(a.kids) = Len(b.kids)
                /\ \A n \in DOMAIN a.kids : Compare(a.kids[n].i, b.kids[n].i, case_sensitive)
         [] a.t = "object" -> Covers(a, b, case_sensitive) /\ Covers(b, a, case_sensitive)
         [] OTHER -> TRUE

-----------------------------------------------------------------------------
(* Jobs.  how: "print" shrinks the buffer in the end, "buffered" does not,   *)
(* "fixed" has the caller's buffer and no other.  room: the first length.    *)
Job(job, how, item, other, flag, room, toks) ==
    [job |-> job, how |-> how, item |-> item, other |-> other, flag |-> flag, room |-> room,
     given |-> toks]
PrintJob(how, item, fmt, room) == Job("print", how, item, item, fmt, room, <<>>)
ParseJob(toks, whole) == Job("parse", "", Literal("null"), Literal("null"), whole, 0, toks)
CompareJob(a, b, case_sensitive) == Job("compare", "", a, b, case_sensitive, 0, <<>>)

(* asks: calls of ensure still to come.  top: how far the buffer was         *)
(* written.  blocks: buffers that the printer has allocated.                 *)
NewText(j) ==
    [do |-> j, at |-> j.job,
     asks |-> IF j.job = "print" THEN PrintValue(j.item, j.flag, 0) ELSE <<>>,
     length |-> j.room, offset |-> 0, top |-> 0, out |-> <<>>,
     blocks |-> IF j.how \in {"print", "buffered"} THEN 1 ELSE 0,
     starved |-> FALSE, back |-> NotParsed, same |-> FALSE]

TextInit == \E n \in DOMAIN TextJobs : \E j \in TextJobs[n] : text = NewText(j)

(* ensure: the length of the buffer after it, 0 if there is no room and no   *)
(* more may be had.                                                          *)
Ensure(tx, need) ==
    LET needed == need + tx.offset + 1 IN
    IF tx.length > 0 /\ tx.offset >= tx.length THEN 0
    ELSE IF needed <= tx.length THEN tx.length
    ELSE IF tx.do.how = "fixed" \/ needed > IntMax THEN 0
    ELSE IF needed > IntMax \div 2 THEN IntMax
    ELSE 2 * needed

Written(tx, ask, length) ==
    LET offset == tx.offset + TextWidth(ask.toks)
        end == IF ask.nul THEN offset + 1 ELSE offset
    IN  [tx EXCEPT !.asks = Tail(@), !.length = length, !.offset = offset, !.out = @ \o ask.toks,
                   !.top = IF end > @ THEN end ELSE @]

(* One ensure and what is written behind it. *)
PrintStep ==
    LET length == Ensure(text, Head(text.asks).need) IN
    /\ text.at = "print" /\ text.asks # <<>>
    /\ length > 0
    /\ text' = Written(text, Head(text.asks), length)

(* No room, or no memory for more: the buffer is freed. *)
PrintFails ==
    LET length == Ensure(text, Head(text.asks).need) IN
    /\ text.at = "print" /\ text.asks # <<>>
    /\ length = 0 \/ length > text.length
    /\ text' = [text EXCEPT !.at = "failed", !.blocks = 0, !.starved = length > 0]

(* The end of print, kJSON_PrintBuffered, kJSON_PrintPreallocated. *)
PrintEnd ==
    /\ text.at = "print" /\ text.asks = <<>>
    /\ text' = [text EXCEPT !.at = "printed",
                            !.length = IF text.do.how = "print" THEN text.offset + 1 ELSE @]

(* print's last reallocation fails: it forgets the buffer it had. *)
ShrinkFails ==
    /\ text.at = "print" /\ text.asks = <<>> /\ text.do.how = "print"
    /\ text' = [text EXCEPT !.at = "failed", !.starved = TRUE]

(* The caller parses what was printed, or a text of its own. *)
ParseText ==
    /\ text.at \in {"printed", "parse"}
    /\ text' = [text EXCEPT !.at = "parsed",
                   !.back = IF text.at = "printed" THEN Parse(text.out, TRUE)
                            ELSE Parse(text.do.given, text.do.flag)]

CompareItems ==
    /\ text.at = "compare"
    /\ text' = [text EXCEPT !.at = "compared", !.same = Compare(text.do.item, text.do.other, text.do.flag)]

TextNext == PrintStep \/ PrintFails \/ PrintEnd \/ ShrinkFails \/ ParseText \/ CompareItems

-----------------------------------------------------------------------------
(* Reference definitions. *)
RECURSIVE Depth(_), AsPrinted(_), SameValue(_, _, _), UniqueNames(_, _)
Depth(i) == IF i.t \notin {"array", "object"} THEN 0
            ELSE 1 + FoldLeft(LAMBDA d, kid : IF Depth(kid.i) > d THEN Depth(kid.i) ELSE d, 0, i.kids)

(* What comes back of an item: six digits behind the point, and null for     *)
(* what is no number.                                                        *)
AsPrinted(i) ==
    IF i.t = "raw" \/ (i.t = "number" /\ i.v = NotFinite) THEN Literal("null")
    ELSE [i EXCEPT !.v = IF i.t = "number" THEN RoundedTo6(@) ELSE @,
                   !.kids = [n \in DOMAIN @ |-> [@[n] EXCEPT !.i = AsPrinted(@)]]]

UniqueNames(i, case_sensitive) ==
    /\ i.t = "object" => \A m, n \in DOMAIN i.kids :
            SameName(i.kids[m].k, i.kids[n].k, case_sensitive) => m = n
    /\ \A n \in DOMAIN i.kids : UniqueNames(i.kids[n].i, case_sensitive)

(* Equal but for the order of the names of an object; NaN equals nothing. *)
SameValue(a, b, case_sensitive) ==
    LET D == DOMAIN a.kids IN
    /\ <<a.t, a.v, a.s, Len(a.kids)>> = <<b.t, b.v, b.s, Len(b.kids)>> /\ a.v # NotFinite
    /\ \E p \in [D -> D] :
          /\ IF a.t = "object" THEN \A m, n \in D : p[m] = p[n] => m = n ELSE \A n \in D : p[n] = n
          /\ \A n \in D : /\ SameName(a.kids[n].k, b.kids[p[n]].k, case_sensitive)
                          /\ SameValue(a.kids[n].i, b.kids[p[n]].i, case_sensitive)

(* The tokens without spaces, strings as they are read; a string that is not *)
(* well formed keeps its bytes.                                              *)
Meant(toks) ==
    LET tok(t) == IF t.c = "str" /\ ParseString(t.s).ok
                  THEN [t EXCEPT !.s = ParseString(t.s).s, !.w = 0] ELSE t
        kept == SelectSeq(toks, LAMBDA t : t.c # "ws")
    IN  [n \in DOMAIN kept |-> tok(kept[n])]

-----------------------------------------------------------------------------
(* The state of a job is what the jobs allow.                                *)
TextTypeOK ==
    /\ text.do.job \in {"print", "parse", "compare"} /\ text.do.how \in {"", "print", "buffered", "fixed"}
    /\ text.at \in {"print", "parse", "compare", "printed", "parsed", "compared", "failed"}
    /\ text.length \in Nat /\ text.offset \in Nat /\ text.blocks \in {0, 1}
    /\ text.starved \in BOOLEAN /\ text.same \in BOOLEAN

(* ensure (cJSON.c:357) guesses before each piece: whatever is printed and   *)
(* however often the buffer grows, nothing is written behind its end, and a  *)
(* buffer with the five spare bytes that cJSON.h:155 asks for is enough.     *)
PrintFits ==
    /\ text.top <= IF text.at \in {"print", "failed"} THEN text.length ELSE text.top
    /\ text.at \in {"printed", "parsed"} /\ text.do.job = "print" => text.offset < text.length
    /\ text.at = "failed" /\ ~text.starved =>
          LET w == TextWidth(Printed(text.do.item, text.do.flag)) IN
          IF text.do.how = "fixed" THEN text.do.room < w + 6 ELSE w + 2 > IntMax
    /\ text.at = "failed" => text.blocks = 0 \/ text.asks = <<>>

(* What the parser makes of what was printed, formatted or not, is what was  *)
(* printed, with numbers as "%ld" or "%lf" leave them, unless the item is    *)
(* nested deeper than the parser goes.                                       *)
RoundTrip ==
    text.at = "parsed" /\ text.do.job = "print" =>
        IF Depth(text.do.item) > NestingLimit THEN ~text.back.ok
        ELSE text.back = Parsed1(AsPrinted(text.do.item), <<>>)

(* A text of any origin is read as an item only if the text, without its     *)
(* spaces, begins with that item (the whole of it if the caller wants the    *)
(* whole).  A number of more bytes than parse_number looks at spoils a whole *)
(* text.  Names and strings fit in the room that the first pass of           *)
(* parse_string measured.                                                    *)
ParseExact ==
    LET given == Meant(text.do.given)
        rest == Meant(text.back.rest)
        whole == text.do.flag
        long == \E n \in DOMAIN given : given[n].c = "num" /\ given[n].w > NumberMax
    IN  text.at = "parsed" /\ text.do.job = "parse" =>
          /\ text.back.ok =>
                /\ long \/ given = Meant(Printed(text.back.i, FALSE)) \o rest
                /\ Depth(text.back.i) <= NestingLimit
                /\ whole => rest = <<>> /\ ~long
          /\ \A n \in DOMAIN text.do.given :
                LET b == text.do.given[n].s  u == Unescape(b, <<>>) IN
                Escapes(b) >= 0 /\ u.ok => Len(u.s) + 1 <= StringRoom(b)

(* kJSON_Compare (cJSON.c:2777) looks every name up in both directions: that *)
(* is equality up to the order of the names, as long as no object has a name *)
(* twice.                                                                    *)
CompareExact ==
    text.at = "compared" =>
        LET a == text.do.item  b == text.do.other  cs == text.do.flag IN
        UniqueNames(a, cs) /\ UniqueNames(b, cs) => (text.same <=> SameValue(a, b, cs))

(* Printing, parsing and comparing keep what they are given: the four above.  *)
TextFaithful == PrintFits /\ RoundTrip /\ ParseExact /\ CompareExact
=============================================================================
