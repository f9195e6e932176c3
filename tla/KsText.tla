------------------------------- MODULE KsText -------------------------------
(***************************************************************************)
(* Conversions of text: Base64 (src/ks_base64.c) and UTF-8                 *)
(* (src/ks_utf8.c).  Bytes and characters are numbers; a C string is the   *)
(* sequence of its bytes without the terminator.  There is no step: the    *)
(* properties are about the conversions of a text.                         *)
(***************************************************************************)
EXTENDS Integers, Sequences, FiniteSetsExt, SequencesExt, Functions

CONSTANTS TextBytes,    \* bytes to encode
          CodePoints,   \* characters to convert
          MaxText,      \* bound: length of both
          MaxOut        \* bound: size of the buffer written to

VARIABLE txt

Strings(S) == UNION {[1..n -> S] : n \in 0..MaxText}

NewTxt(kind, in) == [kind |-> kind, in |-> in]

TxtInit == \/ \E s \in Strings(TextBytes) : txt = NewTxt("bytes", s)
           \/ \E s \in Strings(CodePoints) : txt = NewTxt("chars", s)

-----------------------------------------------------------------------------
(* Base64.  The 64 digits are 0..63 here, '=' is 64.                         *)
Pad == 64

(* ks_b64_encode: six bits at a time, until one byte of out is left.         *)
B64Encode(in, olen) ==
    LET total == 8 * Len(in)
        bit(k) == (in[(k \div 8) + 1] \div 2^(7 - (k % 8))) % 2
        digit(d) == SumSet({j \in {2^(5 - i) : i \in 0..5} :
                        \E i \in 0..5 : j = 2^(5 - i) /\ 6 * d + i < total /\ bit(6 * d + i) = 1})
        full == total \div 6
        left == total % 6
        digits == [d \in 1..full |-> digit(d - 1)]
        pads == [i \in 1..((6 - left) \div 2) |-> Pad]
        whole == IF left = 0 THEN digits ELSE digits \o <<digit(full)>> \o pads
        room == Max({1, olen - 1})
    IN  SubSeq(whole, 1, Min({Len(whole), room}))

(* ks_b64_decode: skips what is no digit, and leaves two bytes of out.  The  *)
(* bytes it wrote, without the terminator.                                   *)
B64Decode(in, olen) ==
    LET d == SelectSeq(in, LAMBDA c : c \in 0..63)
        bit(k) == (d[(k \div 6) + 1] \div 2^(5 - (k % 6))) % 2
        byte(b) == SumSet({j \in {2^(7 - i) : i \in 0..7} :
                        \E i \in 0..7 : j = 2^(7 - i) /\ bit(8 * b + i) = 1})
        n == (6 * Len(d)) \div 8
    IN  [b \in 1..Min({n, Max({1, olen - 2})}) |-> byte(b - 1)]

-----------------------------------------------------------------------------
(* UTF-8 *)
IsUtf(c) == c \div 64 # 2

TrailingBytes(c) == CASE c < 192 -> 0 [] c \in 192..223 -> 1 [] c \in 224..239 -> 2
                      [] c \in 240..247 -> 3 [] c \in 248..251 -> 4 [] OTHER -> 5

OffsetsFromUtf8 == <<0, 12416, 925824, 63447168>>

(* Mutant: no form of four bytes. *)
WcToUtf8Short(ch) ==
    CASE ch < 128 -> <<ch>>
      [] ch \in 128..2047 -> <<192 + ch \div 64, 128 + (ch % 64)>>
      [] OTHER -> <<224 + ((ch \div 4096) % 16), 128 + ((ch \div 64) % 64), 128 + (ch % 64)>>

(* ks_u8_wc_toutf8 *)
WcToUtf8(ch) ==
    CASE ch < 128 -> <<ch>>
      [] ch \in 128..2047 -> <<192 + ch \div 64, 128 + (ch % 64)>>
      [] ch \in 2048..65535 -> <<224 + ch \div 4096, 128 + ((ch \div 64) % 64), 128 + (ch % 64)>>
      [] ch \in 65536..1114111 -> <<240 + ch \div 262144, 128 + ((ch \div 4096) % 64),
                                    128 + ((ch \div 64) % 64), 128 + (ch % 64)>>
      [] OTHER -> <<>>

(* ks_u8_toutf8: characters as long as they fit in sz bytes.                 *)
ToUtf8(src, sz) ==
    FoldLeft(LAMBDA out, ch : IF out.full \/ Len(out.s) + Len(WcToUtf8(ch)) > sz
                              THEN [out EXCEPT !.full = TRUE]
                              ELSE [out EXCEPT !.s = @ \o WcToUtf8(ch), !.n = @ + 1],
             [s |-> <<>>, n |-> 0, full |-> FALSE], src)

ByteAt(s, i) == IF i <= Len(s) THEN s[i] ELSE 0

(* ks_u8_nextchar from byte i: the character and the byte behind it. *)
NextChar(s, i) ==
    LET more == {k \in (i + 1)..(Len(s) + 1) : ByteAt(s, k) = 0 \/ IsUtf(ByteAt(s, k))}
        next == Min(more)
    IN  [ch |-> FoldLeft(LAMBDA ch, b : ch * 64 + b, 0, SubSeq(s, i, next - 1)) - OffsetsFromUtf8[next - i],
         next |-> next]

Chars(s) ==
    LET read[n \in 0..Len(s)] ==
            IF n = 0 THEN [at |-> 1, chs |-> <<>>]
            ELSE LET r == read[n - 1] IN
                 IF r.at > Len(s) THEN r
                 ELSE [at |-> NextChar(s, r.at).next, chs |-> Append(r.chs, NextChar(s, r.at).ch)]
    IN  read[Len(s)].chs

(* ks_u8_toucs, for srcsz bytes into sz wide characters: stops before a      *)
(* character that the bytes cut.                                             *)
ToUcs(s, srcsz, sz) ==
    LET value(i, nb) == FoldLeft(LAMBDA ch, b : ch * 64 + b, 0, SubSeq(s, i, i + nb)) - OffsetsFromUtf8[nb + 1]
        read[n \in 0..sz] ==
            IF n = 0 THEN [at |-> 1, chs |-> <<>>, done |-> FALSE]
            ELSE LET r == read[n - 1]
                     nb == TrailingBytes(ByteAt(s, r.at))
                 IN  IF r.done \/ n >= sz \/ r.at + nb > srcsz THEN [r EXCEPT !.done = TRUE]
                     ELSE [r EXCEPT !.at = @ + nb + 1, !.chs = Append(@, value(r.at, nb))]
    IN  read[sz].chs

(* ks_u8_inc, and the walk of ks_u8_offset and ks_u8_charnum. *)
Inc(s, i) == Min({i + 4} \cup {k \in (i + 1)..(i + 3) : IsUtf(ByteAt(s, k + 1))})

Offset(s, charnum) ==
    LET walk[n \in 0..charnum] == IF n = 0 THEN 0
                                  ELSE IF walk[n - 1] >= Len(s) THEN walk[n - 1] ELSE Inc(s, walk[n - 1])
    IN  walk[charnum]

CharNum(s, offset) == Min({n \in 0..Len(s) : Offset(s, n) >= Min({offset, Len(s)})})

(* ks_u8_strchr: how many characters stand before ch, or -1. *)
StrChr(s, ch) == SelectInSeq(Chars(s), LAMBDA c : c = ch) - 1

-----------------------------------------------------------------------------
(* ks_u8_escape, ks_u8_escape_wchar: 92 is the backslash, 34 the quote.      *)
Named == <<<<10, 110>>, <<9, 116>>, <<13, 114>>, <<8, 98>>, <<12, 102>>, <<11, 118>>, <<7, 97>>>>
UpperHex(d) == IF d < 10 THEN 48 + d ELSE 55 + d
HexOf(ch, width) == [i \in 1..width |-> UpperHex((ch \div 16^(width - i)) % 16)]

EscapeWchar(ch) ==
    LET name == SelectInSeq(Named, LAMBDA p : p[1] = ch) IN
    CASE name # 0 -> <<92, Named[name][2]>>
      [] ch = 92 -> <<92, 92>>
      [] ch # 92 /\ name = 0 /\ (ch < 32 \/ ch = 127) ->
             <<92, 120>> \o (IF ch < 16 THEN HexOf(ch, 1) ELSE HexOf(ch, 2))
      [] ch > 65535 -> <<92, 85>> \o HexOf(ch, 8)
      [] ch \in 128..65535 -> <<92, 117>> \o HexOf(ch, 4)
      [] OTHER -> <<ch>>

EscapeText(chs, quotes) ==
    FlattenSeq([i \in DOMAIN chs |-> IF quotes /\ chs[i] = 34 THEN <<92, 34>> ELSE EscapeWchar(chs[i])])

(* ks_u8_read_escape_sequence behind the backslash, at byte i.               *)
HexCodes == (48..57) \cup (65..70) \cup (97..102)
OctalCodes == 48..55
HexDigitOf(c) == IF c <= 57 THEN c - 48 ELSE IF c <= 70 THEN c - 55 ELSE c - 87

ReadDigits(s, i, most, base, codes) ==
    LET n == Min({most} \cup {k \in 0..most : ByteAt(s, i + k) \notin codes}) IN
    [n |-> n, ch |-> FoldLeft(LAMBDA v, c : v * base + HexDigitOf(c), 0, SubSeq(s, i, i + n - 1))]

ReadEscape(s, i) ==
    LET name == SelectInSeq(Named, LAMBDA p : p[2] = s[i])
        octal == ReadDigits(s, i, 3, 8, OctalCodes)
        most == CASE s[i] = 120 -> 2 [] s[i] = 117 -> 4 [] s[i] = 85 -> 8 [] OTHER -> 0
        hex == ReadDigits(s, i + 1, most, 16, HexCodes)
    IN  CASE name # 0 -> [ch |-> Named[name][1], next |-> i + 1]
          [] s[i] \in OctalCodes -> [ch |-> octal.ch, next |-> i + octal.n]
          [] most > 0 /\ hex.n > 0 -> [ch |-> hex.ch, next |-> i + 1 + hex.n]
          [] OTHER -> [ch |-> s[i], next |-> i + 1]

(* ks_u8_unescape: characters as long as they fit. *)
UnescapeText(s, sz) ==
    LET read[n \in 0..Len(s)] ==
            IF n = 0 THEN [at |-> 1, out |-> <<>>, full |-> FALSE]
            ELSE LET r == read[n - 1]
                     e == IF s[r.at] = 92 /\ r.at < Len(s) THEN ReadEscape(s, r.at + 1)
                          ELSE [ch |-> s[r.at], next |-> r.at + 1]
                     utf == WcToUtf8(e.ch)
                 IN  IF r.full \/ r.at > Len(s) THEN r
                     ELSE IF Len(r.out) + Len(utf) > sz THEN [r EXCEPT !.full = TRUE]
                     ELSE [r EXCEPT !.at = e.next, !.out = @ \o utf]
    IN  read[Len(s)].out

-----------------------------------------------------------------------------
(* What is converted is a text of the instance. *)
TxtTypeOK == txt.kind \in {"bytes", "chars"} /\ txt.in \in Seq(TextBytes \cup CodePoints)

(* What ks_b64_encode writes, ks_b64_decode reads back, into any buffer with *)
(* two bytes more than the text; a smaller one gets a beginning of it.       *)
Base64Exact ==
    txt.kind = "bytes" =>
        LET n == Len(txt.in)  code == B64Encode(txt.in, 4 * n + 4) IN
        /\ Len(code) = 4 * ((n + 2) \div 3)
        /\ \A olen \in 3..MaxOut : B64Decode(code, olen) = SubSeq(txt.in, 1, Min({n, olen - 2}))
        /\ \A olen \in 2..MaxOut : LET cut == B64Encode(txt.in, olen) IN
               Len(cut) <= olen - 1 /\ cut = SubSeq(code, 1, Len(cut))

(* A control character below 16 is escaped with one digit, which swallows a  *)
(* digit behind it.                                                          *)
Ambiguous(s) == \E i \in 1..(Len(s) - 1) : /\ s[i] < 16 /\ ~\E p \in Range(Named) : p[1] = s[i]
                                           /\ s[i + 1] \in HexCodes

(* Characters come back from UTF-8 as they were, counted and found where     *)
(* they stand; in a buffer of any size the whole characters that fit are     *)
(* written; an escaped text comes back from ks_u8_unescape.                  *)
Utf8Exact ==
    txt.kind = "chars" =>
        LET utf == ToUtf8(txt.in, 4 * MaxText).s  n == Len(txt.in) IN
        /\ Chars(utf) = txt.in
        /\ ToUcs(utf, Len(utf), n + 1) = txt.in
        /\ \A k \in 0..n : LET b == Offset(utf, k) IN
               /\ SubSeq(utf, 1, b) = ToUtf8(SubSeq(txt.in, 1, k), 4 * MaxText).s
               /\ CharNum(utf, b) = k
               /\ ToUcs(utf, b, n + 1) = SubSeq(txt.in, 1, k)
        /\ \A ch \in CodePoints : StrChr(utf, ch) = SelectInSeq(txt.in, LAMBDA c : c = ch) - 1
        /\ \A sz \in 0..MaxOut : LET out == ToUtf8(txt.in, sz) IN
               Len(out.s) <= sz /\ Chars(out.s) = SubSeq(txt.in, 1, out.n)
        /\ ~Ambiguous(txt.in) => \A quotes \in BOOLEAN :
               UnescapeText(EscapeText(txt.in, quotes), 4 * MaxText) = utf
=============================================================================
