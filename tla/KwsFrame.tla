------------------------------ MODULE KwsFrame ------------------------------
(***************************************************************************)
(* Frames of an established web socket (src/kws.c): kws_read_frame and the *)
(* reads under it, kws_write_frame and the write under it, and kws_close   *)
(* as they call it.                                                        *)
(*                                                                         *)
(* What the peer sends is a script, a sequence of frames.  Its bytes are   *)
(* numbered from 0, and a byte in a buffer is its number, so that what was *)
(* read can be compared with what was sent.  recv and SSL_read hand over   *)
(* any part of what they are asked for, or nothing yet, the end of the     *)
(* stream, or an error.  `wire` lists the frames written: their size, the  *)
(* bytes of it that went out, and the result the caller was given.         *)
(***************************************************************************)
EXTENDS Integers, Sequences, FiniteSetsExt, SequencesExt, Functions

CONSTANTS Scripts,     \* what peers may send
          BlockN,      \* WS_BLOCK / 10: tries of a blocking read (1000)
          MaxX,        \* tries after which any read gives up (10000)
          MaxZero,     \* empty reads that kws_raw_read_blocking accepts (10)
          BodyLen,     \* bbuflen at the start (64K)
          PayloadMax,  \* payload_size_max, 0 for no limit
          Unread,      \* unprocessed_buffer_len that the handshake may leave
          WriteLens,   \* payloads that the application writes
          MaxWrites    \* bound on the writes

ASSUME FrameConstants ==
    /\ BlockN \in Nat \ {0} /\ MaxX \in Nat \ {0} /\ MaxZero \in Nat \ {0}
    /\ BodyLen \in Nat \ {0} /\ PayloadMax \in Nat /\ MaxWrites \in Nat
    /\ Unread \subseteq Nat /\ WriteLens \subseteq Nat
    /\ BlockN <= MaxX

FrameOps == {"CONTINUATION", "TEXT", "PING", "CLOSE", "RESERVED"}

(* A frame: its opcode, and the bytes of its mask, longer length and payload. *)
PeerFrames == [op : FrameOps, fin : BOOLEAN, mask : {0, 4}, ext : {0, 2, 8}, len : Nat]

ASSUME PeerSendsFrames == Scripts \subseteq Seq(PeerFrames)

VARIABLE kws           \* struct kws_s and the local variables of the call

(***************************************************************************)
(* The stream.  A frame is 2 bytes, 0, 2 or 8 bytes of length, 0 or 4 of   *)
(* mask, and its payload.                                                  *)
(***************************************************************************)
HeadSize(f) == 2 + f.mask + f.ext
FrameSize(f) == HeadSize(f) + f.len

(* Where the n-th frame ends. *)
EndOf(s, n) ==
    LET end[i \in 0..Len(s)] == IF i = 0 THEN 0 ELSE end[i - 1] + FrameSize(s[i]) IN end[n]

Total(s) == EndOf(s, Len(s))

(* The number of the frame that starts at byte p, 0 if none does. *)
FrameAt(s, p) ==
    LET at == {i \in DOMAIN s : EndOf(s, i - 1) = p}
    IN  IF at = {} THEN 0 ELSE Min(at)

Bytes(from, n) == [i \in 1..n |-> from + i - 1]
Payload(s, i) == Bytes(EndOf(s, i - 1) + HeadSize(s[i]), s[i].len)

FrameSteps == {"idle", "hdr", "hdr2", "parse", "mask", "ext", "payload", "body"}

NewKws(s, blocking, unread) ==
    [script |-> s, block |-> blocking, unprocessed |-> unread, pos |-> 0,
     eof |-> FALSE, x |-> 0, zero_reads |-> 0, down |-> FALSE,
     pc |-> "idle", start |-> 0, frame |-> 0, datalen |-> 0, frag |-> FALSE,
     body |-> <<>>, rplen |-> 0, bbuflen |-> BodyLen, bbuffer |-> BodyLen,
     read |-> <<>>, refused |-> {}, wire |-> <<>>]

FrameInit == \E s \in Scripts, blocking \in BOOLEAN :
                \E n \in {u \in Unread : u <= Total(s)} : kws = NewKws(s, blocking, n)

-----------------------------------------------------------------------------
(* kws_raw_read(n bytes): the results r it may give, with the bytes it      *)
(* takes off the stream and the new x.  What the handshake left over comes  *)
(* first.  x grows with the call and with every try that found nothing; a   *)
(* read at the limit fails even if the last try brought data.               *)
RawReads(n, blocking) ==
    LET left == Total(kws.script) - kws.pos
        got == Min({kws.unprocessed, n})
        limit(y) == y >= MaxX \/ (blocking /\ y >= BlockN)
        tries == {kws.x + 1} \cup (IF blocking THEN (kws.x + 2)..(BlockN - 1) ELSE {})
        some == IF kws.eof THEN {0} ELSE 0..Min({n, left})
        nothing == IF blocking THEN Max({kws.x + 2, BlockN}) ELSE kws.x + 1
    IN  IF kws.unprocessed > 0
        THEN {[r |-> got, take |-> got, x |-> kws.x]}
        ELSE {[r |-> IF limit(y) THEN -1 ELSE d, take |-> d, x |-> IF limit(y) THEN y ELSE 0] :
                  y \in tries, d \in some}
             \cup {[r |-> IF limit(nothing) THEN -1 ELSE -2, take |-> 0, x |-> nothing],
                   [r |-> -1, take |-> 0, x |-> nothing]}

(* kws_string_read: room for a final zero byte is kept. *)
StringReads(size, blocking) ==
    IF size < 2 THEN {[r |-> size - 1, take |-> 0, x |-> kws.x]}
                ELSE RawReads(size - 1, blocking)

(* The stream and the counters after a read with outcome o. *)
AfterRead(o) ==
    [kws EXCEPT !.pos = @ + o.take, !.x = o.x,
                !.unprocessed = Max({0, @ - o.take}),
                !.eof = @ \/ (o.r = 0 /\ kws.unprocessed = 0)]

(* kws_close as the reader calls it: the call ends, the link is down. *)
Closed(k, why) == [k EXCEPT !.down = TRUE, !.pc = "idle", !.refused = @ \cup {why}]

-----------------------------------------------------------------------------
ReadFrame ==
    /\ kws.pc = "idle" /\ ~kws.down
    /\ kws' = [kws EXCEPT !.pc = "hdr", !.frag = FALSE, !.body = <<>>]

(* The first 9 bytes, or as many as there are.  Only here does a read that  *)
(* may not block give the call up, with what was assembled so far.          *)
ReadHeader ==
    /\ kws.pc = "hdr"
    /\ \E o \in StringReads(9 + 1, kws.block) :
          LET k == [AfterRead(o) EXCEPT !.start = kws.pos, !.datalen = o.r] IN
          kws' = CASE o.r = -2 -> [k EXCEPT !.pc = "idle"]
                   [] o.r = -1 -> Closed(k, "read")
                   [] o.r \in 0..1 -> [k EXCEPT !.pc = "hdr2"]
                   [] OTHER -> [k EXCEPT !.pc = "parse"]

ReadHeaderAgain ==
    /\ kws.pc = "hdr2"
    /\ \E o \in StringReads(9 - kws.datalen, TRUE) :
          LET k == AfterRead(o) IN
          kws' = IF o.r < 0 \/ kws.datalen + o.r < 2
                 THEN Closed(k, "read")
                 ELSE [k EXCEPT !.datalen = @ + o.r, !.pc = "parse"]

(* Opcode, fin and mask. *)
ParseHeader ==
    /\ kws.pc = "parse"
    /\ LET n == FrameAt(kws.script, kws.start)
           f == kws.script[n]
           k == [kws EXCEPT !.frame = n]
       IN  kws' = CASE n = 0 -> Closed(k, "garbled")
                    [] n # 0 /\ f.op = "CLOSE" -> Closed(k, "peer")
                    [] n # 0 /\ f.op = "RESERVED" -> Closed(k, "opcode")
                    [] OTHER ->
                         [k EXCEPT !.pc = "mask", !.zero_reads = 0,
                                   !.frag = IF f.fin THEN @ /\ f.op # "CONTINUATION"
                                                     ELSE @ \/ f.op # "CONTINUATION"]

(* kws_string_read_blocking until the header is complete: the mask, then the *)
(* longer length.                                                            *)
FillHeader ==
    /\ kws.pc \in {"mask", "ext"}
    /\ LET f == kws.script[kws.frame]
           need == 2 + f.mask + (IF kws.pc = "ext" THEN f.ext ELSE 0)
           next == IF kws.pc = "mask" THEN "ext" ELSE "payload"
       IN  IF need <= kws.datalen
           THEN kws' = [kws EXCEPT !.pc = next, !.zero_reads = 0]
           ELSE \E o \in StringReads(need - kws.datalen + 1, TRUE) :
                    LET k == AfterRead(o) IN
                    kws' = CASE o.r < 0 -> Closed(k, "read")
                             [] o.r = 0 -> IF kws.zero_reads + 1 = MaxZero
                                           THEN Closed(k, "read")
                                           ELSE [k EXCEPT !.zero_reads = @ + 1]
                             [] OTHER -> [k EXCEPT !.datalen = @ + o.r, !.zero_reads = 0]

(* Mutant: what was assembled before the payload is not counted. *)
GrowBodyToPayload(k, plen) ==
    IF plen >= k.bbuflen THEN [k EXCEPT !.bbuflen = plen + 1] ELSE k

(* Room in bbuffer for what is there, the payload and a zero byte. *)
GrowBody(k, plen) ==
    IF Len(k.body) + plen >= k.bbuflen
    THEN [k EXCEPT !.bbuflen = Len(k.body) + plen + 1] ELSE k

(* The part of the payload that came with the header goes to the body. *)
BeginPayload ==
    /\ kws.pc = "payload"
    /\ LET f == kws.script[kws.frame]
           came == kws.datalen - HeadSize(f)
           k == GrowBody(kws, f.len)
       IN  kws' = CASE came > f.len -> Closed(kws, "overread")
                    [] /\ came <= f.len /\ k.bbuflen # kws.bbuflen
                       /\ PayloadMax # 0 /\ k.bbuflen > PayloadMax -> Closed(k, "size")
                    [] OTHER ->
                         [k EXCEPT !.bbuffer = k.bbuflen, !.rplen = came, !.pc = "body",
                                   !.body = @ \o Bytes(kws.start + HeadSize(f), came)]

ReadPayload ==
    /\ kws.pc = "body"
    /\ LET need == kws.script[kws.frame].len - kws.rplen IN
       /\ need > 0
       /\ \E o \in StringReads(need + 1, TRUE) :
             LET k == AfterRead(o) IN
             kws' = IF o.r < 1
                    THEN Closed(k, "read")
                    ELSE [k EXCEPT !.rplen = @ + o.r,
                                   !.body = @ \o Bytes(kws.pos, o.r)]

(* The frame is complete: on to the next fragment, or back to the caller. *)
EndFrame ==
    /\ kws.pc = "body" /\ kws.rplen = kws.script[kws.frame].len
    /\ kws' = IF kws.frag
              THEN [kws EXCEPT !.pc = "hdr"]
              ELSE [kws EXCEPT !.pc = "idle", !.read = Append(@, kws.body)]

-----------------------------------------------------------------------------
(* kws_raw_write(n bytes): the bytes that go out and the result.  The tries *)
(* may run out after a part went out, with the last one successful or not,  *)
(* and the socket may fail.                                                 *)
RawWrites(n) == {[out |-> n, r |-> n]}
                \cup {[out |-> w, r |-> w] : w \in 1..(n - 1)}
                \cup {[out |-> w, r |-> -1] : w \in 0..(n - 1)}

(* The header that kws_write_frame builds. *)
WriteHead(len, mask) == 2 + mask + (IF len < 126 THEN 0 ELSE IF len < 65536 THEN 2 ELSE 8)

WriteResult(r, size, len) == IF r <= 0 \/ r # size THEN r ELSE len

(* Reads and writes share nothing but `down`: those who write here have a     *)
(* silent peer.                                                               *)
WriteFrame ==
    /\ kws.pc = "idle" /\ ~kws.down /\ kws.script = <<>> /\ Len(kws.wire) < MaxWrites
    /\ \E len \in WriteLens, mask \in {0, 4} :
          LET size == WriteHead(len, mask) + len IN
          \E o \in RawWrites(size) :
             kws' = [kws EXCEPT !.wire = Append(@,
                        [len |-> len, size |-> size, out |-> o.out,
                         ret |-> WriteResult(o.r, size, len)])]

FrameNext == \/ ReadFrame \/ ReadHeader \/ ReadHeaderAgain \/ ParseHeader \/ FillHeader
             \/ BeginPayload \/ ReadPayload \/ EndFrame \/ WriteFrame

FrameSpec == FrameInit /\ [][FrameNext]_kws

(* A thread in kws_read_frame goes on: on a socket that does not block, as    *)
(* ks_socket_common_setup leaves it, every wait in it is bounded.  (One that  *)
(* blocks, and a peer that never stops, are the business of KwsLink.)         *)
FrameReading == \/ ReadHeader \/ ReadHeaderAgain \/ ParseHeader \/ FillHeader
                \/ BeginPayload \/ ReadPayload \/ EndFrame

-----------------------------------------------------------------------------
(* Every field holds a value of its type; the stream is never read past its end. *)
FrameTypeOK ==
    /\ kws.pos \in 0..Total(kws.script) /\ kws.x \in 0..(MaxX + 1)
    /\ kws.pc \in FrameSteps /\ kws.frame \in 0..Len(kws.script)
    /\ kws.datalen \in -2..14 /\ kws.rplen \in Nat

(* What kws_read_frame returned, message after message, followed by what it   *)
(* has assembled, is the payload of the peer's frames, every byte once and in *)
(* order, however the stream was cut and however much was read ahead.  For a  *)
(* socket that may not block this is so up to the first fragmented message:   *)
(* there a header that has not come yet throws the fragments read away.       *)
NothingSkipped ==
    LET inside == kws.pc \in {"mask", "ext", "payload", "body"}
        done == IF inside THEN kws.frame - 1 ELSE kws.frame
        part == IF kws.pc # "body" THEN <<>>
                ELSE SubSeq(Payload(kws.script, kws.frame), 1, kws.rplen)
    IN  ~kws.down /\ (kws.block \/ \A i \in 1..kws.frame : kws.script[i].fin) =>
            FlattenSeq(kws.read) \o (IF kws.pc = "idle" THEN <<>> ELSE kws.body)
              = FlattenSeq([i \in 1..done |-> Payload(kws.script, i)]) \o part

(* A header is only ever looked for where a frame starts. *)
HeadersFound == "garbled" \notin kws.refused

(* The payload that is being read, what was assembled before it and the final *)
(* zero byte fit into the memory behind bbuffer.                              *)
BodyFits == kws.pc = "body" =>
    Len(kws.body) + (kws.script[kws.frame].len - kws.rplen) + 1 <= kws.bbuffer

(* kws->x counts over calls with different limits, but a read in the middle   *)
(* of a frame always has its whole time: x is 0 when it starts.               *)
FullPatience == kws.pc \in {"hdr2", "parse", "mask", "ext", "payload", "body"} => kws.x = 0

(* A frame that went out only in part is reported as written, with the length *)
(* of the payload for a result, in one case only: exactly as many bytes are   *)
(* missing as the header has.                                                 *)
CutFrameTold == \A i \in DOMAIN kws.wire :
    LET w == kws.wire[i] IN
    w.ret = w.len => w.out = w.size \/ w.out = w.len

(* What kws_read_frame does with a peer's frames, and kws_write_frame with    *)
(* ours, taken together, each with the exception it names: no byte skipped,   *)
(* no header misread, no overrun, no read cut short by the retries of an      *)
(* earlier one, no cut frame untold.                                          *)
FramesSound == NothingSkipped /\ HeadersFound /\ BodyFits /\ FullPatience /\ CutFrameTold

(* However a peer stalls that has only so many frames to send, a call of      *)
(* kws_read_frame on a socket that does not block comes to an end.            *)
ReadsEnd == (kws.pc # "idle") ~> (kws.pc = "idle")
=============================================================================
