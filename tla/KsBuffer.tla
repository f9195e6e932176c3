------------------------------ MODULE KsBuffer ------------------------------
(***************************************************************************)
(* The dynamic buffer of libks (src/ks_buffer.c): bytes written behind     *)
(* those in use and read from the head.  The bytes read stay in front of   *)
(* the head, where ks_buffer_seek and ks_buffer_read_loop find them again, *)
(* until a write needs their room and moves the rest to the front, or      *)
(* makes the memory larger.                                                *)
(*                                                                         *)
(* `all' is what was written since the data were last moved to the front,  *)
(* `pos' how much of it has been read.  A write beyond max_len is not      *)
(* refused, and only a write within it moves the data to the front: when   *)
(* such a write finds no room behind them and the head is not at the front *)
(* it is put in the wrong place (`over', until the buffer is zeroed), or   *)
(* even past the memory (`past', after which nothing can be said).         *)
(***************************************************************************)
EXTENDS Integers, Sequences, FiniteSetsExt, SequencesExt, Functions

CONSTANTS BufBytes,     \* bytes; 10 is the newline, 13 the return, 0 ends text
          MaxWrite,     \* bound: bytes of one write
          MaxMemory,    \* bound: bytes the memory may grow to; more is a failed realloc
          BufShapes,    \* [blocksize, start_len, max_len] given to ks_buffer_create
          MaxLoops      \* loops given to ks_buffer_set_loops

ASSUME BufferConstants == MaxWrite \in Nat /\ MaxMemory \in Nat /\ MaxLoops \in Nat
ASSUME BufferShapes ==
    \A shape \in BufShapes :
        shape.blocksize \in Nat /\ shape.start_len \in 1..MaxMemory /\ shape.max_len \in Nat

VARIABLE buf

NewBuf(shape, loops) ==
    [mem |-> [i \in 1..shape.start_len |-> 0], head |-> 0, used |-> 0, actually_used |-> 0,
     max_len |-> shape.max_len, blocksize |-> shape.blocksize, loops |-> loops,
     all |-> <<>>, pos |-> 0, over |-> FALSE, past |-> FALSE]

BufInit == \E shape \in BufShapes, loops \in 0..MaxLoops : buf = NewBuf(shape, loops)

(* ks_buffer_read, ks_buffer_toss: at most what is in use. *)
Reading(b, k) == Min({b.used, k})

TakeOff(b, k) == [b EXCEPT !.used = @ - Reading(b, k), !.head = @ + Reading(b, k),
                           !.pos = @ + Reading(b, k)]

(* Mutant: actually_used stays what it was. *)
ToFrontLate(b) ==
    [b EXCEPT !.mem = [i \in DOMAIN @ |-> IF i <= b.used THEN @[b.head + i] ELSE @[i]], !.head = 0,
              !.all = SubSeq(@, b.pos + 1, Len(@)), !.pos = 0]

(* memmove to the front: what was read is gone. *)
ToFront(b) ==
    [b EXCEPT !.mem = [i \in DOMAIN @ |-> IF i <= b.used THEN @[b.head + i] ELSE @[i]], !.head = 0,
              !.actually_used = b.used, !.all = SubSeq(@, b.pos + 1, Len(@)), !.pos = 0]

(* Less than n of the memory is left behind what is taken.  The difference   *)
(* is a ks_size_t: below zero it is huge.                                    *)
Lacks(b, taken, n) == Len(b.mem) - taken \in 0..(n - 1)

(* The write goes beyond max_len. *)
Beyond(b, n) == b.max_len # 0 /\ b.used + n > b.max_len

(* The first step of a write: the data are moved to the front, or stay.  It  *)
(* goes wrong when they should have been moved.                              *)
Misplaced(b, n) == Lacks(b, b.actually_used, n) /\ b.head # 0

Arranged(b, n) ==
    IF Lacks(b, b.actually_used, n) /\ ~Beyond(b, n) THEN ToFront(b)
    ELSE [b EXCEPT !.over = b.over \/ Misplaced(b, n)]

(* The realloc, and the copy behind the bytes in use. *)
Grown(b, size) ==
    [b EXCEPT !.head = 0, !.mem = [i \in 1..size |-> IF i <= Len(b.mem) THEN b.mem[i] ELSE 0]]

PastEnd(b, end) == end > Len(b.mem)

Copied(b, data) ==
    LET end == b.head + b.used IN
    [b EXCEPT !.mem = [i \in DOMAIN b.mem |-> IF i \in (end + 1)..(end + Len(data))
                                              THEN data[i - end] ELSE b.mem[i]],
              !.used = b.used + Len(data), !.actually_used = b.actually_used + Len(data),
              !.all = b.all \o data, !.past = PastEnd(b, end + Len(data))]

(* ks_buffer_write: the buffer, and the ks_size_t it returns. *)
Write(b, data) ==
    LET n == Len(data)
        moved == Arranged(b, n)
        size == Len(b.mem) + Max({n, b.blocksize})
        grows == Lacks(moved, moved.used, n)
        c == IF grows THEN Grown(moved, size) ELSE moved
    IN  IF n = 0 THEN [b |-> b, ret |-> b.used]
        ELSE IF grows /\ size > MaxMemory THEN [b |-> [moved EXCEPT !.head = 0], ret |-> 0]
        ELSE [b |-> Copied(c, data), ret |-> c.used + n]

Zeroed(b) == [b EXCEPT !.used = 0, !.actually_used = 0, !.head = 0, !.all = <<>>, !.pos = 0,
                       !.over = FALSE]

-----------------------------------------------------------------------------
Datas == UNION {[1..n -> BufBytes] : n \in 0..MaxWrite}

(* MaxMemory also bounds what counts as used before a write. *)
BufWrite == buf.actually_used <= MaxMemory /\ \E data \in Datas : buf' = Write(buf, data).b

BufZwrite ==
    /\ buf.actually_used <= MaxMemory
    /\ \E data \in Datas :
           LET w == Write(buf, data) IN
           buf' = IF w.ret # 0 THEN w.b ELSE Write(Zeroed(w.b), data).b

BufRead == \E k \in 1..MaxWrite : buf' = TakeOff(buf, k)

(* ks_buffer_seek: from the start of what is kept. *)
BufSeek == \E k \in 0..MaxWrite :
    /\ buf.used > 0
    /\ buf' = [buf EXCEPT !.used = buf.actually_used - Reading(buf, k), !.head = Reading(buf, k),
                          !.pos = Reading(buf, k)]

(* ks_buffer_read_loop: a short read starts again at the front, loops times. *)
BufReadLoop == \E k \in 1..MaxWrite :
    LET b == TakeOff(buf, k)
        again == [b EXCEPT !.head = 0, !.used = b.actually_used, !.pos = 0, !.loops = @ - 1]
    IN  buf' = IF buf.used < k /\ b.loops # 0 THEN TakeOff(again, k - buf.used) ELSE b

(* ks_buffer_read_packet: up to an empty line, if it sees one.  It looks one *)
(* byte behind those in use, where stray is the byte outside of the memory.  *)
Byte(b, i, stray) == IF i <= Len(b.mem) THEN b.mem[i] ELSE stray

PacketLen(b, stray) ==
    LET at(i) == Byte(b, b.head + i, stray)
        after(i) == IF at(i + 1) = 13 THEN i + 2 ELSE i + 1
        text(i) == \A j \in 1..i : at(j) # 0
        ends == {i \in 1..b.used : text(i) /\ at(i) = 10 /\ after(i) <= b.used + 1 /\ at(after(i)) = 10}
    IN  IF ends = {} THEN 0 ELSE after(Min(ends))

BufReadPacket == \E k \in 1..MaxWrite, stray \in {0, 10} :
    buf' = TakeOff(buf, Min({k, PacketLen(buf, stray)}))

BufZero == buf' = Zeroed(buf)

(* After a copy past the memory anything may happen. *)
BufNext ==
    /\ ~buf.past
    /\ BufWrite \/ BufZwrite \/ BufRead \/ BufSeek \/ BufReadLoop \/ BufReadPacket \/ BufZero

BufSpec == BufInit /\ [][BufNext]_buf

-----------------------------------------------------------------------------
(* The memory is no larger than it may be, and neither the head nor what is  *)
(* in use goes beyond what counts as used.                                   *)
BufTypeOK ==
    /\ buf.mem \in Seq(BufBytes \cup {0}) /\ Len(buf.mem) <= MaxMemory
    /\ buf.actually_used \in 0..(MaxMemory + MaxWrite) /\ buf.loops \in 0..MaxLoops
    /\ buf.used \in 0..buf.actually_used /\ buf.head \in 0..(buf.actually_used - buf.used)
    /\ buf.all \in Seq(BufBytes) /\ buf.pos \in 0..buf.actually_used
    /\ buf.over \in BOOLEAN /\ buf.past \in BOOLEAN

(* However reads, seeks, moves to the front and growth follow each other,    *)
(* the bytes kept are those written, in order, the head stands at the first  *)
(* one not read, and nothing lies outside of the memory: always in a buffer  *)
(* without max_len, and in one with it unless a write beyond max_len found   *)
(* no room behind the data while the head was not at the front.              *)
BytesKept ==
    /\ buf.actually_used = Len(buf.all) /\ buf.used = Len(buf.all) - buf.pos
    /\ ~buf.over => /\ buf.actually_used <= Len(buf.mem) /\ buf.head = buf.pos /\ ~buf.past
                    /\ SubSeq(buf.mem, 1, buf.actually_used) = buf.all
    /\ buf.over => buf.max_len # 0

(* ks_buffer_write returns 0 when there is no space (ks_buffer.h): it copies *)
(* nothing past the memory.                                                  *)
NothingPast == ~buf.past
=============================================================================
