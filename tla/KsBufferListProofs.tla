------------------------- MODULE KsBufferListProofs -------------------------
(***************************************************************************)
(* Proofs about KsBuffer, for any bytes and shapes, and about KsList, for  *)
(* any data and sizes.                                                     *)
(***************************************************************************)
EXTENDS KsBuffer, KsList, FiniteSetTheorems, SequenceTheorems, WellFoundedInduction, TLAPS

-----------------------------------------------------------------------------
(* The bytes of a buffer (KsBuffer)                                       *)

Cells == BufBytes \cup {0}

BufRecord ==
    [mem : Seq(Cells), head : Nat, used : Nat, actually_used : Nat, max_len : Nat,
     blocksize : Nat, loops : 0..MaxLoops, all : Seq(BufBytes), pos : Nat,
     over : BOOLEAN, past : BOOLEAN]

\* What holds of every buffer, also after a write that was put in the wrong
\* place: the counts agree with each other, and only max_len lets it happen.
Loose(b) ==
    /\ b.actually_used = Len(b.all) /\ b.used = Len(b.all) - b.pos
    /\ b.head + b.used <= b.actually_used /\ Len(b.mem) <= MaxMemory
    /\ b.over => b.max_len # 0

\* What BytesKept says of one buffer, byte by byte, unless that has happened.
Kept(b) ==
    /\ b.actually_used <= Len(b.mem) /\ b.head = b.pos /\ ~b.past
    /\ \A j \in 1..Len(b.all) : b.mem[j] = b.all[j]

\* The two together, and the bound on what counts as used.
Sound(b) ==
    /\ b \in BufRecord /\ Loose(b) /\ (~b.over => Kept(b))
    /\ b.actually_used <= MaxMemory + MaxWrite

BufIInv == Sound(buf)

\* The bytes are the same when each of them is.
LEMMA ByteByByte ==
    ASSUME NEW mem \in Seq(Cells), NEW all \in Seq(BufBytes), Len(all) <= Len(mem),
           \A j \in 1..Len(all) : mem[j] = all[j]
    PROVE  SubSeq(mem, 1, Len(all)) = all
<1>1. Len(all) \in Nat /\ Len(mem) \in Nat /\ \A j \in 1..Len(all) : mem[j] \in Cells
  BY DEF Cells
<1>2. /\ SubSeq(mem, 1, Len(all)) \in Seq(Cells) /\ Len(SubSeq(mem, 1, Len(all))) = Len(all)
      /\ \A j \in 1..Len(all) : SubSeq(mem, 1, Len(all))[j] = mem[j]
  BY <1>1, SubSeqProperties
<1>3. all \in Seq(Cells)
  BY SeqMonotonic DEF Cells
<1> QED
  BY <1>1, <1>2, <1>3, SeqEqual

\* The invariant says what the run checks.
LEMMA BufIInvMeans == BufIInv => BufTypeOK /\ BytesKept
<1> SUFFICES ASSUME BufIInv PROVE BufTypeOK /\ BytesKept
  OBVIOUS
<1>1. PICK b \in BufRecord : b = buf /\ Loose(b) /\ (~b.over => Kept(b))
                            /\ b.actually_used <= MaxMemory + MaxWrite
  BY DEF BufIInv, Sound
<1>2. /\ Len(b.all) \in Nat /\ Len(b.mem) \in Nat /\ MaxMemory \in Nat /\ MaxWrite \in Nat
      /\ b.head \in Nat /\ b.used \in Nat /\ b.pos \in Nat /\ b.actually_used \in Nat
  BY BufferConstants DEF BufRecord
<1>3. ASSUME ~b.over PROVE SubSeq(b.mem, 1, b.actually_used) = b.all
  BY <1>1, <1>3, ByteByByte DEF BufRecord, Loose, Kept
<1>4. /\ b.actually_used \in 0..(MaxMemory + MaxWrite) /\ b.used \in 0..b.actually_used
      /\ b.head \in 0..(b.actually_used - b.used) /\ b.pos \in 0..b.actually_used
  BY <1>1, <1>2 DEF Loose
<1>5. BufTypeOK
  BY <1>1, <1>4 DEF BufTypeOK, BufRecord, Loose, Cells
<1>6. BytesKept
  BY <1>1, <1>3 DEF BytesKept, Loose, Kept
<1> QED
  BY <1>5, <1>6

\* The least of two numbers, and the greatest.
LEMMA LeastOfTwo ==
    ASSUME NEW x \in Nat, NEW y \in Nat
    PROVE  /\ Min({x, y}) = IF x <= y THEN x ELSE y
           /\ Max({x, y}) = IF x <= y THEN y ELSE x
BY DEF Min, Max

\* What is read leaves the bytes in use and joins those in front of the head;
\* what is written joins the bytes in use.
LEMMA Shifted ==
    ASSUME NEW used \in Nat, NEW head \in Nat, NEW pos \in Nat, NEW all \in Nat, NEW r \in Nat,
           used = all - pos, head + used <= all
    PROVE  /\ used - r = all - (pos + r) /\ (head + r) + (used - r) <= all
           /\ used + r = (all + r) - pos /\ head + (used + r) <= all + r
OBVIOUS

\* A set of numbers that is not empty has a least one.
LEMMA LeastNumber ==
    ASSUME NEW S, S \subseteq Nat, S # {}
    PROVE  \E x \in S : \A y \in S : x <= y
<1>1. \E x \in S : \A y \in S : ~(<<y, x>> \in OpToRel(<, Nat))
  BY NatLessThanWellFounded, WFMin
<1>2. \A x, y \in Nat : <<y, x>> \in OpToRel(<, Nat) <=> y < x
  BY DEF OpToRel
<1>3. \E R : /\ \E x \in S : \A y \in S : ~(<<y, x>> \in R)
             /\ \A x, y \in Nat : <<y, x>> \in R <=> y < x
  BY <1>1, <1>2, Zenon
<1>4. PICK R : /\ \E x \in S : \A y \in S : ~(<<y, x>> \in R)
               /\ \A x, y \in Nat : <<y, x>> \in R <=> y < x
  BY <1>3
<1>5. PICK x \in S : \A y \in S : ~(<<y, x>> \in R)
  BY <1>4
<1>6. ASSUME NEW y \in S PROVE x <= y
  <2>1. x \in Nat /\ y \in Nat /\ ~(y < x)
    BY <1>4, <1>5
  <2> QED
    BY <2>1
<1> QED
  BY <1>6

\* It is Min of the set.
LEMMA MinIn ==
    ASSUME NEW S \in SUBSET Nat, S # {}
    PROVE  Min(S) \in S /\ \A x \in S : Min(S) <= x
BY LeastNumber, Zenon DEF Min

-----------------------------------------------------------------------------
(* What each function does to a buffer                                     *)

\* ks_buffer_read and ks_buffer_toss go on by at most what is in use.
LEMMA TakeOffKept ==
    ASSUME NEW b \in BufRecord, Sound(b), NEW n \in Nat
    PROVE  Sound(TakeOff(b, n)) /\ TakeOff(b, n).past = b.past
<1>1. PICK r \in Nat : r = Reading(b, n) /\ r <= b.used
  <2>1. b.used \in Nat
    BY DEF BufRecord
  <2> QED
    BY <2>1, LeastOfTwo DEF Reading
<1>2. TakeOff(b, n) = [b EXCEPT !.used = b.used - r, !.head = b.head + r, !.pos = b.pos + r]
  BY <1>1 DEF TakeOff, BufRecord
<1>3. PICK c : c = TakeOff(b, n)
  OBVIOUS
<1>4. c = [b EXCEPT !.used = b.used - r, !.head = b.head + r, !.pos = b.pos + r]
  BY <1>2, <1>3
<1>5. b.used - r \in Nat /\ b.head + r \in Nat /\ b.pos + r \in Nat /\ b.used \in Nat
  BY <1>1, SMTT(40) DEF BufRecord
<1>6. c \in BufRecord
  BY <1>4, <1>5 DEF BufRecord
<1>7. /\ c.used = b.used - r /\ c.head = b.head + r /\ c.pos = b.pos + r /\ c.mem = b.mem
      /\ c.all = b.all /\ c.actually_used = b.actually_used /\ c.max_len = b.max_len
      /\ c.over = b.over /\ c.past = b.past
  BY <1>4 DEF BufRecord
<1>8. Len(b.all) \in Nat /\ b.pos \in Nat /\ b.head \in Nat /\ b.actually_used \in Nat
  BY DEF BufRecord
<1>9. Loose(c)
  <2>1. /\ b.actually_used = Len(b.all) /\ b.used = Len(b.all) - b.pos
        /\ b.head + b.used <= b.actually_used /\ Len(b.mem) <= MaxMemory
        /\ b.over => b.max_len # 0
    BY DEF Sound, Loose
  <2>2. b.used - r = Len(b.all) - (b.pos + r) /\ (b.head + r) + (b.used - r) <= Len(b.all)
    <3>1. b.head + b.used <= Len(b.all)
      BY <2>1
    <3>2. PICK u \in Nat, h \in Nat, q \in Nat, l \in Nat :
            u = b.used /\ h = b.head /\ q = b.pos /\ l = Len(b.all)
      BY <1>5, <1>8
    <3>3. u = l - q /\ h + u <= l
      BY <2>1, <3>1, <3>2
    <3>4. u - r = l - (q + r) /\ (h + r) + (u - r) <= l
      BY <3>3, Shifted
    <3> QED
      BY <3>2, <3>4
  <2> QED
    BY <1>7, <2>1, <2>2 DEF Loose
<1>10. ~c.over => Kept(c)
  BY <1>7 DEF Sound, Kept
<1> QED
  BY <1>3, <1>6, <1>7, <1>9, <1>10 DEF Sound

\* Memory, byte by byte.
LEMMA MemoryIs ==
    ASSUME NEW m \in Nat, NEW f, f = [j \in 1..m |-> f[j]], \A j \in 1..m : f[j] \in Cells
    PROVE  f \in Seq(Cells) /\ Len(f) = m
<1>1. f \in [1..m -> Cells]
  BY Zenon
<1>2. f \in Seq(Cells)
  BY <1>1, SeqDef
<1> QED
  BY <1>1, <1>2, LenProperties

\* The memmove to the front keeps what has not been read.
LEMMA ToFrontKept ==
    ASSUME NEW b \in BufRecord, Loose(b), b.actually_used <= Len(b.mem)
    PROVE  /\ ToFront(b) \in BufRecord /\ Loose(ToFront(b)) /\ (Kept(b) => Kept(ToFront(b)))
           /\ ToFront(b).used = b.used /\ ToFront(b).blocksize = b.blocksize
           /\ Len(ToFront(b).mem) = Len(b.mem) /\ ToFront(b).actually_used = b.used
           /\ ToFront(b).head = 0 /\ ToFront(b).over = b.over /\ ToFront(b).past = b.past
<1> DEFINE mem == [j \in DOMAIN b.mem |-> IF j <= b.used THEN b.mem[b.head + j] ELSE b.mem[j]]
           all == SubSeq(b.all, b.pos + 1, Len(b.all))
<1>1. /\ Len(b.mem) \in Nat /\ Len(b.all) \in Nat /\ b.pos \in Nat /\ b.used \in Nat /\ b.head \in Nat
      /\ b.mem \in Seq(Cells) /\ b.all \in Seq(BufBytes)
      /\ \A j \in 1..Len(b.mem) : b.mem[j] \in Cells
      /\ \A j \in 1..Len(b.all) : b.all[j] \in BufBytes
  BY DEF BufRecord
<1>2. /\ b.used = Len(b.all) - b.pos /\ Len(b.all) <= Len(b.mem)
      /\ b.head + b.used <= Len(b.mem) /\ Len(b.mem) <= MaxMemory /\ (b.over => b.max_len # 0)
  BY <1>1 DEF Loose
<1>3. DOMAIN b.mem = 1..Len(b.mem)
  BY <1>1
<1>4. mem \in Seq(Cells) /\ Len(mem) = Len(b.mem)
  <2>1. \A j \in 1..Len(b.mem) : mem[j] \in Cells
    BY <1>1, <1>2, <1>3, SMTT(40)
  <2> QED
    BY <1>1, <1>3, <2>1, MemoryIs, ZenonT(60)
<1>5. all \in Seq(BufBytes) /\ Len(all) = b.used /\ \A j \in 1..b.used : all[j] = b.all[b.pos + j]
  <2>1. /\ all \in Seq(BufBytes)
        /\ Len(all) = IF b.pos + 1 <= Len(b.all) THEN Len(b.all) - (b.pos + 1) + 1 ELSE 0
        /\ \A j \in 1..Len(b.all) - (b.pos + 1) + 1 : all[j] = b.all[(b.pos + 1) + j - 1]
    <3>1. b.pos + 1 \in Int /\ Len(b.all) \in Int /\ \A j \in b.pos + 1..Len(b.all) : b.all[j] \in BufBytes
      BY <1>1
    <3> QED
      BY <3>1, SubSeqProperties, SMTT(40)
  <2> HIDE DEF all
  <2>2. Len(all) = b.used
    BY <1>1, <1>2, <2>1
  <2>3. ASSUME NEW j \in 1..b.used PROVE all[j] = b.all[b.pos + j]
    <3>1. j \in 1..Len(b.all) - (b.pos + 1) + 1 /\ (b.pos + 1) + j - 1 = b.pos + j
      BY <1>1, <1>2, SMTT(40)
    <3> QED
      BY <2>1, <3>1
  <2> QED
    BY <2>1, <2>2, <2>3
<1> HIDE DEF all
<1>6. ASSUME Kept(b), NEW j \in 1..b.used PROVE mem[j] = all[j]
  <2>1. j \in 1..Len(b.mem) /\ b.pos + j \in 1..Len(b.all) /\ j <= b.used
    BY <1>1, <1>2, SMTT(40)
  <2>2. b.head = b.pos /\ \A i \in 1..Len(b.all) : b.mem[i] = b.all[i]
    BY <1>6 DEF Kept
  <2>3. mem[j] = b.mem[b.pos + j]
    BY <1>3, <2>1, <2>2
  <2> QED
    BY <1>5, <2>1, <2>2, <2>3
<1> HIDE DEF mem
<1>7. PICK c : c = ToFront(b)
  OBVIOUS
<1>8. c = [b EXCEPT !.mem = mem, !.head = 0, !.actually_used = b.used, !.all = all, !.pos = 0]
  BY <1>7 DEF ToFront, mem, all, BufRecord
<1>9. c \in BufRecord
  BY <1>1, <1>4, <1>5, <1>8 DEF BufRecord
<1>10. /\ c.mem = mem /\ c.head = 0 /\ c.used = b.used /\ c.actually_used = b.used /\ c.all = all
       /\ c.pos = 0 /\ c.max_len = b.max_len /\ c.blocksize = b.blocksize
       /\ c.over = b.over /\ c.past = b.past
  BY <1>8 DEF BufRecord
<1>11. Loose(c)
  BY <1>1, <1>2, <1>4, <1>5, <1>10 DEF Loose
<1>12. ASSUME Kept(b) PROVE Kept(c)
  <2>1. ~b.past
    BY <1>12 DEF Kept
  <2>2. c.actually_used <= Len(c.mem)
    BY <1>1, <1>2, <1>4, <1>10
  <2>3. \A j \in 1..Len(c.all) : c.mem[j] = c.all[j]
    BY <1>5, <1>6, <1>10, <1>12
  <2> QED
    BY <1>10, <2>1, <2>2, <2>3 DEF Kept
<1> QED
  BY <1>4, <1>7, <1>9, <1>10, <1>11, <1>12

\* Growing keeps the bytes and has room for more.
LEMMA GrownKept ==
    ASSUME NEW b \in BufRecord, Loose(b), NEW size \in Nat, Len(b.mem) <= size, size <= MaxMemory
    PROVE  /\ Grown(b, size) \in BufRecord /\ Loose(Grown(b, size))
           /\ Kept(b) /\ b.head = 0 => Kept(Grown(b, size))
           /\ Len(Grown(b, size).mem) = size /\ Grown(b, size).used = b.used
           /\ Grown(b, size).actually_used = b.actually_used
           /\ Grown(b, size).over = b.over
<1>0. PICK c : c = Grown(b, size)
  OBVIOUS
<1> DEFINE mem == [j \in 1..size |-> IF j <= Len(b.mem) THEN b.mem[j] ELSE 0]
<1>1. /\ Len(b.mem) \in Nat /\ b.mem \in Seq(Cells) /\ Len(b.all) \in Nat
      /\ b.head \in Nat /\ b.used \in Nat /\ b.actually_used \in Nat
      /\ \A j \in 1..Len(b.mem) : b.mem[j] \in Cells
  BY DEF BufRecord
<1>2. mem \in Seq(Cells) /\ Len(mem) = size
  <2>1. \A j \in 1..size : mem[j] \in Cells
    BY <1>1 DEF Cells
  <2> QED
    BY <2>1, MemoryIs
<1>3. \A j \in 1..Len(b.mem) : mem[j] = b.mem[j]
  BY <1>1
<1> HIDE DEF mem
<1>4. c = [b EXCEPT !.head = 0, !.mem = mem]
  BY <1>0 DEF mem, Grown
<1>5. c \in BufRecord
  BY <1>2, <1>4 DEF BufRecord
<1>6. /\ c.used = b.used /\ c.head = 0 /\ c.pos = b.pos /\ c.mem = mem
      /\ c.all = b.all /\ c.actually_used = b.actually_used /\ c.max_len = b.max_len
      /\ c.over = b.over /\ c.past = b.past
  BY <1>4 DEF BufRecord
<1>7. Loose(c)
  <2>1. /\ b.actually_used = Len(b.all) /\ b.used = Len(b.all) - b.pos
        /\ b.head + b.used <= b.actually_used /\ (b.over => b.max_len # 0)
    BY DEF Loose
  <2>2. 0 + b.used <= b.actually_used
    BY <1>1, <2>1
  <2> QED
    BY <1>2, <1>6, <2>1, <2>2 DEF Loose
<1>8. ASSUME Kept(b), b.head = 0 PROVE Kept(c)
  <2>1. /\ b.actually_used <= Len(b.mem) /\ b.head = b.pos /\ ~b.past
        /\ \A j \in 1..Len(b.all) : b.mem[j] = b.all[j]
        /\ b.actually_used = Len(b.all)
    BY <1>8 DEF Kept, Loose
  <2>2. \A j \in 1..Len(b.all) : j \in 1..Len(b.mem)
    BY <1>1, <2>1
  <2>3. \A j \in 1..Len(c.all) : c.mem[j] = c.all[j]
    BY <1>3, <1>6, <2>1, <2>2
  <2>4. c.actually_used <= Len(c.mem)
    BY <1>1, <1>2, <1>6, <2>1
  <2> QED
    BY <1>6, <1>8, <2>1, <2>3, <2>4 DEF Kept
<1> QED
  BY <1>0, <1>2, <1>5, <1>6, <1>7, <1>8

\* What is copied behind the bytes in use is what was written.
LEMMA CopiedKept ==
    ASSUME NEW b \in BufRecord, Loose(b), NEW data \in Seq(BufBytes)
    PROVE  /\ Copied(b, data) \in BufRecord /\ Loose(Copied(b, data))
           /\ Kept(b) /\ b.actually_used + Len(data) <= Len(b.mem) => Kept(Copied(b, data))
           /\ Copied(b, data).over = b.over
           /\ Copied(b, data).actually_used = b.actually_used + Len(data)
<1>0. PICK c : c = Copied(b, data)
  OBVIOUS
<1> DEFINE n == Len(data)
           end == b.head + b.used
           mem == [j \in DOMAIN b.mem |-> IF j \in (end + 1)..(end + n) THEN data[j - end] ELSE b.mem[j]]
           all == b.all \o data
<1>1. /\ Len(b.mem) \in Nat /\ b.mem \in Seq(Cells) /\ Len(b.all) \in Nat /\ n \in Nat
      /\ b.all \in Seq(BufBytes) /\ b.pos \in Nat /\ b.used \in Nat /\ b.actually_used \in Nat
      /\ b.head \in Nat /\ end \in Nat
      /\ \A j \in 1..Len(b.mem) : b.mem[j] \in Cells
      /\ \A j \in 1..n : data[j] \in BufBytes
      /\ DOMAIN b.mem = 1..Len(b.mem)
  BY SMTT(40) DEF BufRecord
<1>2. /\ b.actually_used = Len(b.all) /\ b.used = Len(b.all) - b.pos
      /\ b.head + b.used <= b.actually_used /\ Len(b.mem) <= MaxMemory /\ (b.over => b.max_len # 0)
  BY DEF Loose
<1>3. mem \in Seq(Cells) /\ Len(mem) = Len(b.mem)
  <2>1. \A j \in 1..Len(b.mem) : mem[j] \in Cells
    BY <1>1 DEF Cells
  <2> QED
    BY <1>1, <2>1, MemoryIs, ZenonT(60)
<1>4. /\ all \in Seq(BufBytes) /\ Len(all) = Len(b.all) + n
      /\ \A j \in 1..(Len(b.all) + n) : all[j] = IF j <= Len(b.all) THEN b.all[j] ELSE data[j - Len(b.all)]
  BY <1>1, ConcatProperties
<1>5. PICK p \in BOOLEAN : p <=> PastEnd(b, end + n)
  OBVIOUS
<1>6. ASSUME Kept(b), b.actually_used + n <= Len(b.mem)
      PROVE  ~p /\ end = Len(b.all) /\ \A j \in 1..(end + n) : mem[j] = all[j]
  <2>1. b.head = b.pos /\ \A j \in 1..Len(b.all) : b.mem[j] = b.all[j]
    BY <1>6 DEF Kept
  <2>2. end = Len(b.all) /\ end = b.actually_used
    BY <1>1, <1>2, <2>1
  <2>3. \A j \in 1..(end + n) : j \in DOMAIN b.mem
    BY <1>1, <1>6, <2>2
  <2>4. ~p
    BY <1>1, <1>5, <1>6, <2>2 DEF PastEnd
  <2>5. ASSUME NEW j \in 1..(end + n) PROVE mem[j] = all[j]
    <3>1. mem[j] = IF j \in (end + 1)..(end + n) THEN data[j - end] ELSE b.mem[j]
      BY <2>3, <2>5
    <3>2. all[j] = IF j <= end THEN b.all[j] ELSE data[j - end]
      BY <1>4, <2>2, <2>5
    <3> HIDE DEF mem, all
    <3> QED
      BY <1>1, <2>1, <2>2, <2>5, <3>1, <3>2
  <2> QED
    BY <2>2, <2>4, <2>5
<1> HIDE DEF mem, all
<1>7. c = [b EXCEPT !.mem = mem, !.used = b.used + n, !.actually_used = b.actually_used + n,
                    !.all = all, !.past = p]
  <2>1. p = PastEnd(b, end + n)
    BY <1>5 DEF PastEnd
  <2> QED
    BY <1>0, <2>1 DEF mem, all, Copied
<1> HIDE DEF n
<1>8. c \in BufRecord
  <2>1. b.used + n \in Nat /\ b.actually_used + n \in Nat
    BY <1>1, SMTT(40)
  <2> QED
    BY <1>3, <1>4, <1>5, <1>7, <2>1 DEF BufRecord
<1>9. /\ c.used = b.used + n /\ c.head = b.head /\ c.pos = b.pos /\ c.mem = mem
      /\ c.all = all /\ c.actually_used = b.actually_used + n /\ c.max_len = b.max_len
      /\ c.over = b.over /\ c.past = p
  BY <1>7 DEF BufRecord
<1>10. Loose(c)
  <2>1. /\ b.used + n = (Len(b.all) + n) - b.pos /\ b.head + (b.used + n) <= Len(b.all) + n
    BY <1>1, <1>2, Shifted, SMTT(40)
  <2> QED
    BY <1>2, <1>3, <1>4, <1>9, <2>1, SMTT(60) DEF Loose
<1>11. ASSUME Kept(b), b.actually_used + n <= Len(b.mem) PROVE Kept(c)
  <2>1. ~p /\ end = Len(b.all) /\ \A j \in 1..(end + n) : mem[j] = all[j]
    BY <1>6, <1>11
  <2>2. c.actually_used <= Len(c.mem) /\ c.head = c.pos
    BY <1>3, <1>9, <1>11 DEF Kept
  <2>3. \A j \in 1..Len(c.all) : c.mem[j] = c.all[j]
    BY <1>4, <1>9, <2>1
  <2> QED
    BY <1>9, <2>1, <2>2, <2>3 DEF Kept
<1> QED
  BY <1>0, <1>8, <1>9, <1>10, <1>11 DEF n

\* The first step of ks_buffer_write: the data are moved to the front, or
\* stay; what follows is misplaced only beyond max_len.
LEMMA ArrangedKept ==
    ASSUME NEW b \in BufRecord, Sound(b), NEW n \in Nat, NEW m, m = Arranged(b, n)
    PROVE  /\ m \in BufRecord /\ Loose(m) /\ m.used = b.used /\ Len(m.mem) = Len(b.mem)
           /\ m.past = b.past /\ m.actually_used <= b.actually_used
           /\ ~m.over => /\ Kept(m)
                         /\ \/ m.head = 0 /\ m.actually_used = m.used
                            \/ Len(m.mem) - m.actually_used >= n
<1>1. /\ Len(b.mem) \in Nat /\ b.used \in Nat /\ b.actually_used \in Nat /\ b.pos \in Nat
      /\ b.head \in Nat /\ Len(b.all) \in Nat /\ b.over \in BOOLEAN
  BY DEF BufRecord
<1>2. /\ b.actually_used = Len(b.all) /\ b.used = Len(b.all) - b.pos /\ Loose(b)
      /\ (b.over => b.max_len # 0) /\ (~b.over => Kept(b))
  BY DEF Sound, Loose
<1>3. CASE Lacks(b, b.actually_used, n) /\ ~Beyond(b, n)
  <2>1. m = ToFront(b)
    BY <1>3 DEF Arranged
  <2>2. b.actually_used <= Len(b.mem)
    BY <1>1, <1>3 DEF Lacks
  <2>3. /\ m \in BufRecord /\ Loose(m) /\ (Kept(b) => Kept(m)) /\ m.used = b.used
        /\ Len(m.mem) = Len(b.mem) /\ m.actually_used = b.used /\ m.head = 0 /\ m.over = b.over
        /\ m.past = b.past
    BY <1>2, <2>1, <2>2, ToFrontKept
  <2>4. b.used <= b.actually_used
    BY <1>1, <1>2
  <2> QED
    BY <1>2, <2>3, <2>4
<1>4. CASE ~(Lacks(b, b.actually_used, n) /\ ~Beyond(b, n))
  <2>1. PICK o \in BOOLEAN : o = (b.over \/ Misplaced(b, n))
    OBVIOUS
  <2>2. m = [b EXCEPT !.over = o]
    BY <1>4, <2>1 DEF Arranged
  <2>3. m \in BufRecord
    BY <2>1, <2>2 DEF BufRecord
  <2>4. /\ m.mem = b.mem /\ m.head = b.head /\ m.used = b.used /\ m.actually_used = b.actually_used
        /\ m.max_len = b.max_len /\ m.all = b.all /\ m.pos = b.pos /\ m.past = b.past /\ m.over = o
    BY <2>2 DEF BufRecord
  <2>5. o => b.max_len # 0
    BY <1>2, <1>4, <2>1 DEF Misplaced, Beyond
  <2>6. Loose(m)
    BY <1>2, <2>4, <2>5 DEF Loose
  <2>7. b.actually_used <= b.actually_used
    BY <1>1
  <2>8. ASSUME ~o PROVE /\ Kept(m)
                        /\ \/ m.head = 0 /\ m.actually_used = m.used
                           \/ Len(m.mem) - m.actually_used >= n
    <3>1. Kept(b) /\ ~Misplaced(b, n)
      BY <1>2, <2>1, <2>8
    <3>2. Kept(m)
      BY <2>4, <3>1 DEF Kept
    <3>3. b.actually_used <= Len(b.mem) /\ b.head = b.pos
      BY <3>1 DEF Kept
    <3>4. CASE b.head = 0
      BY <1>1, <1>2, <2>4, <3>2, <3>3, <3>4
    <3>5. CASE b.head # 0
      <4>1. ~Lacks(b, b.actually_used, n)
        BY <3>1, <3>5 DEF Misplaced
      <4>2. Len(b.mem) - b.actually_used >= n
        BY <1>1, <3>3, <4>1 DEF Lacks
      <4> QED
        BY <2>4, <3>2, <4>2
    <3> QED
      BY <3>4, <3>5
  <2> QED
    BY <2>3, <2>4, <2>6, <2>7, <2>8
<1> QED
  BY <1>3, <1>4

\* ks_buffer_write appends the data, or fails and keeps what there was, or is
\* one of the writes beyond max_len that are misplaced.  When it returns 0 it
\* has copied nothing past the memory.
LEMMA WriteSound ==
    ASSUME NEW b \in BufRecord, Sound(b), ~b.past, b.actually_used <= MaxMemory,
           NEW data \in Seq(BufBytes), Len(data) <= MaxWrite
    PROVE  Sound(Write(b, data).b) /\ (Write(b, data).ret = 0 => ~Write(b, data).b.past)
<1> DEFINE n == Len(data)
           moved == Arranged(b, n)
           size == Len(b.mem) + Max({n, b.blocksize})
           grows == Lacks(moved, moved.used, n)
           grown == Grown(moved, size)
           c == IF grows THEN grown ELSE moved
           failed == [moved EXCEPT !.head = 0]
           copied == Copied(c, data)
<1>1. Write(b, data) = IF n = 0 THEN [b |-> b, ret |-> b.used]
                       ELSE IF grows /\ size > MaxMemory THEN [b |-> failed, ret |-> 0]
                       ELSE [b |-> copied, ret |-> c.used + n]
  BY ZenonT(60) DEF Write
<1>2. /\ Len(b.mem) \in Nat /\ n \in Nat /\ b.used \in Nat /\ b.actually_used \in Nat
      /\ b.blocksize \in Nat /\ MaxMemory \in Nat /\ MaxWrite \in Nat /\ Len(b.mem) <= MaxMemory
  BY BufferConstants, SMTT(60) DEF BufRecord, Sound, Loose
<1>3. size \in Nat /\ Len(b.mem) + n <= size
  <2> HIDE DEF n
  <2>1. Max({n, b.blocksize}) = IF n <= b.blocksize THEN b.blocksize ELSE n
    BY <1>2, LeastOfTwo
  <2> QED
    BY <1>2, <2>1, SMTT(40)
<1>4. n <= MaxWrite
  OBVIOUS
<1> HIDE DEF n, size
<1>5. /\ moved \in BufRecord /\ Loose(moved) /\ moved.used = b.used /\ Len(moved.mem) = Len(b.mem)
      /\ moved.past = b.past /\ moved.actually_used <= b.actually_used
      /\ ~moved.over => /\ Kept(moved)
                        /\ \/ moved.head = 0 /\ moved.actually_used = moved.used
                           \/ Len(moved.mem) - moved.actually_used >= n
  <2>1. moved = Arranged(b, n)
    OBVIOUS
  <2> HIDE DEF moved
  <2> QED
    BY <1>2, <2>1, ArrangedKept
<1> HIDE DEF moved
<1>6. /\ moved.actually_used \in Nat /\ moved.used \in Nat /\ moved.head \in Nat
      /\ moved.head + moved.used <= moved.actually_used
      /\ moved.actually_used <= MaxMemory + MaxWrite /\ Len(moved.mem) \in Nat
  <2>1. moved.actually_used \in Nat /\ moved.used \in Nat /\ moved.head \in Nat
    BY <1>5 DEF BufRecord
  <2>2. moved.head + moved.used <= moved.actually_used /\ moved.actually_used <= b.actually_used
    BY <1>5 DEF Loose
  <2>3. moved.actually_used <= MaxMemory + MaxWrite
    BY <1>2, <2>1, <2>2
  <2> QED
    BY <1>2, <1>5, <2>1, <2>2, <2>3
<1>7. ASSUME grows, ~moved.over PROVE moved.head = 0 /\ moved.actually_used = moved.used
  <2>1. Len(moved.mem) - moved.used < n
    BY <1>2, <1>6, <1>7 DEF Lacks
  <2>2. ~(Len(moved.mem) - moved.actually_used >= n)
    BY <1>2, <1>6, <2>1, SMTT(40)
  <2> QED
    BY <1>5, <1>7, <2>2
<1>8. CASE n = 0
  <2>1. Write(b, data) = [b |-> b, ret |-> b.used]
    BY <1>1, <1>8
  <2> QED
    BY <2>1
<1>9. CASE n # 0 /\ grows /\ size > MaxMemory
  <2>1. Write(b, data) = [b |-> failed, ret |-> 0]
    BY <1>1, <1>9
  <2>2. PICK f : f = failed
    OBVIOUS
  <2>3. /\ f \in BufRecord /\ f.mem = moved.mem /\ f.head = 0 /\ f.used = moved.used
        /\ f.actually_used = moved.actually_used /\ f.max_len = moved.max_len
        /\ f.all = moved.all /\ f.pos = moved.pos /\ f.over = moved.over /\ f.past = moved.past
    BY <1>5, <2>2 DEF BufRecord
  <2>4. Loose(f)
    <3>1. 0 + moved.used <= moved.actually_used
      BY <1>6
    <3> QED
      BY <1>5, <2>3, <3>1 DEF Loose
  <2>5. ASSUME ~f.over PROVE Kept(f)
    <3>1. moved.head = 0 /\ Kept(moved)
      BY <1>5, <1>7, <1>9, <2>3, <2>5
    <3> QED
      BY <2>3, <3>1 DEF Kept
  <2>6. Sound(f) /\ ~f.past
    BY <1>5, <1>6, <2>3, <2>4, <2>5 DEF Sound
  <2>7. Write(b, data) = [b |-> f, ret |-> 0]
    BY <2>1, <2>2
  <2> HIDE DEF failed
  <2> QED
    BY <2>6, <2>7
<1>10. CASE n # 0 /\ ~(grows /\ size > MaxMemory)
  <2>1. /\ c \in BufRecord /\ Loose(c) /\ c.used = b.used /\ c.over = moved.over
        /\ c.actually_used = moved.actually_used
        /\ ~c.over => Kept(c) /\ c.actually_used + n <= Len(c.mem)
    <3>1. CASE grows
      <4>1. grown = Grown(moved, size)
        OBVIOUS
      <4>2. Len(moved.mem) <= size /\ size <= MaxMemory
        BY <1>2, <1>3, <1>5, <1>10, <3>1
      <4> HIDE DEF grown
      <4>3. /\ grown \in BufRecord /\ Loose(grown) /\ (Kept(moved) /\ moved.head = 0 => Kept(grown))
            /\ Len(grown.mem) = size /\ grown.used = moved.used
            /\ grown.actually_used = moved.actually_used /\ grown.over = moved.over
        BY <1>3, <1>5, <4>1, <4>2, GrownKept
      <4>4. ASSUME ~grown.over PROVE Kept(grown) /\ grown.actually_used + n <= Len(grown.mem)
        <5>1. moved.head = 0 /\ Kept(moved) /\ moved.actually_used = moved.used
          BY <1>5, <1>7, <3>1, <4>3, <4>4
        <5>2. moved.actually_used <= Len(b.mem)
          BY <1>5, <5>1 DEF Kept
        <5>3. moved.actually_used + n <= size
          BY <1>2, <1>3, <1>6, <5>2
        <5> QED
          BY <4>3, <5>1, <5>3
      <4>5. c = grown
        BY <3>1
      <4> QED
        BY <1>5, <4>3, <4>4, <4>5
    <3>2. CASE ~grows
      <4>1. c = moved
        BY <3>2
      <4>2. ASSUME ~moved.over PROVE Kept(moved) /\ moved.actually_used + n <= Len(moved.mem)
        <5>1. Kept(moved) /\ moved.actually_used <= Len(moved.mem)
          BY <1>5, <4>2 DEF Kept
        <5>2. ~(Len(moved.mem) - moved.used \in 0..(n - 1))
          BY <3>2 DEF Lacks
        <5>3. Len(moved.mem) \in Nat
          BY <1>2, <1>5
        <5>4. moved.actually_used + n <= Len(moved.mem)
          BY <1>2, <1>5, <1>6, <4>2, <5>1, <5>2, <5>3, SMTT(40)
        <5> QED
          BY <5>1, <5>4
      <4> QED
        BY <1>5, <4>1, <4>2
    <3> QED
      BY <3>1, <3>2
  <2>2. copied = Copied(c, data)
    OBVIOUS
  <2>3. Write(b, data) = [b |-> copied, ret |-> c.used + n]
    BY <1>1, <1>10
  <2> HIDE DEF c, copied
  <2>5. /\ copied \in BufRecord /\ Loose(copied) /\ copied.over = c.over
        /\ Kept(c) /\ c.actually_used + n <= Len(c.mem) => Kept(copied)
        /\ copied.actually_used = c.actually_used + n
    BY <2>1, <2>2, CopiedKept DEF n
  <2>6. c.actually_used + n <= MaxMemory + MaxWrite /\ c.used + n # 0
    BY <1>2, <1>4, <1>5, <1>6, <1>10, <2>1, SMTT(40)
  <2>7. Sound(copied)
    BY <2>1, <2>5, <2>6 DEF Sound
  <2> QED
    BY <2>3, <2>6, <2>7
<1> QED
  BY <1>8, <1>9, <1>10

\* ks_buffer_zero, which is also the way out of a misplaced write.
LEMMA ZeroedKept ==
    ASSUME NEW b \in BufRecord, Sound(b), ~b.past
    PROVE  Sound(Zeroed(b)) /\ ~Zeroed(b).past /\ Zeroed(b).actually_used = 0
<1>1. PICK c : c = Zeroed(b)
  OBVIOUS
<1>2. PICK o \in BOOLEAN : o = FALSE
  OBVIOUS
<1>3. c = [b EXCEPT !.used = 0, !.actually_used = 0, !.head = 0, !.all = <<>>, !.pos = 0, !.over = o]
  BY <1>1, <1>2 DEF Zeroed
<1>4. c \in BufRecord
  <2>1. <<>> \in Seq(BufBytes) /\ 0 \in Nat
    OBVIOUS
  <2> QED
    BY <1>2, <1>3, <2>1 DEF BufRecord
<1>5. /\ c.used = 0 /\ c.actually_used = 0 /\ c.head = 0 /\ c.all = <<>> /\ c.pos = 0 /\ c.over = o
      /\ c.mem = b.mem /\ c.past = b.past
  BY <1>3 DEF BufRecord
<1>6. Len(b.mem) \in Nat /\ Len(b.mem) <= MaxMemory /\ MaxMemory \in Nat /\ MaxWrite \in Nat
  BY BufferConstants DEF BufRecord, Sound, Loose
<1>7. Loose(c)
  BY <1>2, <1>5, <1>6 DEF Loose
<1>8. Kept(c)
  BY <1>5, <1>6 DEF Kept
<1> QED
  BY <1>1, <1>4, <1>5, <1>6, <1>7, <1>8 DEF Sound

-----------------------------------------------------------------------------
(* The steps                                                               *)

\* What a caller may write at all.
LEMMA DatasAre == \A data \in Datas : data \in Seq(BufBytes) /\ Len(data) <= MaxWrite
<1> SUFFICES ASSUME NEW data \in Datas PROVE data \in Seq(BufBytes) /\ Len(data) <= MaxWrite
  OBVIOUS
<1>1. PICK n \in 0..MaxWrite : data \in [1..n -> BufBytes]
  BY DEF Datas
<1>2. n \in Nat /\ n <= MaxWrite
  BY BufferConstants
<1>3. data \in Seq(BufBytes)
  BY <1>1, <1>2, SeqDef
<1> QED
  BY <1>1, <1>2, <1>3, LenProperties

\* The length of a packet is a number, whatever lies behind the memory.
LEMMA PacketLenIs ==
    ASSUME NEW b \in BufRecord, NEW stray
    PROVE  PacketLen(b, stray) \in Nat
<1> DEFINE at(j) == Byte(b, b.head + j, stray)
           after(j) == IF at(j + 1) = 13 THEN j + 2 ELSE j + 1
           text(j) == \A m \in 1..j : at(m) # 0
           ends == {j \in 1..b.used : text(j) /\ at(j) = 10 /\ after(j) <= b.used + 1 /\ at(after(j)) = 10}
<1>1. PacketLen(b, stray) = IF ends = {} THEN 0 ELSE after(Min(ends))
  BY DEF PacketLen
<1>2. ends \subseteq Nat
  BY DEF BufRecord
<1> HIDE DEF ends
<1>3. ends # {} => Min(ends) \in Nat
  BY <1>2, MinIn
<1> QED
  BY <1>1, <1>3

\* A buffer as ks_buffer_create and ks_buffer_set_loops leave it.
LEMMA BufInitIInv == BufInit => BufIInv
<1> SUFFICES ASSUME BufInit PROVE BufIInv
  OBVIOUS
<1>1. PICK shape \in BufShapes, loops \in 0..MaxLoops : buf = NewBuf(shape, loops)
  BY DEF BufInit
<1>2. shape.blocksize \in Nat /\ shape.start_len \in 1..MaxMemory /\ shape.max_len \in Nat /\ MaxMemory \in Nat
  BY BufferShapes, BufferConstants
<1>3. PICK mem : mem = [j \in 1..shape.start_len |-> 0]
  OBVIOUS
<1>4. mem \in Seq(Cells) /\ Len(mem) = shape.start_len
  <2>1. \A j \in 1..shape.start_len : mem[j] \in Cells
    BY <1>3 DEF Cells
  <2>2. mem = [j \in 1..shape.start_len |-> mem[j]] /\ shape.start_len \in Nat
    BY <1>2, <1>3
  <2> QED
    BY <2>1, <2>2, MemoryIs
<1>5. PICK o \in BOOLEAN : o = FALSE
  OBVIOUS
<1>6. buf = [mem |-> mem, head |-> 0, used |-> 0, actually_used |-> 0,
             max_len |-> shape.max_len, blocksize |-> shape.blocksize, loops |-> loops,
             all |-> <<>>, pos |-> 0, over |-> o, past |-> o]
  BY <1>1, <1>3, <1>5 DEF NewBuf
<1>7. buf \in BufRecord
  BY <1>2, <1>4, <1>5, <1>6 DEF BufRecord
<1>8. Loose(buf)
  BY <1>2, <1>4, <1>5, <1>6 DEF Loose
<1>9. Kept(buf)
  BY <1>2, <1>4, <1>5, <1>6 DEF Kept
<1>10. buf.actually_used <= MaxMemory + MaxWrite
  BY <1>6, BufferConstants
<1> QED
  BY <1>7, <1>8, <1>9, <1>10 DEF BufIInv, Sound

\* Every call keeps the invariant.
LEMMA BufNextIInv == BufIInv /\ [BufNext]_buf => BufIInv'
<1> SUFFICES ASSUME BufIInv, [BufNext]_buf PROVE BufIInv'
  OBVIOUS
<1>1. PICK b \in BufRecord : b = buf /\ Sound(b)
  BY DEF BufIInv, Sound
<1>2. SUFFICES ASSUME NEW c, c = buf' PROVE Sound(c)
  BY Zenon DEF BufIInv, Sound, Loose, Kept
<1>3. CASE ~b.past /\ BufWrite
  <2>1. PICK data \in Datas : b.actually_used <= MaxMemory /\ c = Write(b, data).b
    BY <1>1, <1>2, <1>3 DEF BufWrite
  <2> QED
    BY <1>1, <1>3, <2>1, DatasAre, WriteSound
<1>4. CASE ~b.past /\ BufZwrite
  <2>1. PICK data \in Datas :
          /\ b.actually_used <= MaxMemory
          /\ c = IF Write(b, data).ret # 0 THEN Write(b, data).b
                 ELSE Write(Zeroed(Write(b, data).b), data).b
    BY <1>1, <1>2, <1>4 DEF BufZwrite
  <2>2. data \in Seq(BufBytes) /\ Len(data) <= MaxWrite
    BY DatasAre
  <2>3. PICK w : w = Write(b, data).b
    OBVIOUS
  <2>4. w \in BufRecord /\ Sound(w) /\ (Write(b, data).ret = 0 => ~w.past)
    BY <1>1, <1>4, <2>1, <2>2, <2>3, WriteSound DEF Sound
  <2>5. CASE Write(b, data).ret # 0
    BY <2>1, <2>3, <2>4, <2>5
  <2>6. CASE Write(b, data).ret = 0
    <3>1. PICK z : z = Zeroed(w)
      OBVIOUS
    <3>2. z \in BufRecord /\ Sound(z) /\ ~z.past /\ z.actually_used = 0
      BY <2>4, <2>6, <3>1, ZeroedKept DEF Sound
    <3>3. z.actually_used <= MaxMemory
      BY <3>2, BufferConstants
    <3>4. Sound(Write(z, data).b)
      BY <2>2, <3>2, <3>3, WriteSound
    <3> QED
      BY <2>1, <2>3, <2>6, <3>1, <3>4
  <2> QED
    BY <2>5, <2>6
<1>5. CASE BufRead
  <2>1. PICK n \in 1..MaxWrite : c = TakeOff(b, n)
    BY <1>1, <1>2, <1>5 DEF BufRead
  <2> QED
    BY <1>1, <2>1, TakeOffKept
<1>6. CASE BufSeek
  <2>1. PICK n \in 0..MaxWrite :
          c = [b EXCEPT !.used = b.actually_used - Reading(b, n), !.head = Reading(b, n),
                        !.pos = Reading(b, n)]
    BY <1>1, <1>2, <1>6 DEF BufSeek
  <2>2. PICK r \in Nat : r = Reading(b, n) /\ r <= b.used
    <3>1. b.used \in Nat /\ n \in Nat
      BY DEF BufRecord
    <3> QED
      BY <3>1, LeastOfTwo DEF Reading
  <2>3. c = [b EXCEPT !.used = b.actually_used - r, !.head = r, !.pos = r]
    BY <2>1, <2>2
  <2>4. /\ b.actually_used \in Nat /\ b.used \in Nat /\ b.pos \in Nat /\ Len(b.all) \in Nat
        /\ b.actually_used = Len(b.all) /\ b.used = Len(b.all) - b.pos
        /\ Len(b.mem) <= MaxMemory /\ (b.over => b.max_len # 0)
    BY <1>1 DEF BufRecord, Sound, Loose
  <2>5. b.actually_used - r \in Nat /\ r + (b.actually_used - r) <= b.actually_used
    BY <2>2, <2>4, SMTT(40)
  <2>6. c \in BufRecord
    BY <2>2, <2>3, <2>5 DEF BufRecord
  <2>7. /\ c.used = b.actually_used - r /\ c.head = r /\ c.pos = r /\ c.mem = b.mem /\ c.all = b.all
        /\ c.actually_used = b.actually_used /\ c.max_len = b.max_len /\ c.over = b.over
        /\ c.past = b.past
    BY <2>3 DEF BufRecord
  <2>8. Loose(c)
    BY <2>4, <2>5, <2>7 DEF Loose
  <2>9. ~c.over => Kept(c)
    BY <1>1, <2>7 DEF Sound, Kept
  <2> QED
    BY <1>1, <2>6, <2>7, <2>8, <2>9 DEF Sound
<1>7. CASE BufReadLoop
  <2>0. PICK n \in 1..MaxWrite :
          LET d == TakeOff(b, n)
              a == [d EXCEPT !.head = 0, !.used = d.actually_used, !.pos = 0, !.loops = @ - 1]
          IN  c = IF b.used < n /\ d.loops # 0 THEN TakeOff(a, n - b.used) ELSE d
    BY <1>1, <1>2, <1>7 DEF BufReadLoop
  <2>1. PICK d, a :
          /\ d = TakeOff(b, n)
          /\ a = [d EXCEPT !.head = 0, !.used = d.actually_used, !.pos = 0, !.loops = d.loops - 1]
          /\ c = IF b.used < n /\ d.loops # 0 THEN TakeOff(a, n - b.used) ELSE d
    <3>1. TakeOff(b, n) \in BufRecord
      BY <1>1, TakeOffKept DEF Sound
    <3> QED
      BY <2>0, <3>1 DEF BufRecord
  <2>2. d \in BufRecord /\ Sound(d)
    BY <1>1, <2>1, TakeOffKept DEF Sound
  <2>3. CASE b.used < n /\ d.loops # 0
    <3>1. /\ d.loops - 1 \in 0..MaxLoops /\ d.actually_used \in Nat /\ d.pos \in Nat
      <4>1. d.loops \in 0..MaxLoops /\ d.actually_used \in Nat /\ d.pos \in Nat
        BY <2>2 DEF BufRecord
      <4> QED
        BY <2>3, <4>1, BufferConstants
    <3>2. a \in BufRecord
      BY <2>1, <2>2, <3>1 DEF BufRecord
    <3>3. /\ a.used = d.actually_used /\ a.head = 0 /\ a.pos = 0 /\ a.mem = d.mem /\ a.all = d.all
          /\ a.actually_used = d.actually_used /\ a.max_len = d.max_len /\ a.over = d.over
          /\ a.past = d.past
      BY <2>1, <2>2 DEF BufRecord
    <3>4. Loose(a)
      BY <2>2, <3>1, <3>3 DEF Sound, Loose
    <3>5. ~a.over => Kept(a)
      BY <2>2, <3>3 DEF Sound, Kept
    <3>6. Sound(a)
      BY <2>2, <3>2, <3>3, <3>4, <3>5 DEF Sound
    <3>7. n - b.used \in Nat
      BY <2>3 DEF BufRecord
    <3> QED
      BY <2>1, <2>3, <3>2, <3>6, <3>7, TakeOffKept
  <2> QED
    BY <2>1, <2>2, <2>3
<1>8. CASE BufReadPacket
  <2>1. PICK n \in 1..MaxWrite, stray \in {0, 10} : c = TakeOff(b, Min({n, PacketLen(b, stray)}))
    BY <1>1, <1>2, <1>8 DEF BufReadPacket
  <2>2. Min({n, PacketLen(b, stray)}) \in Nat
    BY PacketLenIs, LeastOfTwo
  <2> QED
    BY <1>1, <2>1, <2>2, TakeOffKept
<1>9. CASE ~b.past /\ BufZero
  <2>1. c = Zeroed(b)
    BY <1>1, <1>2, <1>9 DEF BufZero
  <2> QED
    BY <1>1, <1>9, <2>1, ZeroedKept
<1>10. CASE UNCHANGED buf
  BY <1>1, <1>2, <1>10
<1> QED
  BY <1>1, <1>3, <1>4, <1>5, <1>6, <1>7, <1>8, <1>9, <1>10 DEF BufNext

\* Whatever is written, read, sought and zeroed, and however often the memory
\* moves, grows or fails to, the bytes kept are those written, in order, and
\* nothing is copied past the memory: in every buffer without max_len, and in
\* one with it until a write beyond max_len finds no room behind the data
\* while the head is not at the front (and again once it is zeroed).  The
\* counts stay consistent even after such a write.
THEOREM BufferKeepsBytes == BufSpec => [](BufTypeOK /\ BytesKept)
<1>1. BufInit => BufIInv
  BY BufInitIInv
<1>2. BufIInv /\ [BufNext]_buf => BufIInv'
  BY BufNextIInv
<1>3. BufIInv => BufTypeOK /\ BytesKept
  BY BufIInvMeans
<1> QED
  BY <1>1, <1>2, <1>3, PTL DEF BufSpec

-----------------------------------------------------------------------------
(* Lists (KsList): the inductive invariant                                 *)

IterRecord ==
    [active : BOOLEAN, pos : 0..MaxEls, cur : Nodes \cup {NullNode},
     last : Nodes \cup {NullNode}, deletes : 0..MaxIterDeletes]

ListRecord ==
    [next : [Nodes -> Nodes \cup {NullNode}], prev : [Nodes -> Nodes \cup {NullNode}],
     data : [Nodes -> ListData \cup {0}], live : SUBSET ListEntries, spare : Seq(ListEntries),
     numels : Nat, mid : ListEntries \cup {NullNode}, iter : IterRecord,
     copy : BOOLEAN, copies : Int, want : Seq(ListData)]

\* a is the list from its head to its tail, the sentinels included.
Spine(l, a) ==
    /\ a \in [0..(l.numels + 1) -> Nodes]
    /\ a[0] = HeadNode /\ a[l.numels + 1] = TailNode
    /\ \A i, j \in 0..(l.numels + 1) : a[i] = a[j] => i = j
    /\ \A i \in 0..l.numels : l.next[a[i]] = a[i + 1] /\ l.prev[a[i + 1]] = a[i]

Middle(l, a) == l.mid = IF l.numels = 0 THEN NullNode ELSE a[MidPos(l.numels) + 1]

Holds(l, a) ==
    /\ Len(l.want) = l.numels
    /\ \A i \in 1..l.numels : l.data[a[i]] = l.want[i]

\* Spares are kept once each, and are no entries of the list.
Spares(l, a) ==
    /\ Len(l.spare) <= MaxSpare
    /\ \A i, j \in 1..Len(l.spare) : l.spare[i] = l.spare[j] => i = j
    /\ \A i \in 1..Len(l.spare), j \in 1..l.numels : l.spare[i] # a[j]
    /\ l.live = {a[i] : i \in 1..l.numels} \cup {l.spare[i] : i \in 1..Len(l.spare)}

OwnsCopies(l) == l.copies = IF l.copy THEN l.numels ELSE 0

\* The next entry is iter_pos entries on, less the one that was deleted; until
\* then the entry before it is the one that was returned.
Iterating(l, a) ==
    l.iter.active =>
        /\ l.iter.pos + 1 - l.iter.deletes \in 1..(l.numels + 1)
        /\ l.iter.cur = a[l.iter.pos + 1 - l.iter.deletes]
        /\ l.iter.deletes = 0 => l.iter.last = IF l.iter.pos = 0 THEN NullNode ELSE a[l.iter.pos]

ListOK(l, a) ==
    /\ Spine(l, a) /\ Middle(l, a) /\ Holds(l, a) /\ Spares(l, a) /\ OwnsCopies(l) /\ Iterating(l, a)

ListIInv == list \in ListRecord /\ \E a : ListOK(list, a)

-----------------------------------------------------------------------------
(* Walking along the links                                                 *)

\* A loop that follows f is where b says, if b says so of each step.
LEMMA FollowIs ==
    ASSUME NEW f, NEW k \in Nat, NEW b,
           \A j \in 1..k : b[j] = f[b[j - 1]]
    PROVE  Follow(f, b[0], k) = b[k]
<1>1. PICK c : c = [j \in 0..k |-> b[j]]
  OBVIOUS
<1>2. c = [j \in 0..k |-> IF j = 0 THEN b[0] ELSE f[c[j - 1]]]
  <2>1. ASSUME NEW j \in 0..k PROVE c[j] = IF j = 0 THEN b[0] ELSE f[c[j - 1]]
    <3>1. CASE j = 0
      BY <1>1, <3>1
    <3>2. CASE j # 0
      <4>1. j \in 1..k /\ j - 1 \in 0..k
        BY <3>2
      <4> QED
        BY <1>1, <3>2, <4>1
    <3> QED
      BY <3>1, <3>2
  <2> QED
    BY <1>1, <2>1, Zenon
<1>3. PICK g : /\ g = [j \in 0..k |-> IF j = 0 THEN b[0] ELSE f[g[j - 1]]]
               /\ Follow(f, b[0], k) = g[k]
  <2> DEFINE h == CHOOSE g : g = [j \in 0..k |-> IF j = 0 THEN b[0] ELSE f[g[j - 1]]]
  <2>1. h = [j \in 0..k |-> IF j = 0 THEN b[0] ELSE f[h[j - 1]]]
    BY <1>2, Zenon
  <2>2. Follow(f, b[0], k) = h[k]
    BY Zenon DEF Follow
  <2> QED
    BY <2>1, <2>2, Zenon
<1> DEFINE S == {j \in 0..k : g[j] # b[j]}
<1>4. S = {}
  <2> SUFFICES ASSUME S # {} PROVE FALSE
    OBVIOUS
  <2>1. S \subseteq Nat
    OBVIOUS
  <2>2. PICK j \in S : \A x \in S : j <= x
    <3> HIDE DEF S
    <3> QED
      BY <2>1, LeastNumber
  <2>3. j \in 0..k /\ g[j] # b[j]
    OBVIOUS
  <2>4. j # 0
    BY <1>3, <2>3
  <2>5. j \in 1..k /\ j - 1 \in 0..k /\ ~(j <= j - 1)
    BY <2>3, <2>4
  <2>6. g[j - 1] = b[j - 1]
    BY <2>2, <2>5
  <2>7. g[j] = f[g[j - 1]]
    BY <1>3, <2>4, <2>5
  <2> QED
    BY <2>3, <2>5, <2>6, <2>7
<1>5. g[k] = b[k]
  BY <1>4
<1> QED
  BY <1>3, <1>5

\* k steps forward.
LEMMA FollowNext ==
    ASSUME NEW l \in ListRecord, NEW a, Spine(l, a), NEW i \in Nat, NEW k \in Nat,
           i + k <= l.numels + 1
    PROVE  Follow(l.next, a[i], k) = a[i + k]
<1>1. l.numels \in Nat
  BY DEF ListRecord
<1>2. PICK b : b = [j \in 0..k |-> a[i + j]]
  OBVIOUS
<1>3. ASSUME NEW j \in 1..k PROVE b[j] = l.next[b[j - 1]]
  <2>1. i + (j - 1) \in 0..l.numels /\ (i + (j - 1)) + 1 = i + j /\ j - 1 \in 0..k /\ j \in 0..k
    BY <1>1
  <2>2. l.next[a[i + (j - 1)]] = a[(i + (j - 1)) + 1]
    BY <2>1 DEF Spine
  <2> QED
    BY <1>2, <2>1, <2>2
<1>4. Follow(l.next, b[0], k) = b[k]
  BY <1>3, FollowIs
<1>5. b[0] = a[i + 0] /\ b[k] = a[i + k] /\ i + 0 = i
  BY <1>2
<1> QED
  BY <1>4, <1>5

\* k steps back.
LEMMA FollowPrev ==
    ASSUME NEW l \in ListRecord, NEW a, Spine(l, a), NEW i \in 0..(l.numels + 1), NEW k \in Nat,
           k <= i
    PROVE  Follow(l.prev, a[i], k) = a[i - k]
<1>1. l.numels \in Nat
  BY DEF ListRecord
<1>2. PICK b : b = [j \in 0..k |-> a[i - j]]
  OBVIOUS
<1>3. ASSUME NEW j \in 1..k PROVE b[j] = l.prev[b[j - 1]]
  <2>1. i - j \in 0..l.numels /\ (i - j) + 1 = i - (j - 1) /\ j - 1 \in 0..k /\ j \in 0..k
    BY <1>1
  <2>2. l.prev[a[(i - j) + 1]] = a[i - j]
    BY <2>1 DEF Spine
  <2> QED
    BY <1>2, <2>1, <2>2
<1>4. Follow(l.prev, b[0], k) = b[k]
  BY <1>3, FollowIs
<1>5. b[0] = a[i - 0] /\ b[k] = a[i - k] /\ i - 0 = i
  BY <1>1, <1>2
<1> QED
  BY <1>4, <1>5

\* The first and the last entry are real ones, between the sentinels.
LEMMA SpineIs ==
    ASSUME NEW l \in ListRecord, NEW a, Spine(l, a)
    PROVE  /\ l.numels \in Nat /\ DOMAIN a = 0..(l.numels + 1)
           /\ \A i \in 0..(l.numels + 1) : a[i] \in Nodes
           /\ \A i \in 1..l.numels : a[i] \in ListEntries
           /\ a[0] = 0 /\ a[l.numels + 1] = MaxEls + 1
<1>1. l.numels \in Nat /\ MaxEls \in Nat \ {0}
  BY ListConstants DEF ListRecord
<1>2. \A i \in 0..(l.numels + 1) : a[i] \in Nodes
  BY DEF Spine
<1>3. ASSUME NEW i \in 1..l.numels PROVE a[i] \in ListEntries
  <2>1. i \in 0..(l.numels + 1) /\ i # 0 /\ i # l.numels + 1 /\ 0 \in 0..(l.numels + 1)
        /\ l.numels + 1 \in 0..(l.numels + 1)
    BY <1>1
  <2>2. a[i] # a[0] /\ a[i] # a[l.numels + 1]
    BY <2>1 DEF Spine
  <2>3. a[i] \in Nodes /\ a[i] # 0 /\ a[i] # MaxEls + 1
    BY <1>2, <2>1, <2>2 DEF Spine, HeadNode, TailNode
  <2> QED
    BY <1>1, <2>3 DEF Nodes, ListEntries
<1> QED
  BY <1>1, <1>2, <1>3 DEF Spine, HeadNode, TailNode

\* What ks_list_repOk walks over.
LEMMA ContentsIs ==
    ASSUME NEW l \in ListRecord, NEW a, Spine(l, a)
    PROVE  /\ Contents(l) = [i \in 1..l.numels |-> a[i]]
           /\ Contents(l) \in Seq(ListEntries) /\ Len(Contents(l)) = l.numels
           /\ \A i \in 1..l.numels : Contents(l)[i] = a[i]
           /\ Range(Contents(l)) = {a[i] : i \in 1..l.numels}
<1>1. l.numels \in Nat /\ a[0] = HeadNode /\ \A i \in 1..l.numels : a[i] \in ListEntries
  BY SpineIs DEF HeadNode
<1>2. ASSUME NEW i \in 1..l.numels PROVE Follow(l.next, HeadNode, i) = a[i]
  <2>1. 0 \in Nat /\ i \in Nat /\ 0 + i <= l.numels + 1 /\ 0 + i = i
    BY <1>1
  <2>2. Follow(l.next, a[0], i) = a[0 + i]
    BY <2>1, FollowNext
  <2> QED
    BY <1>1, <2>1, <2>2
<1>3. Contents(l) = [i \in 1..l.numels |-> a[i]]
  BY <1>2, Zenon DEF Contents
<1>4. PICK s : s = Contents(l)
  OBVIOUS
<1>5. s = [i \in 1..l.numels |-> a[i]]
  BY <1>3, <1>4
<1>6. s \in [1..l.numels -> ListEntries]
  BY <1>1, <1>5
<1>7. s \in Seq(ListEntries) /\ Len(s) = l.numels /\ DOMAIN s = 1..l.numels
  <2>1. s \in Seq(ListEntries)
    BY <1>1, <1>6, SeqDef
  <2> QED
    BY <1>1, <1>6, <2>1, LenProperties
<1>8. \A i \in 1..l.numels : s[i] = a[i]
  BY <1>5
<1>9. Range(s) = {a[i] : i \in 1..l.numels}
  BY <1>7, <1>8 DEF Range
<1> QED
  BY <1>3, <1>4, <1>7, <1>8, <1>9

\* A half, rounded down.
LEMMA MidPosIs ==
    ASSUME NEW n \in Nat, n # 0
    PROVE  /\ MidPos(n) \in Nat /\ 2 * MidPos(n) <= n - 1 /\ n - 1 <= 2 * MidPos(n) + 1
           /\ MidPos(n) + 1 \in 1..n
BY DEF MidPos

\* ks_list_findpos finds every position, the sentinels' too.
LEMMA FindPosIs ==
    ASSUME NEW l \in ListRecord, NEW a, Spine(l, a), Middle(l, a), NEW pos \in -1..l.numels
    PROVE  ListFindPos(l, pos) = a[pos + 1]
<1>1. PICK n \in Nat : n = l.numels
  BY DEF ListRecord
<1>2. pos \in Int /\ pos >= -1 /\ pos <= n /\ ~(pos < -1 \/ pos > n)
  BY <1>1
<1>3. a[0] = HeadNode /\ a[n + 1] = TailNode
  BY <1>1 DEF Spine
<1>4. CASE n > 0 /\ 4 * (pos + 1) <= n
  <2>1. ListFindPos(l, pos) = Follow(l.next, HeadNode, pos + 1)
    BY <1>1, <1>2, <1>4 DEF ListFindPos
  <2>2. 0 \in Nat /\ pos + 1 \in Nat /\ 0 + (pos + 1) <= n + 1 /\ 0 + (pos + 1) = pos + 1
    BY <1>2
  <2>3. Follow(l.next, a[0], pos + 1) = a[0 + (pos + 1)]
    BY <1>1, <2>2, FollowNext
  <2> QED
    BY <1>3, <2>1, <2>2, <2>3
<1>5. CASE n > 0 /\ ~(4 * (pos + 1) <= n) /\ 4 * (pos + 1) < 2 * n
  <2>1. PICK m \in Nat : m = MidPos(n) /\ 2 * m <= n - 1 /\ n - 1 <= 2 * m + 1 /\ m + 1 \in 1..n
    BY <1>5, MidPosIs
  <2>2. l.mid = a[m + 1]
    BY <1>1, <1>5, <2>1 DEF Middle
  <2>3. m - pos \in Nat /\ Max({0, m - pos}) = m - pos
    <3>1. m - pos \in Nat
      BY <1>2, <1>5, <2>1
    <3>2. \A x \in Nat : Max({0, x}) = x
      BY DEF Max
    <3> QED
      BY <3>1, <3>2
  <2>4. ListFindPos(l, pos) = Follow(l.prev, l.mid, m - pos)
    BY <1>1, <1>2, <1>5, <2>1, <2>3 DEF ListFindPos
  <2>5. m + 1 \in 0..(n + 1) /\ m - pos <= m + 1 /\ (m + 1) - (m - pos) = pos + 1
    BY <1>2, <2>1
  <2>6. Follow(l.prev, a[m + 1], m - pos) = a[(m + 1) - (m - pos)]
    BY <1>1, <2>3, <2>5, FollowPrev
  <2> QED
    BY <2>2, <2>4, <2>5, <2>6
<1>6. CASE n > 0 /\ ~(4 * (pos + 1) <= n) /\ ~(4 * (pos + 1) < 2 * n) /\ 4 * (pos + 1) <= 3 * n
  <2>1. PICK m \in Nat : m = MidPos(n) /\ 2 * m <= n - 1 /\ n - 1 <= 2 * m + 1 /\ m + 1 \in 1..n
    BY <1>6, MidPosIs
  <2>2. l.mid = a[m + 1]
    BY <1>1, <1>6, <2>1 DEF Middle
  <2>3. pos - m \in Nat /\ Max({0, pos - m}) = pos - m
    <3>1. pos - m \in Nat
      BY <1>2, <1>6, <2>1
    <3>2. \A x \in Nat : Max({0, x}) = x
      BY DEF Max
    <3> QED
      BY <3>1, <3>2
  <2>4. ListFindPos(l, pos) = Follow(l.next, l.mid, pos - m)
    BY <1>1, <1>2, <1>6, <2>1, <2>3 DEF ListFindPos
  <2>5. m + 1 \in Nat /\ (m + 1) + (pos - m) <= n + 1 /\ (m + 1) + (pos - m) = pos + 1
    BY <1>2, <2>1
  <2>6. Follow(l.next, a[m + 1], pos - m) = a[(m + 1) + (pos - m)]
    BY <1>1, <2>3, <2>5, FollowNext
  <2> QED
    BY <2>2, <2>4, <2>5, <2>6
<1>7. CASE n = 0 \/ ~(4 * (pos + 1) <= 3 * n)
  <2>1. ListFindPos(l, pos) = Follow(l.prev, TailNode, n - pos)
    BY <1>1, <1>2, <1>7 DEF ListFindPos
  <2>2. /\ n + 1 \in 0..(n + 1) /\ n - pos \in Nat /\ n - pos <= n + 1
        /\ (n + 1) - (n - pos) = pos + 1
    BY <1>2
  <2>3. Follow(l.prev, a[n + 1], n - pos) = a[(n + 1) - (n - pos)]
    BY <1>1, <2>2, FollowPrev
  <2> QED
    BY <1>3, <2>1, <2>2, <2>3
<1> QED
  BY <1>2, <1>4, <1>5, <1>6, <1>7

-----------------------------------------------------------------------------
(* The invariant says what the run checks                                  *)

\* What is said once for each of n positions, it has n members.
LEMMA Counted ==
    ASSUME NEW n \in Nat, NEW f, \A i, j \in 1..n : f[i] = f[j] => i = j
    PROVE  LET S == {f[i] : i \in 1..n} IN IsFiniteSet(S) /\ Cardinality(S) = n
<1> DEFINE S == {f[i] : i \in 1..n}
<1>1. PICK g : g = [i \in 1..n |-> f[i]]
  OBVIOUS
<1>2. g \in [1..n -> S] /\ \A i \in 1..n : g[i] = f[i]
  BY <1>1
<1>3. g \in Bijection(1..n, S)
  <2>1. g \in Injection(1..n, S)
    BY <1>2 DEF Injection, IsInjective
  <2>2. g \in Surjection(1..n, S)
    BY <1>2 DEF Surjection
  <2> QED
    BY <2>1, <2>2 DEF Bijection
<1>4. ExistsBijection(1..n, S)
  BY <1>3 DEF ExistsBijection
<1>5. Cardinality(S) = n
  BY <1>4, FS_CountingElements
<1>6. IsFiniteSet(S)
  BY <1>4, FS_NatBijection
<1> QED
  BY <1>5, <1>6

\* Entries and spares are counted once each, and there are at most MaxEls.
LEMMA LiveCount ==
    ASSUME NEW l \in ListRecord, NEW a, Spine(l, a), Spares(l, a)
    PROVE  /\ IsFiniteSet(l.live) /\ Cardinality(l.live) = l.numels + Len(l.spare)
           /\ Cardinality(l.live) <= MaxEls /\ l.numels <= MaxEls
           /\ Cardinality({a[i] : i \in 1..l.numels}) = l.numels
<1> DEFINE S == {a[i] : i \in 1..l.numels}
           T == {l.spare[i] : i \in 1..Len(l.spare)}
<1>1. l.numels \in Nat /\ Len(l.spare) \in Nat /\ l.live \subseteq ListEntries
  BY DEF ListRecord
<1>2. \A i, j \in 1..l.numels : a[i] = a[j] => i = j
  <2>1. \A i \in 1..l.numels : i \in 0..(l.numels + 1)
    BY <1>1
  <2> QED
    BY <2>1 DEF Spine
<1>3. \A i, j \in 1..Len(l.spare) : l.spare[i] = l.spare[j] => i = j
  BY DEF Spares
<1>4. IsFiniteSet(S) /\ Cardinality(S) = l.numels
  BY <1>1, <1>2, Counted
<1>5. IsFiniteSet(T) /\ Cardinality(T) = Len(l.spare)
  BY <1>1, <1>3, Counted
<1>6. S \cap T = {}
  BY DEF Spares
<1>7. l.live = S \cup T
  BY DEF Spares
<1>8. IsFiniteSet(S \cup T) /\ Cardinality(S \cup T) = l.numels + Len(l.spare)
  <2> HIDE DEF S, T
  <2>1. Cardinality(S \cap T) = 0
    BY <1>6, FS_EmptySet
  <2>2. /\ IsFiniteSet(S \cup T)
        /\ Cardinality(S \cup T) = Cardinality(S) + Cardinality(T) - Cardinality(S \cap T)
    BY <1>4, <1>5, FS_Union, Zenon
  <2>3. l.numels + Len(l.spare) - 0 = l.numels + Len(l.spare)
    BY <1>1
  <2> QED
    BY <1>4, <1>5, <2>1, <2>2, <2>3, Zenon
<1>9. MaxEls \in Nat /\ IsFiniteSet(ListEntries) /\ Cardinality(ListEntries) = MaxEls
  BY ListConstants, FS_Interval DEF ListEntries
<1>10. Cardinality(l.live) <= MaxEls
  BY <1>1, <1>9, FS_Subset
<1> QED
  BY <1>1, <1>4, <1>7, <1>8, <1>9, <1>10

\* What ks_list_repOk asserts.
LEMMA RepOkMeans ==
    ASSUME list \in ListRecord, NEW a, ListOK(list, a)
    PROVE  RepOk
<1>1. PICK l \in ListRecord : l = list
  OBVIOUS
<1>2. Spine(l, a) /\ Middle(l, a) /\ Spares(l, a)
  BY <1>1 DEF ListOK
<1>3. PICK n \in Nat : n = l.numels
  BY DEF ListRecord
<1>4. PICK in : in = Contents(l)
  OBVIOUS
<1>5. Range(in) = {a[i] : i \in 1..n} /\ \A i \in 1..n : in[i] = a[i]
  BY <1>2, <1>3, <1>4, ContentsIs
<1>6. Cardinality(Range(in)) = n /\ Cardinality(l.live) = n + Len(l.spare)
  BY <1>2, <1>3, <1>5, LiveCount
<1>7. ASSUME NEW x \in Range(in) \cup {HeadNode}
      PROVE  l.next[x] # NullNode /\ l.prev[l.next[x]] = x
  <2>1. PICK i \in 0..n : x = a[i]
    <3>1. a[0] = HeadNode /\ 0 \in 0..n /\ \A i \in 1..n : i \in 0..n
      BY <1>2 DEF Spine
    <3> QED
      BY <1>5, <3>1
  <2>2. l.next[a[i]] = a[i + 1] /\ l.prev[a[i + 1]] = a[i] /\ i + 1 \in 0..(n + 1)
    BY <1>2, <1>3 DEF Spine
  <2>3. a[i + 1] \in Nodes
    BY <1>2, <1>3, <2>2, SpineIs
  <2>4. NullNode \notin Nodes
    BY ListConstants DEF NullNode, Nodes
  <2> QED
    BY <2>1, <2>2, <2>3, <2>4
<1>8. Follow(l.next, HeadNode, n + 1) = TailNode
  <2>1. 0 \in Nat /\ n + 1 \in Nat /\ 0 + (n + 1) <= n + 1 /\ 0 + (n + 1) = n + 1
    BY <1>3
  <2>2. Follow(l.next, a[0], n + 1) = a[0 + (n + 1)]
    BY <1>2, <1>3, <2>1, FollowNext
  <2> QED
    BY <1>2, <1>3, <2>1, <2>2 DEF Spine
<1>9. l.mid = IF n = 0 THEN NullNode ELSE in[MidPos(n) + 1]
  <2>1. n # 0 => MidPos(n) + 1 \in 1..n
    BY MidPosIs
  <2> QED
    BY <1>2, <1>3, <1>5, <2>1 DEF Middle
<1>10. Range(l.spare) = {l.spare[i] : i \in 1..Len(l.spare)}
  BY LenProperties DEF Range, ListRecord
<1>11. Len(l.spare) <= MaxSpare /\ l.live = Range(in) \cup Range(l.spare)
  BY <1>2, <1>3, <1>5, <1>10 DEF Spares
<1> QED
  BY <1>1, <1>3, <1>4, <1>6, <1>7, <1>8, <1>9, <1>11 DEF RepOk

\* ks_list_get_minmax prefers y to x.
Beats(y, x, versus) == Comparator(x, y) * versus > 0

\* x is one of the first i, and none of them is preferred to it.
Best(w, i, x, versus) ==
    /\ \E j \in 1..i : x = w[j]
    /\ \A j \in 1..i : ~Beats(w[j], x, versus)

\* The ready-made comparators, either way round.
LEMMA BeatsIs ==
    ASSUME NEW x \in Nat, NEW y \in Nat
    PROVE  (Beats(y, x, 1) <=> x < y) /\ (Beats(y, x, -1) <=> y < x)
BY DEF Beats, Comparator

\* One turn of the loop.
LEMMA BestStep ==
    ASSUME NEW n \in Nat, NEW w, \A j \in 1..n : w[j] \in Nat, NEW versus \in {1, -1},
           NEW i \in 2..n, NEW x, Best(w, i - 1, x, versus)
    PROVE  Best(w, i, IF Beats(w[i], x, versus) THEN w[i] ELSE x, versus)
<1>1. i \in 1..i /\ i \in 1..n /\ \A j \in 1..i : j = i \/ j \in 1..(i - 1)
  OBVIOUS
<1>2. \A j \in 1..(i - 1) : j \in 1..i /\ j \in 1..n
  OBVIOUS
<1>3. x \in Nat /\ w[i] \in Nat
  BY <1>1, <1>2 DEF Best
<1>4. ASSUME NEW j \in 1..i
      PROVE  ~Beats(w[j], IF Beats(w[i], x, versus) THEN w[i] ELSE x, versus)
  <2>1. w[j] \in Nat /\ (j = i \/ ~Beats(w[j], x, versus))
    BY <1>1, <1>2 DEF Best
  <2>2. CASE versus = 1
    <3>1. Beats(w[i], x, versus) <=> x < w[i]
      BY <1>3, <2>2, BeatsIs
    <3>2. Beats(w[j], x, versus) <=> x < w[j]
      BY <1>3, <2>1, <2>2, BeatsIs
    <3>3. Beats(w[j], w[i], versus) <=> w[i] < w[j]
      BY <1>3, <2>1, <2>2, BeatsIs
    <3> QED
      BY <1>3, <2>1, <3>1, <3>2, <3>3
  <2>3. CASE versus = -1
    <3>1. Beats(w[i], x, versus) <=> w[i] < x
      BY <1>3, <2>3, BeatsIs
    <3>2. Beats(w[j], x, versus) <=> w[j] < x
      BY <1>3, <2>1, <2>3, BeatsIs
    <3>3. Beats(w[j], w[i], versus) <=> w[j] < w[i]
      BY <1>3, <2>1, <2>3, BeatsIs
    <3> QED
      BY <1>3, <2>1, <3>1, <3>2, <3>3
  <2> QED
    BY <2>2, <2>3
<1>5. \E j \in 1..i : (IF Beats(w[i], x, versus) THEN w[i] ELSE x) = w[j]
  BY <1>1, <1>2 DEF Best
<1> QED
  BY <1>4, <1>5 DEF Best

\* There is one best value.
LEMMA BestIsOne ==
    ASSUME NEW i \in Nat, NEW w, \A j \in 1..i : w[j] \in Nat, NEW versus \in {1, -1},
           NEW x, Best(w, i, x, versus), NEW y, Best(w, i, y, versus)
    PROVE  x = y
<1>1. x \in Nat /\ y \in Nat /\ ~Beats(y, x, versus) /\ ~Beats(x, y, versus)
  BY DEF Best
<1>2. CASE versus = 1
  BY <1>1, <1>2, BeatsIs
<1>3. CASE versus = -1
  BY <1>1, <1>3, BeatsIs
<1> QED
  BY <1>2, <1>3

\* The loop runs over any list that is not empty.
LEMMA BestExists ==
    ASSUME NEW n \in Nat, NEW w, \A j \in 1..n : w[j] \in Nat, NEW versus \in {1, -1}
    PROVE  \A i \in 1..n : \E x : Best(w, i, x, versus)
<1> DEFINE S == {i \in 1..n : ~\E x : Best(w, i, x, versus)}
<1>1. S = {}
  <2> SUFFICES ASSUME S # {} PROVE FALSE
    OBVIOUS
  <2>1. S \subseteq Nat
    OBVIOUS
  <2>2. PICK i \in S : \A y \in S : i <= y
    <3> HIDE DEF S
    <3> QED
      BY <2>1, LeastNumber
  <2>3. i \in 1..n /\ ~\E x : Best(w, i, x, versus)
    OBVIOUS
  <2>4. CASE i = 1
    <3>1. w[1] \in Nat /\ \A j \in 1..1 : j = 1
      BY <2>3, <2>4
    <3>2. ~Beats(w[1], w[1], versus)
      BY <3>1, BeatsIs
    <3>3. Best(w, 1, w[1], versus)
      BY <3>1, <3>2 DEF Best
    <3> QED
      BY <2>3, <2>4, <3>3
  <2>5. CASE i # 1
    <3>1. i \in 2..n /\ i - 1 \in 1..n /\ ~(i <= i - 1)
      BY <2>3, <2>5
    <3>2. i - 1 \notin S
      <4> HIDE DEF S
      <4> QED
        BY <2>2, <3>1
    <3>3. PICK x : Best(w, i - 1, x, versus)
      BY <3>1, <3>2
    <3>4. Best(w, i, IF Beats(w[i], x, versus) THEN w[i] ELSE x, versus)
      BY <3>1, <3>3, BestStep
    <3> QED
      BY <2>3, <3>4
  <2> QED
    BY <2>4, <2>5
<1> QED
  BY <1>1

\* ks_list_get_minmax returns the best of them.
LEMMA MinMaxIs ==
    ASSUME NEW l \in ListRecord, NEW a, Spine(l, a), Holds(l, a), l.numels # 0,
           NEW versus \in {1, -1}
    PROVE  Best(l.want, l.numels, MinMax(l, versus), versus)
<1>1. PICK n \in Nat : n = l.numels /\ n # 0
  BY DEF ListRecord
<1>2. PICK w \in Seq(ListData) : w = l.want /\ Len(w) = n
  BY <1>1 DEF Holds, ListRecord
<1>3. \A j \in 1..n : w[j] \in Nat
  <2>1. \A j \in 1..n : w[j] \in ListData
    BY <1>2
  <2> QED
    BY <2>1, ListConstants
<1>4. /\ l.data[l.next[HeadNode]] = w[1]
      /\ \A i \in 1..n : l.data[Contents(l)[i]] = w[i]
  <2>1. \A i \in 1..n : Contents(l)[i] = a[i] /\ l.data[a[i]] = w[i]
    BY <1>1, <1>2, ContentsIs DEF Holds
  <2>2. 0 \in 0..n /\ 1 \in 1..n /\ 0 + 1 = 1
    BY <1>1
  <2>3. l.next[a[0]] = a[0 + 1] /\ a[0] = HeadNode
    BY <1>1, <2>2 DEF Spine
  <2> QED
    BY <2>1, <2>2, <2>3
<1> DEFINE Turn(g, i) == IF i = 1 THEN w[1] ELSE IF Beats(w[i], g[i - 1], versus) THEN w[i] ELSE g[i - 1]
<1>6. \E g : g = [i \in 1..n |-> Turn(g, i)]
  <2>1. PICK c : c = [i \in 1..n |-> CHOOSE x : Best(w, i, x, versus)]
    OBVIOUS
  <2>2. ASSUME NEW i \in 1..n PROVE Best(w, i, c[i], versus)
    <3>1. \E x : Best(w, i, x, versus)
      BY <1>3, BestExists
    <3>2. c[i] = CHOOSE x : Best(w, i, x, versus)
      BY <2>1
    <3> QED
      BY <3>1, <3>2, Zenon
  <2>3. ASSUME NEW i \in 1..n PROVE c[i] = Turn(c, i)
    <3>1. CASE i = 1
      <4>1. Best(w, 1, c[1], versus) /\ \A j \in 1..1 : j = 1
        BY <2>2, <3>1
      <4>2. c[1] = w[1]
        BY <4>1 DEF Best
      <4> QED
        BY <3>1, <4>2
    <3>2. CASE i # 1
      <4>1. i \in 2..n /\ i - 1 \in 1..n /\ i \in Nat /\ \A j \in 1..i : j \in 1..n
        BY <3>2
      <4>2. Best(w, i - 1, c[i - 1], versus)
        BY <2>2, <4>1
      <4>3. Best(w, i, IF Beats(w[i], c[i - 1], versus) THEN w[i] ELSE c[i - 1], versus)
        BY <1>3, <4>1, <4>2, BestStep
      <4>4. \A j \in 1..i : w[j] \in Nat
        BY <1>3, <4>1
      <4>5. c[i] = IF Beats(w[i], c[i - 1], versus) THEN w[i] ELSE c[i - 1]
        BY <2>2, <4>1, <4>3, <4>4, BestIsOne
      <4> QED
        BY <3>2, <4>5
    <3> QED
      BY <3>1, <3>2
  <2>4. c = [i \in 1..n |-> Turn(c, i)]
    <3> HIDE DEF Turn
    <3> QED
      BY <2>1, <2>3, Zenon
  <2> QED
    BY <2>4
<1>7. PICK h : h = [i \in 1..n |-> Turn(h, i)] /\ MinMax(l, versus) = h[n]
  <2> DEFINE Loop(g, i) == IF i = 1 THEN l.data[l.next[HeadNode]]
                           ELSE IF Comparator(g[i - 1], l.data[Contents(l)[i]]) * versus > 0
                                THEN l.data[Contents(l)[i]] ELSE g[i - 1]
             k == CHOOSE g : g = [i \in 1..n |-> Loop(g, i)]
  <2>1. ASSUME NEW g, NEW i \in 1..n PROVE Loop(g, i) = Turn(g, i)
    BY <1>4 DEF Beats
  <2>2. ASSUME NEW g PROVE [i \in 1..n |-> Loop(g, i)] = [i \in 1..n |-> Turn(g, i)]
    <3> HIDE DEF Turn, Loop
    <3> QED
      BY <2>1, Zenon
  <2>3. \E g : g = [i \in 1..n |-> Loop(g, i)]
    <3> HIDE DEF Turn, Loop
    <3> QED
      BY <1>6, <2>2, ZenonT(60)
  <2>4. k = [i \in 1..n |-> Loop(k, i)]
    <3> HIDE DEF Loop
    <3> QED
      BY <2>3, Zenon
  <2>5. MinMax(l, versus) = k[n]
    BY <1>1, Zenon DEF MinMax
  <2>6. k = [i \in 1..n |-> Turn(k, i)]
    <3> HIDE DEF Turn, Loop, k
    <3> QED
      BY <2>2, <2>4, Zenon
  <2> HIDE DEF k, Turn, Loop
  <2> QED
    BY <2>5, <2>6, Zenon
<1> DEFINE S == {i \in 1..n : ~Best(w, i, h[i], versus)}
<1>8. S = {}
  <2> SUFFICES ASSUME S # {} PROVE FALSE
    OBVIOUS
  <2>1. S \subseteq Nat
    OBVIOUS
  <2>2. PICK i \in S : \A y \in S : i <= y
    <3> HIDE DEF S
    <3> QED
      BY <2>1, LeastNumber
  <2>3. i \in 1..n /\ ~Best(w, i, h[i], versus) /\ h[i] = Turn(h, i)
    BY <1>7
  <2>4. CASE i = 1
    <3>1. h[1] = w[1] /\ w[1] \in Nat /\ \A j \in 1..1 : j = 1
      BY <1>3, <2>3, <2>4
    <3>2. ~Beats(w[1], w[1], versus)
      BY <3>1, BeatsIs
    <3>3. Best(w, 1, h[1], versus)
      BY <3>1, <3>2 DEF Best
    <3> QED
      BY <2>3, <2>4, <3>3
  <2>5. CASE i # 1
    <3>1. i \in 2..n /\ i - 1 \in 1..n /\ ~(i <= i - 1)
      BY <2>3, <2>5
    <3>2. i - 1 \notin S
      <4> HIDE DEF S
      <4> QED
        BY <2>2, <3>1
    <3>3. Best(w, i - 1, h[i - 1], versus)
      BY <3>1, <3>2
    <3>4. Best(w, i, IF Beats(w[i], h[i - 1], versus) THEN w[i] ELSE h[i - 1], versus)
      BY <1>3, <3>1, <3>3, BestStep
    <3> QED
      BY <2>3, <2>5, <3>4
  <2> QED
    BY <2>4, <2>5
<1>9. n \in 1..n
  BY <1>1
<1> QED
  BY <1>1, <1>2, <1>7, <1>8, <1>9, ZenonT(60)

\* The best one way is the greatest, the other way the least.
LEMMA BestMeans ==
    ASSUME NEW w \in Seq(Nat), NEW x
    PROVE  /\ Best(w, Len(w), x, 1) => x = Max(Range(w))
           /\ Best(w, Len(w), x, -1) => x = Min(Range(w))
<1>1. Range(w) = {w[j] : j \in 1..Len(w)} /\ \A j \in 1..Len(w) : w[j] \in Nat
  BY LenProperties DEF Range
<1>2. ASSUME Best(w, Len(w), x, 1) PROVE x = Max(Range(w))
  <2>1. x \in Range(w) /\ x \in Nat
    BY <1>1, <1>2 DEF Best
  <2>2. \A y \in Range(w) : y \in Nat /\ x >= y
    BY <1>1, <1>2, <2>1, BeatsIs DEF Best
  <2>3. Max(Range(w)) \in Range(w) /\ \A y \in Range(w) : Max(Range(w)) >= y
    BY <2>1, <2>2, Zenon DEF Max
  <2>4. PICK m \in Nat : m = Max(Range(w))
    BY <2>2, <2>3
  <2>5. x >= m /\ m >= x
    BY <2>1, <2>2, <2>3, <2>4
  <2> QED
    BY <2>1, <2>4, <2>5
<1>3. ASSUME Best(w, Len(w), x, -1) PROVE x = Min(Range(w))
  <2>1. x \in Range(w) /\ x \in Nat
    BY <1>1, <1>3 DEF Best
  <2>2. \A y \in Range(w) : y \in Nat /\ x <= y
    BY <1>1, <1>3, <2>1, BeatsIs, SMTT(40) DEF Best
  <2>3. Min(Range(w)) \in Range(w) /\ \A y \in Range(w) : Min(Range(w)) <= y
    BY <2>1, <2>2, Zenon DEF Min
  <2>4. PICK m \in Nat : m = Min(Range(w))
    BY <2>2, <2>3
  <2>5. x <= m /\ m <= x
    BY <2>1, <2>2, <2>3, <2>4
  <2> QED
    BY <2>1, <2>4, <2>5
<1> QED
  BY <1>2, <1>3

\* Every position and every search finds what the calls have put there.
LEMMA SameElementsMeans ==
    ASSUME list \in ListRecord, NEW a, ListOK(list, a)
    PROVE  SameElements
<1>1. PICK l \in ListRecord : l = list
  OBVIOUS
<1>2. Spine(l, a) /\ Middle(l, a) /\ Holds(l, a) /\ OwnsCopies(l)
  BY <1>1 DEF ListOK
<1>3. PICK n \in Nat : n = l.numels
  BY DEF ListRecord
<1>4. PICK w \in Seq(ListData) : w = l.want /\ Len(w) = n
  BY <1>2, <1>3 DEF Holds, ListRecord
<1>5. \A i \in 1..n : l.data[a[i]] = w[i]
  BY <1>2, <1>3, <1>4 DEF Holds
<1>6. [i \in 1..n |-> l.data[ListFindPos(l, i - 1)]] = w
  <2>1. ASSUME NEW i \in 1..n PROVE l.data[ListFindPos(l, i - 1)] = w[i]
    <3>1. i - 1 \in -1..n /\ (i - 1) + 1 = i
      OBVIOUS
    <3>2. ListFindPos(l, i - 1) = a[(i - 1) + 1]
      BY <1>2, <1>3, <3>1, FindPosIs
    <3> QED
      BY <1>5, <3>1, <3>2
  <2>2. w = [i \in 1..n |-> w[i]]
    BY <1>4
  <2> QED
    BY <2>1, <2>2, Zenon
<1>7. ListFindPos(l, -1) = HeadNode /\ ListFindPos(l, n) = TailNode
  <2>1. -1 \in -1..n /\ n \in -1..n /\ (-1) + 1 = 0
    OBVIOUS
  <2>2. ListFindPos(l, -1) = a[(-1) + 1] /\ ListFindPos(l, n) = a[n + 1]
    BY <1>2, <1>3, <2>1, FindPosIs
  <2> QED
    BY <1>2, <1>3, <2>1, <2>2 DEF Spine
<1>8. ASSUME NEW v \in ListData PROVE Locate(l, v) = SelectInSeq(w, LAMBDA x : x = v) - 1
  <2>1. PICK in : in = Contents(l) /\ Len(in) = n /\ \A i \in 1..n : in[i] = a[i]
    BY <1>2, <1>3, ContentsIs
  <2>2. {i \in 1..Len(in) : l.data[in[i]] = v} = {i \in 1..Len(w) : w[i] = v}
    BY <1>4, <1>5, <2>1
  <2>3. SelectInSeq(in, LAMBDA x : l.data[x] = v) = SelectInSeq(w, LAMBDA x : x = v)
    BY <2>2, Zenon DEF SelectInSeq
  <2> QED
    BY <2>1, <2>3, Zenon DEF Locate
<1>9. ASSUME n > 0
      PROVE  MinMax(l, 1) = Max(Range(w)) /\ MinMax(l, -1) = Min(Range(w))
  <2>1. l.numels # 0 /\ w \in Seq(Nat)
    <3>1. w \in Seq(Nat)
      BY <1>4, ListConstants, SeqMonotonic
    <3> QED
      BY <1>3, <1>9, <3>1
  <2>2. Best(l.want, l.numels, MinMax(l, 1), 1) /\ Best(l.want, l.numels, MinMax(l, -1), -1)
    BY <1>2, <2>1, MinMaxIs
  <2> QED
    BY <1>3, <1>4, <2>1, <2>2, BestMeans
<1>10. l.copies = IF l.copy THEN n ELSE 0
  BY <1>2, <1>3 DEF OwnsCopies
<1> QED
  BY <1>1, <1>3, <1>4, <1>6, <1>7, <1>8, <1>9, <1>10 DEF SameElements

\* The invariant is what the run checks, and more.
LEMMA ListIInvMeans == ListIInv => ListTypeOK /\ ListSound
<1> SUFFICES ASSUME ListIInv PROVE ListTypeOK /\ ListSound
  OBVIOUS
<1>1. PICK a : ListOK(list, a)
  BY DEF ListIInv
<1>2. PICK l \in ListRecord : l = list /\ ListOK(l, a)
  BY <1>1 DEF ListIInv
<1>3. Spine(l, a) /\ Spares(l, a)
  BY <1>2 DEF ListOK
<1>4. l.numels \in 0..MaxEls
  <2>1. l.numels \in Nat /\ MaxEls \in Nat
    BY ListConstants DEF ListRecord
  <2>2. l.numels <= MaxEls
    BY <1>3, LiveCount
  <2> QED
    BY <2>1, <2>2
<1>5. ListTypeOK
  BY <1>2, <1>4 DEF ListTypeOK, ListRecord, IterRecord
<1>6. RepOk /\ SameElements
  BY <1>1, <1>2, RepOkMeans, SameElementsMeans
<1>7. IterLive
  <2> SUFFICES ASSUME l.iter.active PROVE l.iter.cur \in Range(Contents(l)) \cup {TailNode}
    BY <1>2 DEF IterLive
  <2>1. PICK k \in 1..(l.numels + 1) : l.iter.cur = a[k]
    BY <1>2 DEF ListOK, Iterating
  <2>2. l.numels \in Nat /\ (k \in 1..l.numels \/ k = l.numels + 1)
    BY <1>4
  <2>3. Range(Contents(l)) = {a[i] : i \in 1..l.numels}
    BY <1>3, ContentsIs
  <2>4. a[l.numels + 1] = TailNode
    BY <1>3 DEF Spine
  <2> QED
    BY <2>1, <2>2, <2>3, <2>4
<1> QED
  BY <1>5, <1>6, <1>7 DEF ListSound

-----------------------------------------------------------------------------
(* Entries leave the list                                                  *)

\* A part of a sequence, item by item.
LEMMA PartOf ==
    ASSUME NEW D, NEW s \in Seq(D), NEW i \in Nat \ {0}, NEW j \in Nat, i <= j + 1, j <= Len(s)
    PROVE  /\ SubSeq(s, i, j) \in Seq(D) /\ Len(SubSeq(s, i, j)) = j - i + 1
           /\ \A x \in 1..(j - i + 1) : SubSeq(s, i, j)[x] = s[(i - 1) + x]
<1>1. i \in Int /\ j \in Int /\ \A x \in i..j : s[x] \in D
  OBVIOUS
<1>2. PICK t : t = SubSeq(s, i, j)
  OBVIOUS
<1>3. /\ t \in Seq(D) /\ Len(t) = IF i <= j THEN j - i + 1 ELSE 0
      /\ \A x \in 1..(j - i + 1) : t[x] = s[i + x - 1]
  BY <1>1, <1>2, SubSeqProperties
<1>4. Len(t) = j - i + 1
  BY <1>3
<1>5. \A x \in 1..(j - i + 1) : i + x - 1 = (i - 1) + x
  OBVIOUS
<1> QED
  BY <1>2, <1>3, <1>4, <1>5

\* The first j items.
LEMMA FrontOf ==
    ASSUME NEW D, NEW s \in Seq(D), NEW j \in Nat, j <= Len(s)
    PROVE  /\ SubSeq(s, 1, j) \in Seq(D) /\ Len(SubSeq(s, 1, j)) = j
           /\ \A x \in 1..j : SubSeq(s, 1, j)[x] = s[x]
<1>1. PICK t : t = SubSeq(s, 1, j)
  OBVIOUS
<1>2. 1 \in Nat \ {0} /\ 1 <= j + 1 /\ j - 1 + 1 = j /\ \A x \in 1..j : (1 - 1) + x = x
  OBVIOUS
<1>3. t \in Seq(D) /\ Len(t) = j - 1 + 1 /\ \A x \in 1..(j - 1 + 1) : t[x] = s[(1 - 1) + x]
  BY <1>1, <1>2, PartOf
<1> QED
  BY <1>1, <1>2, <1>3

\* Two sequences, one behind the other.
LEMMA Joined ==
    ASSUME NEW D, NEW s \in Seq(D), NEW t \in Seq(D), NEW m \in Nat, m = Len(s),
           NEW k \in Nat, k = Len(t)
    PROVE  /\ s \o t \in Seq(D) /\ Len(s \o t) = m + k
           /\ \A x \in 1..m : (s \o t)[x] = s[x]
           /\ \A x \in 1..k : (s \o t)[m + x] = t[x]
<1>1. PICK u : u = s \o t
  OBVIOUS
<1>2. u \in Seq(D) /\ Len(u) = m + k /\ \A x \in 1..(m + k) : u[x] = IF x <= m THEN s[x] ELSE t[x - m]
  BY <1>1, ConcatProperties
<1>3. \A x \in 1..m : x \in 1..(m + k) /\ x <= m
  OBVIOUS
<1>4. \A x \in 1..k : m + x \in 1..(m + k) /\ ~(m + x <= m) /\ (m + x) - m = x
  OBVIOUS
<1>5. \A x \in 1..m : u[x] = s[x]
  BY <1>2, <1>3
<1>6. \A x \in 1..k : u[m + x] = t[x]
  BY <1>2, <1>4
<1> QED
  BY <1>1, <1>2, <1>5, <1>6

\* The list without the k entries behind position p.
Without(a, n, p, k) == [i \in 0..(n - k + 1) |-> IF i <= p THEN a[i] ELSE a[i + k]]

\* Those entries, from the i-th to the j-th of them.
Doomed(a, p, i, j) == {a[p + x] : x \in i..j}

\* r is l with the entries around them linked, and themselves spare or freed.
Unlinked(l, r, a, p, k) ==
    /\ \A x \in Nodes \ Doomed(a, p, 1, k) :
         /\ r.next[x] = IF x = a[p] THEN a[p + k + 1] ELSE l.next[x]
         /\ r.prev[x] = IF x = a[p + k + 1] THEN a[p] ELSE l.prev[x]
         /\ r.data[x] = l.data[x]
    /\ \E room \in 0..k :
         /\ Len(r.spare) = Len(l.spare) + room /\ Len(l.spare) + room <= MaxSpare
         /\ \A i \in 1..Len(l.spare) : r.spare[i] = l.spare[i]
         /\ \A i \in 1..room : r.spare[Len(l.spare) + i] = a[p + i]
         /\ r.live = l.live \ Doomed(a, p, room + 1, k)
    /\ r.copy = l.copy
    /\ r.copies = IF l.copy THEN l.copies - k ELSE l.copies

\* q is l with the entries around them linked.
Bridged(l, q, a, p, k) ==
    /\ q.next = [l.next EXCEPT ![a[p]] = a[p + k + 1]]
    /\ q.prev = [l.prev EXCEPT ![a[p + k + 1]] = a[p]]
    /\ \A x \in Nodes \ Doomed(a, p, 1, k) : q.data[x] = l.data[x]
    /\ q.spare = l.spare /\ q.live = l.live /\ q.copy = l.copy /\ q.copies = l.copies

\* Nothing else is different.
SameElse(r, q) == r.numels = q.numels /\ r.mid = q.mid /\ r.iter = q.iter /\ r.want = q.want

\* Then releasing them does that.
LEMMA ReleaseUnlinks ==
    ASSUME NEW l \in ListRecord, NEW a, Spine(l, a), Spares(l, a),
           NEW p \in Nat, NEW k \in Nat, p + k <= l.numels,
           NEW q \in ListRecord, Bridged(l, q, a, p, k),
           NEW S, DOMAIN S = 1..k, S \in Seq(ListEntries), \A j \in 1..k : S[j] = a[p + j]
    PROVE  /\ Release(q, S) \in ListRecord /\ Unlinked(l, Release(q, S), a, p, k)
           /\ SameElse(Release(q, S), q)
<1>0. /\ q.next = [l.next EXCEPT ![a[p]] = a[p + k + 1]]
      /\ q.prev = [l.prev EXCEPT ![a[p + k + 1]] = a[p]]
      /\ \A x \in Nodes \ Doomed(a, p, 1, k) : q.data[x] = l.data[x]
      /\ q.spare = l.spare /\ q.live = l.live /\ q.copy = l.copy /\ q.copies = l.copies
  BY DEF Bridged
<1>1. PICK n \in Nat : n = l.numels /\ p + k <= n
  BY DEF ListRecord
<1>2. /\ \A i \in 0..(n + 1) : a[i] \in Nodes
      /\ \A i \in 1..n : a[i] \in ListEntries
  BY <1>1, SpineIs
<1>3. \A i, j \in 0..(n + 1) : a[i] = a[j] => i = j
  BY <1>1 DEF Spine
<1>4. \A j \in 1..k : p + j \in 1..n /\ p + j \in 0..(n + 1)
  BY <1>1
<1>5. S \in Seq(ListEntries) /\ Len(S) = k /\ DOMAIN S = 1..k /\ \A j \in 1..k : S[j] = a[p + j]
  BY LenProperties
<1>6. PICK m \in Nat : m = Len(l.spare) /\ m <= MaxSpare
  BY DEF ListRecord, Spares
<1>7. PICK room \in 0..k : room = Min({k, MaxSpare - m}) /\ m + room <= MaxSpare
  <2>1. MaxSpare - m \in Nat
    BY <1>6, ListConstants
  <2>2. Min({k, MaxSpare - m}) = IF k <= MaxSpare - m THEN k ELSE MaxSpare - m
    BY <2>1, LeastOfTwo
  <2> QED
    BY <1>6, <2>1, <2>2, ListConstants, SMTT(40)
<1>8. PICK T : T = SubSeq(S, 1, room)
  OBVIOUS
<1>9. T \in Seq(ListEntries) /\ Len(T) = room /\ \A j \in 1..room : T[j] = a[p + j]
  <2>1. room \in Nat /\ room <= Len(S) /\ \A j \in 1..room : j \in 1..k
    BY <1>5
  <2>2. /\ SubSeq(S, 1, room) \in Seq(ListEntries) /\ Len(SubSeq(S, 1, room)) = room
        /\ \A j \in 1..room : SubSeq(S, 1, room)[j] = S[j]
    <3>1. S \in Seq(ListEntries)
      BY <1>5
    <3>2. \A u \in Seq(ListEntries), x \in Nat : x <= Len(u) =>
            /\ SubSeq(u, 1, x) \in Seq(ListEntries) /\ Len(SubSeq(u, 1, x)) = x
            /\ \A j \in 1..x : SubSeq(u, 1, x)[j] = u[j]
      BY FrontOf
    <3> QED
      BY <2>1, <3>1, <3>2, Zenon
  <2>3. T \in Seq(ListEntries) /\ Len(T) = room
    BY <1>8, <2>2, Zenon
  <2>4. ASSUME NEW j \in 1..room PROVE T[j] = a[p + j]
    <3>1. j \in 1..k
      BY <2>1
    <3>2. S[j] = a[p + j]
      BY <1>5, <3>1, Zenon
    <3>3. T[j] = S[j]
      BY <1>8, <2>2, Zenon
    <3> QED
      BY <3>2, <3>3, Zenon
  <2> QED
    BY <2>3, <2>4, Zenon
<1>10. Range(S) = Doomed(a, p, 1, k)
  BY <1>5 DEF Range, Doomed
<1>11. Range(T) = {a[p + j] : j \in 1..room}
  <2>1. DOMAIN T = 1..room
    BY <1>9, LenProperties
  <2>2. ASSUME NEW x PROVE x \in Range(T) <=> x \in {a[p + j] : j \in 1..room}
    <3>1. x \in Range(T) <=> \E j \in 1..room : x = T[j]
      BY <2>1, Zenon DEF Range
    <3>2. (\E j \in 1..room : x = T[j]) <=> \E j \in 1..room : x = a[p + j]
      BY <1>9, Zenon
    <3> QED
      BY <3>1, <3>2, Zenon
  <2> QED
    BY <2>2, Zenon
<1>12. Range(S) \ Range(T) = Doomed(a, p, room + 1, k)
  <2>1. ASSUME NEW x \in Range(S), x \notin Range(T) PROVE x \in Doomed(a, p, room + 1, k)
    <3>1. PICK j \in 1..k : x = a[p + j]
      BY <1>10, <2>1 DEF Doomed
    <3>2. j \notin 1..room
      BY <1>11, <2>1, <3>1
    <3>3. j \in (room + 1)..k
      BY <3>2
    <3> QED
      BY <3>1, <3>3 DEF Doomed
  <2>2. ASSUME NEW x \in Doomed(a, p, room + 1, k) PROVE x \in Range(S) /\ x \notin Range(T)
    <3>1. PICK j \in (room + 1)..k : x = a[p + j]
      BY <2>2 DEF Doomed
    <3>2. j \in 1..k
      OBVIOUS
    <3>3. ASSUME NEW i \in 1..room, x = a[p + i] PROVE FALSE
      <4>1. i \in 1..k /\ i # j /\ p + i # p + j
        OBVIOUS
      <4>2. p + i \in 0..(n + 1) /\ p + j \in 0..(n + 1) /\ a[p + i] = a[p + j]
        BY <1>4, <3>1, <3>2, <3>3, <4>1
      <4>3. p + i = p + j
        BY <1>3, <4>2
      <4> QED
        BY <4>1, <4>3
    <3> QED
      BY <1>10, <1>11, <3>1, <3>2, <3>3 DEF Doomed
  <2> QED
    BY <2>1, <2>2
<1>13. PICK r : r = Release(q, S)
  OBVIOUS
<1>14. PICK fn, fp, fd, sp, lv, cp :
         /\ fn = [x \in Nodes |-> IF x \in Range(S) THEN NullNode ELSE q.next[x]]
         /\ fp = [x \in Nodes |-> IF x \in Range(S) THEN NullNode ELSE q.prev[x]]
         /\ fd = [x \in Nodes |-> IF x \in Range(S) THEN 0 ELSE q.data[x]]
         /\ sp = q.spare \o T /\ lv = q.live \ (Range(S) \ Range(T))
         /\ cp = IF q.copy THEN q.copies - k ELSE q.copies
  OBVIOUS
<1>15. r = [q EXCEPT !.next = fn, !.prev = fp, !.data = fd, !.spare = sp, !.live = lv, !.copies = cp]
  <2>1. T = SubSeq(S, 1, Min({Len(S), MaxSpare - Len(q.spare)}))
    BY <1>0, <1>5, <1>6, <1>7, <1>8
  <2>2. Len(S) = k
    BY <1>5
  <2> QED
    BY <1>13, <1>14, <2>1, <2>2 DEF Release, ListRecord
<1>16. /\ fn \in [Nodes -> Nodes \cup {NullNode}] /\ fp \in [Nodes -> Nodes \cup {NullNode}]
       /\ fd \in [Nodes -> ListData \cup {0}]
  <2>1. /\ q.next \in [Nodes -> Nodes \cup {NullNode}] /\ q.prev \in [Nodes -> Nodes \cup {NullNode}]
        /\ q.data \in [Nodes -> ListData \cup {0}]
    BY DEF ListRecord
  <2> QED
    BY <1>14, <2>1
<1>17. sp \in Seq(ListEntries) /\ lv \in SUBSET ListEntries /\ cp \in Int
  <2>1. q.spare \in Seq(ListEntries) /\ q.live \in SUBSET ListEntries /\ q.copies \in Int
    BY DEF ListRecord
  <2> QED
    BY <1>9, <1>14, <2>1
<1>18. r \in ListRecord
  BY <1>15, <1>16, <1>17 DEF ListRecord
<1>19. /\ r.next = fn /\ r.prev = fp /\ r.data = fd /\ r.spare = sp /\ r.live = lv /\ r.copies = cp
       /\ r.copy = q.copy /\ r.numels = q.numels /\ r.mid = q.mid /\ r.iter = q.iter /\ r.want = q.want
  BY <1>15 DEF ListRecord
<1>20. ASSUME NEW x \in Nodes \ Doomed(a, p, 1, k)
       PROVE  /\ r.next[x] = IF x = a[p] THEN a[p + k + 1] ELSE l.next[x]
              /\ r.prev[x] = IF x = a[p + k + 1] THEN a[p] ELSE l.prev[x]
              /\ r.data[x] = l.data[x]
  <2>1. fn[x] = q.next[x] /\ fp[x] = q.prev[x] /\ fd[x] = q.data[x]
    BY <1>10, <1>14
  <2>2. DOMAIN l.next = Nodes /\ DOMAIN l.prev = Nodes
    BY DEF ListRecord
  <2> QED
    BY <1>0, <1>19, <2>1, <2>2
<1>21. /\ Len(r.spare) = m + room /\ \A i \in 1..m : r.spare[i] = l.spare[i]
       /\ \A i \in 1..room : r.spare[m + i] = a[p + i]
  <2>1. l.spare \in Seq(ListEntries) /\ r.spare = l.spare \o T
    BY <1>0, <1>14, <1>19 DEF ListRecord
  <2>2. room \in Nat /\ room = Len(T)
    BY <1>9
  <2>3. /\ Len(l.spare \o T) = m + room /\ \A i \in 1..m : (l.spare \o T)[i] = l.spare[i]
        /\ \A i \in 1..room : (l.spare \o T)[m + i] = T[i]
    <3>1. T \in Seq(ListEntries) /\ l.spare \in Seq(ListEntries) /\ m = Len(l.spare)
      BY <1>6, <1>9, <2>1
    <3> QED
      BY <2>2, <3>1, Joined, SMTT(30)
  <2> QED
    BY <1>9, <2>1, <2>3
<1>22. Unlinked(l, r, a, p, k)
  <2>1. r.live = l.live \ Doomed(a, p, room + 1, k)
    BY <1>0, <1>12, <1>14, <1>19
  <2>2. r.copy = l.copy /\ r.copies = IF l.copy THEN l.copies - k ELSE l.copies
    BY <1>0, <1>14, <1>19
  <2>3. \E x \in 0..k :
          /\ Len(r.spare) = Len(l.spare) + x /\ Len(l.spare) + x <= MaxSpare
          /\ \A i \in 1..Len(l.spare) : r.spare[i] = l.spare[i]
          /\ \A i \in 1..x : r.spare[Len(l.spare) + i] = a[p + i]
          /\ r.live = l.live \ Doomed(a, p, x + 1, k)
    BY <1>6, <1>7, <1>21, <2>1, Zenon
  <2> QED
    BY <1>20, <2>2, <2>3, Zenon DEF Unlinked
<1>23. SameElse(r, q)
  BY <1>19 DEF SameElse
<1> QED
  BY <1>13, <1>18, <1>22, <1>23

\* S lists them.
Taken(S, a, p, k) == S \in Seq(ListEntries) /\ DOMAIN S = 1..k /\ \A j \in 1..k : S[j] = a[p + j]

\* The same, of a list of them.
LEMMA ReleaseTaken ==
    ASSUME NEW l \in ListRecord, NEW a, Spine(l, a), Spares(l, a),
           NEW p \in Nat, NEW k \in Nat, p + k <= l.numels,
           NEW q \in ListRecord, Bridged(l, q, a, p, k), NEW S, Taken(S, a, p, k)
    PROVE  /\ Release(q, S) \in ListRecord /\ Unlinked(l, Release(q, S), a, p, k)
           /\ SameElse(Release(q, S), q)
<1>1. S \in Seq(ListEntries) /\ DOMAIN S = 1..k /\ \A j \in 1..k : S[j] = a[p + j]
  BY DEF Taken
<1> QED
  BY <1>1, ReleaseUnlinks, SMTT(40)

\* One entry.
LEMMA ReleaseOne ==
    ASSUME NEW l \in ListRecord, NEW a, Spine(l, a), Spares(l, a), NEW p \in Nat, p + 1 <= l.numels,
           NEW q \in ListRecord, Bridged(l, q, a, p, 1)
    PROVE  LET r == Release(q, <<a[p + 1]>>) IN
           r \in ListRecord /\ Unlinked(l, r, a, p, 1) /\ SameElse(r, q)
<1>1. PICK S : S = <<a[p + 1]>>
  OBVIOUS
<1>2. a[p + 1] \in ListEntries
  <2>1. p + 1 \in 1..l.numels
    BY SpineIs
  <2> QED
    BY <2>1, SpineIs
<1>3. DOMAIN S = 1..1 /\ S \in Seq(ListEntries) /\ \A j \in 1..1 : S[j] = a[p + j]
  BY <1>1, <1>2
<1>4. PICK k \in Nat : k = 1
  OBVIOUS
<1>5. /\ DOMAIN S = 1..k /\ S \in Seq(ListEntries) /\ \A j \in 1..k : S[j] = a[p + j]
      /\ p + k <= l.numels /\ Bridged(l, q, a, p, k)
  BY <1>3, <1>4
<1>6. Release(q, S) \in ListRecord /\ Unlinked(l, Release(q, S), a, p, k) /\ SameElse(Release(q, S), q)
  BY <1>5, ReleaseUnlinks
<1> QED
  BY <1>1, <1>4, <1>6

\* What is left is a list.
LEMMA UnlinkedKeeps ==
    ASSUME NEW l \in ListRecord, NEW a, Spine(l, a), Spares(l, a), OwnsCopies(l),
           NEW p \in Nat, NEW k \in Nat, p + k <= l.numels,
           NEW r \in ListRecord, Unlinked(l, r, a, p, k), r.numels = l.numels - k
    PROVE  LET b == Without(a, l.numels, p, k) IN Spine(r, b) /\ Spares(r, b) /\ OwnsCopies(r)
<1>1. PICK n \in Nat : n = l.numels /\ p + k <= n
  BY DEF ListRecord
<1>2. PICK h \in Nat : h = n - k /\ r.numels = h /\ p <= h
  BY <1>1
<1>3. PICK b : b = Without(a, n, p, k)
  OBVIOUS
<1>4. /\ DOMAIN b = 0..(h + 1)
      /\ \A i \in 0..(h + 1) : i <= p => b[i] = a[i]
      /\ \A i \in 0..(h + 1) : i > p => b[i] = a[i + k]
  <2>1. n - k + 1 = h + 1
    BY <1>2
  <2> QED
    BY <1>3, <2>1 DEF Without
<1>5. \A i \in 0..(n + 1) : a[i] \in Nodes
  BY <1>1, SpineIs
<1>6. \A i, j \in 0..(n + 1) : a[i] = a[j] => i = j
  BY <1>1 DEF Spine
<1>7. PICK e : e = [i \in 0..(h + 1) |-> IF i <= p THEN i ELSE i + k]
  OBVIOUS
<1>8. ASSUME NEW i \in 0..(h + 1)
      PROVE  /\ b[i] = a[e[i]] /\ e[i] \in 0..(n + 1) /\ \A j \in 1..k : e[i] # p + j
             /\ e[i] = IF i <= p THEN i ELSE i + k
  <2>1. e[i] = IF i <= p THEN i ELSE i + k
    BY <1>7
  <2>2. e[i] \in 0..(n + 1) /\ \A j \in 1..k : e[i] # p + j
    BY <1>1, <1>2, <2>1
  <2>3. b[i] = a[e[i]]
    BY <1>4, <2>1
  <2> QED
    BY <2>1, <2>2, <2>3
<1>9. ASSUME NEW i \in 0..(h + 1)
      PROVE  b[i] \in Nodes \ Doomed(a, p, 1, k)
  <2>1. b[i] = a[e[i]] /\ e[i] \in 0..(n + 1) /\ \A j \in 1..k : e[i] # p + j
    BY <1>8
  <2>2. \A j \in 1..k : p + j \in 0..(n + 1)
    BY <1>1
  <2>3. \A j \in 1..k : a[e[i]] # a[p + j]
    BY <1>6, <2>1, <2>2
  <2> QED
    BY <1>5, <2>1, <2>3 DEF Doomed
<1>10. ASSUME NEW i \in 0..(h + 1), NEW j \in 0..(h + 1), b[i] = b[j] PROVE i = j
  <2>1. e[i] = e[j]
    BY <1>6, <1>8, <1>10
  <2>2. e[i] = (IF i <= p THEN i ELSE i + k) /\ e[j] = (IF j <= p THEN j ELSE j + k)
    BY <1>8
  <2>3. (IF i <= p THEN i ELSE i + k) = (IF j <= p THEN j ELSE j + k)
    BY <2>1, <2>2, Zenon
  <2>4. i \in Int /\ j \in Int
    OBVIOUS
  <2> QED
    BY <2>3, <2>4
<1>11. ASSUME NEW i \in 0..h PROVE r.next[b[i]] = b[i + 1] /\ r.prev[b[i + 1]] = b[i]
  <2>1. i \in 0..(h + 1) /\ i + 1 \in 0..(h + 1)
    OBVIOUS
  <2>2. /\ r.next[b[i]] = IF b[i] = a[p] THEN a[p + k + 1] ELSE l.next[b[i]]
        /\ r.prev[b[i + 1]] = IF b[i + 1] = a[p + k + 1] THEN a[p] ELSE l.prev[b[i + 1]]
    BY <1>9, <2>1 DEF Unlinked
  <2>3. CASE i = p
    <3>1. b[i] = a[p] /\ b[i + 1] = a[(p + 1) + k] /\ (p + 1) + k = p + k + 1
      BY <1>4, <2>1, <2>3
    <3> QED
      BY <2>2, <3>1
  <2>4. CASE i # p
    <3>1. PICK d \in 0..n : /\ b[i] = a[d] /\ b[i + 1] = a[d + 1]
                            /\ d # p /\ d + 1 # p + k + 1
      <4>1. CASE i < p
        <5>1. i \in 0..n /\ i <= p /\ i + 1 <= p /\ i + 1 # p + k + 1
          BY <1>1, <1>2, <4>1
        <5> QED
          BY <1>4, <2>1, <2>4, <5>1
      <4>2. CASE i > p
        <5>1. /\ i + k \in 0..n /\ i + 1 > p /\ (i + 1) + k = (i + k) + 1 /\ i + k # p
              /\ (i + k) + 1 # p + k + 1
          BY <1>1, <1>2, <4>2
        <5>2. b[i] = a[i + k] /\ b[i + 1] = a[(i + 1) + k]
          BY <1>4, <2>1, <4>2, <5>1
        <5> QED
          BY <5>1, <5>2
      <4> QED
        BY <2>4, <4>1, <4>2
    <3>2. d \in 0..(n + 1) /\ d + 1 \in 0..(n + 1) /\ p \in 0..(n + 1) /\ p + k + 1 \in 0..(n + 1)
      BY <1>1
    <3>3. a[d] # a[p] /\ a[d + 1] # a[p + k + 1]
      BY <1>6, <3>1, <3>2
    <3>4. l.next[a[d]] = a[d + 1] /\ l.prev[a[d + 1]] = a[d]
      BY <1>1 DEF Spine
    <3> QED
      BY <2>2, <3>1, <3>3, <3>4
  <2> QED
    BY <2>3, <2>4
<1>12. b[0] = HeadNode /\ b[h + 1] = TailNode
  <2>1. /\ 0 \in 0..(h + 1) /\ 0 <= p /\ h + 1 \in 0..(h + 1) /\ h + 1 > p
        /\ (h + 1) + k = n + 1
    BY <1>1, <1>2
  <2>2. b[0] = a[0] /\ b[h + 1] = a[n + 1]
    BY <1>4, <2>1
  <2> QED
    BY <1>1, <2>2 DEF Spine
<1>13. Spine(r, b)
  <2>1. b = [i \in 0..(h + 1) |-> b[i]]
    BY <1>3, <1>4 DEF Without
  <2>2. b \in [0..(h + 1) -> Nodes]
    BY <1>9, <2>1
  <2> QED
    BY <1>2, <1>10, <1>11, <1>12, <2>2 DEF Spine
<1>14. PICK m \in Nat : m = Len(l.spare)
  BY DEF ListRecord
<1>15. PICK room \in 0..k :
         /\ Len(r.spare) = m + room /\ m + room <= MaxSpare
         /\ \A i \in 1..m : r.spare[i] = l.spare[i]
         /\ \A i \in 1..room : r.spare[m + i] = a[p + i]
         /\ r.live = l.live \ Doomed(a, p, room + 1, k)
  BY <1>14 DEF Unlinked
<1>16. ASSUME NEW i \in 1..(m + room)
       PROVE  \/ i \in 1..m /\ r.spare[i] = l.spare[i]
              \/ \E j \in 1..room : i = m + j /\ r.spare[i] = a[p + j] /\ p + j \in 1..n
                                    /\ p + j \in 0..(n + 1)
  <2>1. CASE i \in 1..m
    BY <1>15, <2>1
  <2>2. CASE i \notin 1..m
    <3>1. i - m \in 1..room /\ i = m + (i - m) /\ p + (i - m) \in 1..n /\ p + (i - m) \in 0..(n + 1)
      BY <1>1, <2>2
    <3> QED
      BY <1>15, <3>1
  <2> QED
    BY <2>1, <2>2
<1>17. /\ \A i, j \in 1..m : l.spare[i] = l.spare[j] => i = j
       /\ \A i \in 1..m, j \in 1..n : l.spare[i] # a[j]
       /\ l.live = {a[i] : i \in 1..n} \cup {l.spare[i] : i \in 1..m}
  BY <1>1, <1>14 DEF Spares
<1>18. ASSUME NEW i \in 1..(m + room), NEW j \in 1..(m + room), r.spare[i] = r.spare[j] PROVE i = j
  <2>1. CASE i \in 1..m /\ r.spare[i] = l.spare[i]
    BY <1>16, <1>17, <1>18, <2>1, ZenonT(60)
  <2>2. CASE \E x \in 1..room : i = m + x /\ r.spare[i] = a[p + x] /\ p + x \in 1..n
                                /\ p + x \in 0..(n + 1)
    <3>1. PICK x \in 1..room : i = m + x /\ r.spare[i] = a[p + x] /\ p + x \in 1..n
                               /\ p + x \in 0..(n + 1)
      BY <2>2
    <3>2. CASE j \in 1..m /\ r.spare[j] = l.spare[j]
      BY <1>17, <1>18, <3>1, <3>2
    <3>3. CASE \E y \in 1..room : j = m + y /\ r.spare[j] = a[p + y] /\ p + y \in 1..n
                                  /\ p + y \in 0..(n + 1)
      <4>1. PICK y \in 1..room : j = m + y /\ r.spare[j] = a[p + y] /\ p + y \in 0..(n + 1)
        BY <3>3
      <4>2. p + x = p + y
        BY <1>6, <1>18, <3>1, <4>1
      <4> QED
        BY <3>1, <4>1, <4>2
    <3> QED
      BY <1>16, <3>2, <3>3
  <2> QED
    BY <1>16, <2>1, <2>2
<1>19. ASSUME NEW j \in 1..h
       PROVE  \E x \in 1..n : b[j] = a[x] /\ \A y \in 1..k : x # p + y
  <2>1. j \in 0..(h + 1) /\ j # 0
    OBVIOUS
  <2>2. e[j] = (IF j <= p THEN j ELSE j + k) /\ b[j] = a[e[j]] /\ \A y \in 1..k : e[j] # p + y
    BY <1>8, <2>1
  <2>3. e[j] \in 1..n
    BY <1>1, <1>2, <2>2
  <2> QED
    BY <2>2, <2>3
<1>20. ASSUME NEW i \in 1..(m + room), NEW j \in 1..h PROVE r.spare[i] # b[j]
  <2>1. PICK x \in 1..n : b[j] = a[x] /\ \A y \in 1..k : x # p + y
    BY <1>19
  <2>2. CASE i \in 1..m /\ r.spare[i] = l.spare[i]
    BY <1>17, <2>1, <2>2
  <2>3. CASE \E y \in 1..room : i = m + y /\ r.spare[i] = a[p + y] /\ p + y \in 1..n
                                /\ p + y \in 0..(n + 1)
    <3>1. PICK y \in 1..room : r.spare[i] = a[p + y] /\ p + y \in 0..(n + 1)
      BY <2>3
    <3>2. y \in 1..k /\ x \in 0..(n + 1)
      OBVIOUS
    <3> QED
      BY <1>6, <2>1, <3>1, <3>2
  <2> QED
    BY <1>16, <2>2, <2>3
<1>21. r.live = {b[i] : i \in 1..h} \cup {r.spare[i] : i \in 1..(m + room)}
  <2>1. ASSUME NEW v \in r.live PROVE v \in {b[i] : i \in 1..h} \cup {r.spare[i] : i \in 1..(m + room)}
    <3>1. v \in l.live /\ v \notin Doomed(a, p, room + 1, k)
      BY <1>15, <2>1
    <3>2. CASE \E i \in 1..m : v = l.spare[i]
      <4>1. PICK i \in 1..m : v = l.spare[i]
        BY <3>2
      <4>2. i \in 1..(m + room) /\ r.spare[i] = l.spare[i]
        BY <1>15
      <4> QED
        BY <4>1, <4>2
    <3>3. CASE \E i \in 1..n : v = a[i]
      <4>1. PICK i \in 1..n : v = a[i]
        BY <3>3
      <4>2. CASE i <= p
        <5>1. i \in 1..h /\ i \in 0..(h + 1)
          BY <1>1, <1>2, <4>2
        <5> QED
          BY <1>4, <4>1, <4>2, <5>1
      <4>3. CASE i > p + k
        <5>1. i - k \in 1..h /\ i - k \in 0..(h + 1) /\ i - k > p /\ (i - k) + k = i
          BY <1>1, <1>2, <4>3
        <5>2. b[i - k] = a[i]
          BY <1>4, <5>1
        <5> QED
          BY <4>1, <5>1, <5>2
      <4>4. CASE i > p /\ i <= p + k
        <5>1. i - p \in 1..k /\ p + (i - p) = i
          BY <4>4
        <5>2. i - p \notin (room + 1)..k
          BY <3>1, <4>1, <5>1 DEF Doomed
        <5>3. i - p \in 1..room /\ m + (i - p) \in 1..(m + room)
          BY <5>1, <5>2
        <5>4. r.spare[m + (i - p)] = a[i]
          BY <1>15, <5>1, <5>3
        <5> QED
          BY <4>1, <5>3, <5>4
      <4> QED
        BY <4>2, <4>3, <4>4
    <3> QED
      BY <1>17, <3>1, <3>2, <3>3
  <2>2. ASSUME NEW i \in 1..h PROVE b[i] \in r.live
    <3>1. PICK x \in 1..n : b[i] = a[x] /\ \A y \in 1..k : x # p + y
      BY <1>19
    <3>2. i \in 0..(h + 1)
      OBVIOUS
    <3>3. b[i] \notin Doomed(a, p, 1, k)
      BY <1>9, <3>2
    <3>4. Doomed(a, p, room + 1, k) \subseteq Doomed(a, p, 1, k)
      BY DEF Doomed
    <3> QED
      BY <1>15, <1>17, <3>1, <3>3, <3>4
  <2>3. ASSUME NEW i \in 1..(m + room) PROVE r.spare[i] \in r.live
    <3>1. CASE i \in 1..m /\ r.spare[i] = l.spare[i]
      <4>1. \A y \in (room + 1)..k : p + y \in 1..n
        BY <1>1
      <4>2. r.spare[i] \notin Doomed(a, p, room + 1, k)
        BY <1>17, <3>1, <4>1 DEF Doomed
      <4> QED
        BY <1>15, <1>17, <3>1, <4>2
    <3>2. CASE \E y \in 1..room : i = m + y /\ r.spare[i] = a[p + y] /\ p + y \in 1..n
                                  /\ p + y \in 0..(n + 1)
      <4>1. PICK y \in 1..room : r.spare[i] = a[p + y] /\ p + y \in 1..n /\ p + y \in 0..(n + 1)
        BY <3>2
      <4>2. \A z \in (room + 1)..k : p + z \in 0..(n + 1) /\ p + z # p + y
        BY <1>1
      <4>3. r.spare[i] \notin Doomed(a, p, room + 1, k)
        BY <1>6, <4>1, <4>2 DEF Doomed
      <4> QED
        BY <1>15, <1>17, <4>1, <4>3
    <3> QED
      BY <1>16, <3>1, <3>2
  <2> QED
    BY <2>1, <2>2, <2>3
<1>22. Spares(r, b)
  BY <1>2, <1>15, <1>18, <1>20, <1>21 DEF Spares
<1>23. OwnsCopies(r)
  <2>1. l.copies \in Int /\ l.copy \in BOOLEAN
    BY DEF ListRecord
  <2>2. r.copy = l.copy /\ r.copies = IF l.copy THEN l.copies - k ELSE l.copies
    BY DEF Unlinked
  <2> QED
    BY <1>1, <1>2, <2>1, <2>2 DEF OwnsCopies
<1> QED
  BY <1>1, <1>3, <1>13, <1>22, <1>23

\* And holds what is left of the data.
LEMMA UnlinkedHolds ==
    ASSUME NEW l \in ListRecord, NEW a, Spine(l, a), Holds(l, a),
           NEW p \in Nat, NEW k \in Nat, p + k <= l.numels,
           NEW r \in ListRecord, Unlinked(l, r, a, p, k), r.numels = l.numels - k,
           r.want = SubSeq(l.want, 1, p) \o SubSeq(l.want, p + k + 1, Len(l.want))
    PROVE  Holds(r, Without(a, l.numels, p, k))
<1>1. PICK n \in Nat : n = l.numels /\ p + k <= n
  BY DEF ListRecord
<1>2. PICK h \in Nat : h = n - k /\ r.numels = h /\ p <= h
  BY <1>1
<1>3. PICK b : b = Without(a, n, p, k)
  OBVIOUS
<1>4. /\ \A i \in 0..(h + 1) : i <= p => b[i] = a[i]
      /\ \A i \in 0..(h + 1) : i > p => b[i] = a[i + k]
  <2>1. n - k + 1 = h + 1
    BY <1>2
  <2> QED
    BY <1>3, <2>1 DEF Without
<1>5. PICK w \in Seq(ListData) : w = l.want /\ Len(w) = n
  BY <1>1 DEF ListRecord, Holds
<1>6. \A i \in 1..n : l.data[a[i]] = w[i]
  BY <1>1, <1>5 DEF Holds
<1>7. PICK s1, s2 : s1 = SubSeq(w, 1, p) /\ s2 = SubSeq(w, p + k + 1, n)
  OBVIOUS
<1>8. /\ s1 \in Seq(ListData) /\ Len(s1) = p /\ \A i \in 1..p : s1[i] = w[i]
      /\ s2 \in Seq(ListData) /\ Len(s2) = n - (p + k) /\ \A i \in 1..(n - (p + k)) : s2[i] = w[p + k + i]
  <2>1. /\ 1 \in Nat \ {0} /\ 1 <= p + 1 /\ p <= Len(w) /\ p - 1 + 1 = p
        /\ \A i \in 1..p : (1 - 1) + i = i
    BY <1>1, <1>5
  <2>2. /\ p + k + 1 \in Nat \ {0} /\ p + k + 1 <= n + 1 /\ n <= Len(w)
        /\ n - (p + k + 1) + 1 = n - (p + k)
        /\ \A i \in 1..(n - (p + k)) : (p + k + 1 - 1) + i = p + k + i
    BY <1>1, <1>5, SMTT(40)
  <2>3. s1 \in Seq(ListData) /\ Len(s1) = p - 1 + 1 /\ \A i \in 1..(p - 1 + 1) : s1[i] = w[(1 - 1) + i]
    BY <1>7, <2>1, PartOf, SMTT(40)
  <2>4. /\ s2 \in Seq(ListData) /\ Len(s2) = n - (p + k + 1) + 1
        /\ \A i \in 1..(n - (p + k + 1) + 1) : s2[i] = w[(p + k + 1 - 1) + i]
    BY <1>7, <2>2, PartOf
  <2>5. Len(s1) = p /\ \A i \in 1..p : s1[i] = w[i]
    BY <2>1, <2>3
  <2>6. Len(s2) = n - (p + k) /\ \A i \in 1..(n - (p + k)) : s2[i] = w[p + k + i]
    BY <2>2, <2>4
  <2> QED
    BY <2>3, <2>4, <2>5, <2>6
<1>9. PICK u : u = r.want /\ u = s1 \o s2
  BY <1>5, <1>7
<1>10. /\ Len(u) = h /\ \A i \in 1..p : u[i] = w[i]
       /\ \A i \in 1..(h - p) : u[p + i] = w[p + k + i]
  <2>1. n - (p + k) = h - p /\ h - p \in Nat /\ p + (h - p) = h
    BY <1>1, <1>2, SMTT(40)
  <2>2. /\ s1 \in Seq(ListData) /\ s2 \in Seq(ListData) /\ p = Len(s1) /\ h - p = Len(s2)
    BY <1>8, <2>1
  <2>3. /\ Len(s1 \o s2) = p + (h - p) /\ \A i \in 1..p : (s1 \o s2)[i] = s1[i]
        /\ \A i \in 1..(h - p) : (s1 \o s2)[p + i] = s2[i]
    BY <2>1, <2>2, Joined, SMTT(30)
  <2>4. /\ Len(u) = p + (h - p) /\ \A i \in 1..p : u[i] = s1[i]
        /\ \A i \in 1..(h - p) : u[p + i] = s2[i]
    BY <1>9, <2>3, Zenon
  <2> QED
    BY <1>8, <2>1, <2>4
<1>11. ASSUME NEW i \in 1..h PROVE r.data[b[i]] = u[i]
  <2>1. Spine(l, a) /\ \A x, y \in 0..(n + 1) : a[x] = a[y] => x = y
    BY <1>1 DEF Spine
  <2>2. PICK x \in 1..n : b[i] = a[x] /\ u[i] = w[x] /\ \A y \in 1..k : x # p + y
    <3>1. CASE i <= p
      <4>1. i \in 1..p /\ i \in 1..n /\ i \in 0..(h + 1) /\ \A y \in 1..k : i # p + y
        BY <1>1, <1>2, <3>1
      <4> QED
        BY <1>4, <1>10, <3>1, <4>1
    <3>2. CASE i > p
      <4>1. /\ i - p \in 1..(h - p) /\ p + (i - p) = i /\ p + k + (i - p) = i + k
            /\ i + k \in 1..n /\ i \in 0..(h + 1) /\ \A y \in 1..k : i + k # p + y
        BY <1>1, <1>2, <3>2, SMTT(40)
      <4>2. u[p + (i - p)] = w[p + k + (i - p)]
        BY <1>10, <4>1
      <4>3. u[i] = w[i + k] /\ b[i] = a[i + k]
        BY <1>4, <3>2, <4>1, <4>2
      <4> QED
        BY <4>1, <4>3
    <3>3. i <= p \/ i > p
      OBVIOUS
    <3> QED
      BY <3>1, <3>2, <3>3
  <2>3. x \in 0..(n + 1) /\ \A y \in 1..k : p + y \in 0..(n + 1)
    BY <1>1
  <2>4. a[x] \notin Doomed(a, p, 1, k)
    BY <2>1, <2>2, <2>3 DEF Doomed
  <2>5. a[x] \in Nodes
    BY <1>1, <2>3, SpineIs
  <2>6. r.data[a[x]] = l.data[a[x]]
    BY <2>4, <2>5 DEF Unlinked
  <2> QED
    BY <1>6, <2>2, <2>6
<1> QED
  BY <1>1, <1>2, <1>3, <1>9, <1>10, <1>11 DEF Holds

\* c is z with x linked to y.
Linked(z, c, x, y) ==
    c = [z EXCEPT !.next = [z.next EXCEPT ![x] = y], !.prev = [z.prev EXCEPT ![y] = x]]

\* Linking two nodes.
LEMMA LinkIs ==
    ASSUME NEW z \in ListRecord, NEW x \in Nodes, NEW y \in Nodes
    PROVE  Link(z, x, y) \in ListRecord /\ Linked(z, Link(z, x, y), x, y)
<1>1. PICK fn, fp : fn = [z.next EXCEPT ![x] = y] /\ fp = [z.prev EXCEPT ![y] = x]
  OBVIOUS
<1>2. fn \in [Nodes -> Nodes \cup {NullNode}] /\ fp \in [Nodes -> Nodes \cup {NullNode}]
  <2>1. z.next \in [Nodes -> Nodes \cup {NullNode}] /\ z.prev \in [Nodes -> Nodes \cup {NullNode}]
    BY DEF ListRecord
  <2> QED
    BY <1>1, <2>1
<1>3. Link(z, x, y) = [z EXCEPT !.next = fn, !.prev = fp]
  BY <1>1 DEF Link, ListRecord
<1>4. PICK q : q = [z EXCEPT !.next = fn, !.prev = fp]
  OBVIOUS
<1>5. q \in ListRecord
  BY <1>2, <1>4 DEF ListRecord
<1> QED
  BY <1>1, <1>3, <1>4, <1>5 DEF Linked

\* ks_list_drop_elem on an entry whose data may have been taken.
LEMMA DropUnlinks ==
    ASSUME NEW l \in ListRecord, NEW a, Spine(l, a), Middle(l, a), Spares(l, a),
           NEW pos \in Nat, pos + 1 <= l.numels, NEW z \in ListRecord,
           z.next = l.next, z.prev = l.prev, z.spare = l.spare, z.live = l.live, z.mid = l.mid,
           z.numels = l.numels, z.copy = l.copy, z.copies = l.copies,
           \A x \in Nodes \ {a[pos + 1]} : z.data[x] = l.data[x]
    PROVE  LET r == DropElem(z, a[pos + 1], pos) IN
           /\ r \in ListRecord /\ Unlinked(l, r, a, pos, 1) /\ r.numels = l.numels - 1
           /\ Middle(r, Without(a, l.numels, pos, 1)) /\ r.iter = z.iter /\ r.want = z.want
<1>1. PICK n \in Nat : n = l.numels /\ pos + 1 <= n /\ n # 0
  BY DEF ListRecord
<1>2. PICK node : node = a[pos + 1]
  OBVIOUS
<1>3. /\ \A i \in 0..(n + 1) : a[i] \in Nodes
      /\ \A i \in 1..n : a[i] \in ListEntries
  BY <1>1, SpineIs
<1>4. z.prev[node] = a[pos] /\ z.next[node] = a[pos + 1 + 1]
  <2>1. pos \in 0..n /\ pos + 1 \in 0..n
    BY <1>1
  <2> QED
    BY <1>1, <1>2, <2>1 DEF Spine
<1>5. a[pos] \in Nodes /\ a[pos + 1 + 1] \in Nodes
  <2>1. pos \in 0..(n + 1) /\ pos + 1 + 1 \in 0..(n + 1)
    BY <1>1
  <2> QED
    BY <1>3, <2>1
<1>6. PICK b : b = Without(a, n, pos, 1)
  OBVIOUS
<1>7. PICK mid : mid = IF z.numels = 1 THEN NullNode
               ELSE IF z.numels % 2 = 1 /\ pos >= z.numels \div 2 THEN z.prev[z.mid]
               ELSE IF z.numels % 2 = 0 /\ pos < z.numels \div 2 THEN z.next[z.mid]
               ELSE z.mid
  OBVIOUS
<1>8. mid = IF n - 1 = 0 THEN NullNode ELSE b[MidPos(n - 1) + 1]
  <2>1. CASE n = 1
    BY <1>1, <1>7, <2>1
  <2>2. CASE n # 1
    <3>1. PICK h \in Nat : h = MidPos(n) /\ h + 1 \in 1..n /\ 2 * h <= n - 1 /\ n - 1 <= 2 * h + 1
      BY <1>1, MidPosIs
    <3>2. z.mid = a[h + 1]
      BY <1>1, <3>1 DEF Middle
    <3>3. ASSUME NEW i \in 0..n PROVE b[i] = IF i <= pos THEN a[i] ELSE a[i + 1]
      <4>1. n - 1 + 1 = n
        BY <1>1
      <4> QED
        BY <1>6, <4>1 DEF Without
    <3>4. CASE n = 2 * h + 1
      <4>1. /\ n % 2 = 1 /\ n \div 2 = h /\ MidPos(n - 1) = h - 1 /\ h \in 0..n /\ h >= 1
            /\ (h - 1) + 1 = h /\ n % 2 # 0 /\ n - 1 # 0
        BY <1>1, <2>2, <3>1, <3>4 DEF MidPos
      <4>2. z.prev[a[h + 1]] = a[h]
        BY <1>1, <4>1 DEF Spine
      <4>3. mid = IF pos >= h THEN a[h] ELSE a[h + 1]
        BY <1>1, <1>7, <2>2, <3>2, <4>1, <4>2
      <4>4. b[h] = IF h <= pos THEN a[h] ELSE a[h + 1]
        BY <3>3, <4>1
      <4> QED
        BY <3>1, <4>1, <4>3, <4>4
    <3>5. CASE n = 2 * h + 2
      <4>1. /\ n % 2 = 0 /\ n \div 2 = h + 1 /\ MidPos(n - 1) = h /\ h + 1 \in 0..n
            /\ n % 2 # 1 /\ n - 1 # 0
        BY <1>1, <2>2, <3>1, <3>5 DEF MidPos
      <4>2. z.next[a[h + 1]] = a[(h + 1) + 1]
        BY <1>1, <4>1 DEF Spine
      <4>3. mid = IF pos < h + 1 THEN a[(h + 1) + 1] ELSE a[h + 1]
        BY <1>1, <1>7, <2>2, <3>2, <4>1, <4>2
      <4>4. b[h + 1] = IF h + 1 <= pos THEN a[h + 1] ELSE a[(h + 1) + 1]
        BY <3>3, <4>1
      <4> QED
        BY <3>1, <4>1, <4>3, <4>4
    <3> QED
      BY <1>1, <3>1, <3>4, <3>5
  <2> QED
    BY <2>1, <2>2
<1>9. mid \in ListEntries \cup {NullNode}
  <2>1. CASE n - 1 = 0
    BY <1>8, <2>1
  <2>2. CASE n - 1 # 0
    <3>1. PICK i \in 1..(n - 1) : mid = b[i]
      <4>1. n - 1 \in Nat
        BY <1>1
      <4> QED
        BY <1>8, <2>2, <4>1, MidPosIs
    <3>2. i \in 0..(n - 1 + 1) /\ i \in 1..n /\ i + 1 \in 1..n
      BY <1>1
    <3>3. b[i] = IF i <= pos THEN a[i] ELSE a[i + 1]
      BY <1>6, <3>2 DEF Without
    <3> QED
      BY <1>3, <3>1, <3>2, <3>3
  <2> QED
    BY <2>1, <2>2
<1>10. PICK c : c = Link(z, a[pos], a[pos + 1 + 1])
  OBVIOUS
<1>11. c \in ListRecord /\ Linked(z, c, a[pos], a[pos + 1 + 1])
  BY <1>5, <1>10, LinkIs
<1>12. /\ c.next = [l.next EXCEPT ![a[pos]] = a[pos + 1 + 1]]
       /\ c.prev = [l.prev EXCEPT ![a[pos + 1 + 1]] = a[pos]]
       /\ c.data = z.data /\ c.spare = l.spare /\ c.live = l.live /\ c.copy = l.copy
       /\ c.copies = l.copies /\ c.numels = n /\ c.iter = z.iter /\ c.want = z.want
  BY <1>1, <1>11 DEF ListRecord, Linked
<1>13. PICK q : q = [c EXCEPT !.mid = mid, !.numels = n - 1]
  OBVIOUS
<1>14. q \in ListRecord
  <2>1. n - 1 \in Nat
    BY <1>1
  <2> QED
    BY <1>9, <1>11, <1>13, <2>1 DEF ListRecord
<1>15. /\ q.next = c.next /\ q.prev = c.prev /\ q.data = c.data /\ q.spare = c.spare
       /\ q.live = c.live /\ q.copy = c.copy /\ q.copies = c.copies /\ q.numels = n - 1
       /\ q.iter = c.iter /\ q.want = c.want /\ q.mid = mid
  BY <1>11, <1>13 DEF ListRecord
<1>18. Bridged(l, q, a, pos, 1)
  <2>1. Doomed(a, pos, 1, 1) = {a[pos + 1]}
    BY DEF Doomed
  <2> QED
    BY <1>12, <1>15, <2>1 DEF Bridged
<1>19. PICK r : r = Release(q, <<a[pos + 1]>>)
  OBVIOUS
<1>20. r \in ListRecord /\ Unlinked(l, r, a, pos, 1) /\ SameElse(r, q)
  BY <1>14, <1>18, <1>19, ReleaseOne
<1>21. DropElem(z, node, pos) = r
  <2>1. DropElem(z, node, pos) = Release([c EXCEPT !.mid = mid, !.numels = @ - 1], <<node>>)
    BY <1>4, <1>7, <1>10 DEF DropElem
  <2>2. [c EXCEPT !.mid = mid, !.numels = @ - 1] = q
    BY <1>11, <1>12, <1>13 DEF ListRecord
  <2> QED
    BY <1>2, <1>19, <2>1, <2>2
<1>22. Middle(r, b)
  BY <1>8, <1>15, <1>20 DEF Middle, SameElse
<1> QED
  BY <1>1, <1>2, <1>6, <1>12, <1>15, <1>20, <1>21, <1>22 DEF SameElse

\* The data without one of them.
LEMMA RemoveAtIs ==
    ASSUME NEW w, NEW pos \in Nat
    PROVE  RemoveAt(w, pos + 1) = SubSeq(w, 1, pos) \o SubSeq(w, pos + 1 + 1, Len(w))
<1>1. (pos + 1) - 1 = pos
  OBVIOUS
<1> QED
  BY <1>1 DEF RemoveAt

\* A change of what the links do not depend on.
LEMMA UnlinkedStays ==
    ASSUME NEW l, NEW a, NEW p, NEW k, NEW r \in ListRecord, Unlinked(l, r, a, p, k),
           NEW t, t.next = r.next, t.prev = r.prev, t.data = r.data, t.spare = r.spare,
           t.live = r.live, t.copy = r.copy, t.copies = r.copies
    PROVE  Unlinked(l, t, a, p, k)
<1>1. /\ \A x \in Nodes \ Doomed(a, p, 1, k) :
           /\ t.next[x] = IF x = a[p] THEN a[p + k + 1] ELSE l.next[x]
           /\ t.prev[x] = IF x = a[p + k + 1] THEN a[p] ELSE l.prev[x]
           /\ t.data[x] = l.data[x]
  BY DEF Unlinked
<1>2. \E room \in 0..k :
        /\ Len(t.spare) = Len(l.spare) + room /\ Len(l.spare) + room <= MaxSpare
        /\ \A i \in 1..Len(l.spare) : t.spare[i] = l.spare[i]
        /\ \A i \in 1..room : t.spare[Len(l.spare) + i] = a[p + i]
        /\ t.live = l.live \ Doomed(a, p, room + 1, k)
  <2>1. PICK room \in 0..k :
        /\ Len(r.spare) = Len(l.spare) + room /\ Len(l.spare) + room <= MaxSpare
        /\ \A i \in 1..Len(l.spare) : r.spare[i] = l.spare[i]
        /\ \A i \in 1..room : r.spare[Len(l.spare) + i] = a[p + i]
        /\ r.live = l.live \ Doomed(a, p, room + 1, k)
    BY DEF Unlinked
  <2> QED
    BY <2>1
<1>3. t.copy = l.copy /\ t.copies = IF l.copy THEN l.copies - k ELSE l.copies
  BY DEF Unlinked
<1> QED
  BY <1>1, <1>2, <1>3, Zenon DEF Unlinked

\* One entry is dropped, and its datum; no iteration is under way.
LEMMA DropKeeps ==
    ASSUME NEW l \in ListRecord, NEW a, ListOK(l, a), ~l.iter.active,
           NEW pos \in Nat, pos + 1 <= l.numels, NEW z \in ListRecord,
           z.next = l.next, z.prev = l.prev, z.spare = l.spare, z.live = l.live, z.mid = l.mid,
           z.numels = l.numels, z.copy = l.copy, z.copies = l.copies,
           z.iter = l.iter, z.want = l.want,
           \A x \in Nodes \ {a[pos + 1]} : z.data[x] = l.data[x]
    PROVE  LET t == [DropElem(z, a[pos + 1], pos) EXCEPT !.want = RemoveAt(@, pos + 1)] IN
           t \in ListRecord /\ \E b : ListOK(t, b)
<1>1. Spine(l, a) /\ Middle(l, a) /\ Holds(l, a) /\ Spares(l, a) /\ OwnsCopies(l)
  BY DEF ListOK
<1>2. PICK r \in ListRecord :
        /\ r = DropElem(z, a[pos + 1], pos) /\ Unlinked(l, r, a, pos, 1) /\ r.numels = l.numels - 1
        /\ Middle(r, Without(a, l.numels, pos, 1)) /\ r.iter = l.iter /\ r.want = l.want
  BY <1>1, DropUnlinks
<1>3. PICK w : w = RemoveAt(l.want, pos + 1)
  OBVIOUS
<1>4. w = SubSeq(l.want, 1, pos) \o SubSeq(l.want, pos + 1 + 1, Len(l.want))
  <2>1. l.want \in Seq(ListData)
    BY DEF ListRecord
  <2> QED
    BY <1>3, <2>1, RemoveAtIs
<1>5. w \in Seq(ListData)
  <2>1. l.want \in Seq(ListData) /\ Len(l.want) = l.numels /\ l.numels \in Nat
    BY <1>1 DEF ListRecord, Holds
  <2>2. /\ SubSeq(l.want, 1, pos) \in Seq(ListData)
        /\ SubSeq(l.want, pos + 1 + 1, Len(l.want)) \in Seq(ListData)
    BY <2>1
  <2> QED
    BY <1>4, <2>2
<1>6. PICK t : t = [r EXCEPT !.want = w]
  OBVIOUS
<1>7. t \in ListRecord
  BY <1>5, <1>6 DEF ListRecord
<1>8. /\ t.next = r.next /\ t.prev = r.prev /\ t.data = r.data /\ t.spare = r.spare
      /\ t.live = r.live /\ t.copy = r.copy /\ t.copies = r.copies /\ t.numels = r.numels
      /\ t.mid = r.mid /\ t.iter = r.iter /\ t.want = w
  BY <1>6 DEF ListRecord
<1>9. PICK b : b = Without(a, l.numels, pos, 1)
  OBVIOUS
<1>10. Unlinked(l, t, a, pos, 1)
  BY <1>2, <1>8, UnlinkedStays
<1>11. Spine(t, b) /\ Spares(t, b) /\ OwnsCopies(t)
  BY <1>1, <1>2, <1>7, <1>8, <1>9, <1>10, UnlinkedKeeps
<1>12. Holds(t, b)
  BY <1>1, <1>2, <1>4, <1>7, <1>8, <1>9, <1>10, UnlinkedHolds
<1>13. Middle(t, b)
  BY <1>2, <1>8, <1>9 DEF Middle
<1>14. Iterating(t, b)
  BY <1>2, <1>8 DEF Iterating
<1>15. ListOK(t, b)
  BY <1>11, <1>12, <1>13, <1>14 DEF ListOK
<1>16. t = [DropElem(z, a[pos + 1], pos) EXCEPT !.want = RemoveAt(@, pos + 1)]
  BY <1>2, <1>3, <1>6 DEF ListRecord
<1> QED
  BY <1>7, <1>15, <1>16

\* ks_list_clear takes all entries out.
LEMMA ClearedKeeps ==
    ASSUME NEW l \in ListRecord, NEW a, ListOK(l, a), ~l.iter.active
    PROVE  Cleared(l) \in ListRecord /\ \E b : ListOK(Cleared(l), b)
<1>1. Spine(l, a) /\ Middle(l, a) /\ Holds(l, a) /\ Spares(l, a) /\ OwnsCopies(l)
  BY DEF ListOK
<1>2. PICK n \in Nat : n = l.numels
  BY DEF ListRecord
<1>3. /\ a[0] = HeadNode /\ a[n + 1] = TailNode /\ HeadNode \in Nodes /\ TailNode \in Nodes
      /\ 0 + n = n /\ 0 + n + 1 = n + 1
  BY <1>1, <1>2, ListConstants DEF Spine, HeadNode, TailNode, Nodes
<1>4. PICK S : S = Contents(l)
  OBVIOUS
<1>5. DOMAIN S = 1..n /\ S \in Seq(ListEntries) /\ \A j \in 1..n : S[j] = a[0 + j]
  <2>1. \A j \in 1..n : 0 + j = j
    OBVIOUS
  <2>2. S = [j \in 1..n |-> a[j]] /\ S \in Seq(ListEntries)
    BY <1>1, <1>2, <1>4, ContentsIs
  <2> QED
    BY <2>1, <2>2
<1>6. PICK q : q = Link(l, HeadNode, TailNode)
  OBVIOUS
<1>7. q \in ListRecord /\ Linked(l, q, HeadNode, TailNode)
  BY <1>3, <1>6, LinkIs
<1>8. /\ q.next = [l.next EXCEPT ![HeadNode] = TailNode]
      /\ q.prev = [l.prev EXCEPT ![TailNode] = HeadNode]
      /\ q.data = l.data /\ q.spare = l.spare /\ q.live = l.live /\ q.copy = l.copy
      /\ q.copies = l.copies /\ q.iter = l.iter
  BY <1>7 DEF ListRecord, Linked
<1>9. PICK r : r = Release(q, S)
  OBVIOUS
<1>10. r \in ListRecord /\ Unlinked(l, r, a, 0, n) /\ r.iter = q.iter
  <2>1. Bridged(l, q, a, 0, n) /\ 0 \in Nat /\ 0 + n <= l.numels
    BY <1>2, <1>3, <1>8 DEF Bridged
  <2> QED
    BY <1>1, <1>5, <1>7, <1>9, <2>1, ReleaseUnlinks DEF SameElse
<1>11. PICK t : t = [r EXCEPT !.numels = 0, !.mid = NullNode, !.want = <<>>]
  OBVIOUS
<1>12. t \in ListRecord
  <2>1. 0 \in Nat /\ NullNode \in ListEntries \cup {NullNode} /\ <<>> \in Seq(ListData)
    OBVIOUS
  <2> QED
    BY <1>10, <1>11, <2>1 DEF ListRecord
<1>13. /\ t.next = r.next /\ t.prev = r.prev /\ t.data = r.data /\ t.spare = r.spare
       /\ t.live = r.live /\ t.copy = r.copy /\ t.copies = r.copies /\ t.numels = 0
       /\ t.mid = NullNode /\ t.iter = r.iter /\ t.want = <<>>
  BY <1>10, <1>11 DEF ListRecord
<1>14. PICK b : b = Without(a, l.numels, 0, n)
  OBVIOUS
<1>15. Unlinked(l, t, a, 0, n)
  BY <1>10, <1>13, UnlinkedStays
<1>16. Spine(t, b) /\ Spares(t, b) /\ OwnsCopies(t)
  <2>1. 0 \in Nat /\ 0 + n <= l.numels /\ t.numels = l.numels - n
    BY <1>2, <1>13
  <2> QED
    BY <1>1, <1>12, <1>14, <1>15, <2>1, UnlinkedKeeps
<1>17. Holds(t, b)
  BY <1>13 DEF Holds
<1>18. Middle(t, b)
  BY <1>13 DEF Middle
<1>19. Iterating(t, b)
  BY <1>8, <1>10, <1>13 DEF Iterating
<1>20. ListOK(t, b)
  BY <1>16, <1>17, <1>18, <1>19 DEF ListOK
<1>21. t = Cleared(l)
  BY <1>4, <1>6, <1>9, <1>11 DEF Cleared
<1> QED
  BY <1>12, <1>20, <1>21

\* ks_list_delete_range takes several out, and leaves some.
LEMMA DeleteRangeKeeps ==
    ASSUME NEW l \in ListRecord, NEW a, ListOK(l, a), ~l.iter.active,
           NEW posstart \in 0..(l.numels - 1), NEW posend \in 0..(l.numels - 1),
           posstart <= posend, posend - posstart + 1 # l.numels
    PROVE  LET r == DeleteRange(l, posstart, posend) IN r \in ListRecord /\ \E b : ListOK(r, b)
<1>1. Spine(l, a) /\ Middle(l, a) /\ Holds(l, a) /\ Spares(l, a) /\ OwnsCopies(l)
  BY DEF ListOK
<1>2. PICK n \in Nat : n = l.numels
  BY DEF ListRecord
<1>3. PICK p \in Nat : p = posstart
  BY <1>2
<1>4. PICK k \in Nat : /\ k = posend - posstart + 1 /\ p + k <= n /\ k < n /\ k >= 1
                       /\ p + k + 1 = posend + 2
  <2>1. posend - posstart + 1 \in Nat
    BY <1>2
  <2> QED
    BY <1>2, <1>3, <2>1
<1>5. /\ \A i \in 0..(n + 1) : a[i] \in Nodes
      /\ \A i \in 1..n : a[i] \in ListEntries
  BY <1>1, <1>2, SpineIs
<1>6. PICK first : first = ListFindPos(l, posstart) /\ first = a[p + 1]
  <2>1. p \in -1..l.numels
    BY <1>2, <1>4
  <2> QED
    BY <1>1, <1>3, <2>1, FindPosIs
<1>7. PICK S : S = [i \in 1..k |-> Follow(l.next, first, i - 1)]
  OBVIOUS
<1>8. DOMAIN S = 1..k /\ S \in Seq(ListEntries) /\ Len(S) = k /\ \A j \in 1..k : S[j] = a[p + j]
  <2>1. ASSUME NEW j \in 1..k PROVE Follow(l.next, first, j - 1) = a[p + j] /\ p + j \in 1..n
    <3>1. /\ p + 1 \in Nat /\ j - 1 \in Nat /\ (p + 1) + (j - 1) <= l.numels + 1
          /\ (p + 1) + (j - 1) = p + j /\ p + j \in 1..n
      BY <1>2, <1>4
    <3>2. Follow(l.next, a[p + 1], j - 1) = a[(p + 1) + (j - 1)]
      BY <1>1, <3>1, FollowNext
    <3> QED
      BY <1>6, <3>1, <3>2
  <2>2. \A j \in 1..k : S[j] = a[p + j] /\ S[j] \in ListEntries
    BY <1>5, <1>7, <2>1
  <2>3. S \in [1..k -> ListEntries]
    BY <1>7, <2>2
  <2>4. S \in Seq(ListEntries)
    BY <2>3, SeqDef
  <2> QED
    BY <2>2, <2>3, <2>4, LenProperties
<1>9. l.prev[first] = a[p] /\ l.next[Last(S)] = a[p + k + 1]
  <2>1. Last(S) = a[p + k]
    BY <1>4, <1>8 DEF Last
  <2>2. p \in 0..n /\ p + k \in 0..n
    BY <1>4
  <2> QED
    BY <1>1, <1>2, <1>6, <2>1, <2>2 DEF Spine
<1>10. a[p] \in Nodes /\ a[p + k + 1] \in Nodes
  <2>1. p \in 0..(n + 1) /\ p + k + 1 \in 0..(n + 1)
    BY <1>4
  <2> QED
    BY <1>5, <2>1
<1>11. PICK b : b = Without(a, n, p, k)
  OBVIOUS
<1>12. PICK h \in Nat : h = MidPos(n) /\ h + 1 \in 1..n
  <2>1. n # 0
    BY <1>4
  <2> QED
    BY <2>1, MidPosIs
<1>13. PICK after \in Nat : /\ after = (n - 1 - k) \div 2 /\ after = MidPos(n - k)
                            /\ after + 1 \in 1..(n - k)
  <2>1. n - k \in Nat /\ n - k # 0 /\ (n - k) - 1 = n - 1 - k
    BY <1>4
  <2> QED
    BY <2>1, MidPosIs DEF MidPos
<1>14. PICK midpos \in Nat : /\ midpos = IF after < p THEN after ELSE after + k
                             /\ midpos + 1 \in 1..n /\ b[after + 1] = a[midpos + 1]
  <2>1. (IF after < p THEN after ELSE after + k) \in Nat
    OBVIOUS
  <2>2. PICK midpos \in Nat : midpos = IF after < p THEN after ELSE after + k
    BY <2>1
  <2>3. midpos + 1 \in 1..n
    BY <1>4, <1>13, <2>2
  <2>4. b[after + 1] = IF after + 1 <= p THEN a[after + 1] ELSE a[after + 1 + k]
    <3>1. after + 1 \in 0..(n - k + 1)
      BY <1>4, <1>13
    <3> QED
      BY <1>11, <3>1 DEF Without
  <2>5. (after < p <=> after + 1 <= p) /\ (after + k) + 1 = after + 1 + k
    BY <1>4
  <2>6. b[after + 1] = a[midpos + 1]
    BY <2>2, <2>4, <2>5
  <2> QED
    BY <2>2, <2>3, <2>6
<1>15. PICK d \in Int : d = midpos - h
  OBVIOUS
<1>16. PICK mid : mid = IF d > 0 THEN Follow(l.next, l.mid, d) ELSE Follow(l.prev, l.mid, -d)
  OBVIOUS
<1>17. mid = a[midpos + 1]
  <2>1. l.mid = a[h + 1]
    <3>1. n # 0
      BY <1>4
    <3> QED
      BY <1>1, <1>2, <1>12, <3>1 DEF Middle
  <2>2. CASE d > 0
    <3>1. h + 1 \in Nat /\ d \in Nat /\ (h + 1) + d = midpos + 1 /\ (h + 1) + d <= l.numels + 1
      BY <1>2, <1>12, <1>14, <1>15, <2>2
    <3>2. Follow(l.next, a[h + 1], d) = a[(h + 1) + d]
      BY <1>1, <3>1, FollowNext
    <3> QED
      BY <1>16, <2>1, <2>2, <3>1, <3>2
  <2>3. CASE ~(d > 0)
    <3>1. /\ h + 1 \in 0..(l.numels + 1) /\ -d \in Nat /\ (h + 1) - (-d) = midpos + 1
          /\ -d <= h + 1
      BY <1>2, <1>12, <1>14, <1>15, <2>3
    <3>2. Follow(l.prev, a[h + 1], -d) = a[(h + 1) - (-d)]
      BY <1>1, <3>1, FollowPrev
    <3> QED
      BY <1>16, <2>1, <2>3, <3>1, <3>2
  <2> QED
    BY <2>2, <2>3
<1>18. PICK w : w = SubSeq(l.want, 1, p) \o SubSeq(l.want, p + k + 1, Len(l.want))
  OBVIOUS
<1>19. w \in Seq(ListData)
  <2>1. l.want \in Seq(ListData) /\ Len(l.want) = n
    BY <1>1, <1>2 DEF ListRecord, Holds
  <2>2. /\ SubSeq(l.want, 1, p) \in Seq(ListData)
        /\ SubSeq(l.want, p + k + 1, Len(l.want)) \in Seq(ListData)
    BY <1>4, <2>1
  <2> QED
    BY <1>18, <2>2
<1>20. PICK c : c = Link(l, a[p], a[p + k + 1])
  OBVIOUS
<1>21. c \in ListRecord /\ Linked(l, c, a[p], a[p + k + 1])
  BY <1>10, <1>20, LinkIs
<1>22. /\ c.next = [l.next EXCEPT ![a[p]] = a[p + k + 1]]
       /\ c.prev = [l.prev EXCEPT ![a[p + k + 1]] = a[p]]
       /\ c.data = l.data /\ c.spare = l.spare /\ c.live = l.live /\ c.copy = l.copy
       /\ c.copies = l.copies /\ c.iter = l.iter /\ c.numels = n /\ c.want = l.want
  BY <1>2, <1>21 DEF ListRecord, Linked
<1>23. PICK q : q = [c EXCEPT !.mid = mid, !.numels = n - k, !.want = w]
  OBVIOUS
<1>24. q \in ListRecord
  <2>1. n - k \in Nat /\ mid \in ListEntries \cup {NullNode}
    BY <1>4, <1>5, <1>14, <1>17
  <2> QED
    BY <1>19, <1>21, <1>23, <2>1 DEF ListRecord
<1>25. /\ q.next = c.next /\ q.prev = c.prev /\ q.data = c.data /\ q.spare = c.spare
       /\ q.live = c.live /\ q.copy = c.copy /\ q.copies = c.copies /\ q.numels = n - k
       /\ q.iter = c.iter /\ q.want = w /\ q.mid = mid
  BY <1>21, <1>23 DEF ListRecord
<1>26. Bridged(l, q, a, p, k)
  BY <1>22, <1>25 DEF Bridged
<1>27. PICK r : r = Release(q, S)
  OBVIOUS
<1>28. r \in ListRecord /\ Unlinked(l, r, a, p, k) /\ SameElse(r, q)
  <2>1. p + k <= l.numels
    BY <1>2, <1>4
  <2>2. Spine(l, a) /\ Spares(l, a) /\ Taken(S, a, p, k)
    BY <1>1, <1>8 DEF Taken
  <2>3. Release(q, S) \in ListRecord /\ Unlinked(l, Release(q, S), a, p, k) /\ SameElse(Release(q, S), q)
    BY <1>24, <1>26, <2>1, <2>2, ReleaseTaken
  <2> QED
    BY <1>27, <2>3
<1>29. r.numels = l.numels - k /\ r.mid = mid /\ r.iter = l.iter /\ r.want = w
  BY <1>2, <1>22, <1>25, <1>28 DEF SameElse
<1>30. Spine(r, b) /\ Spares(r, b) /\ OwnsCopies(r) /\ Holds(r, b)
  <2>1. p + k <= l.numels /\ b = Without(a, l.numels, p, k)
    BY <1>2, <1>4, <1>11
  <2>2. Spine(r, b) /\ Spares(r, b) /\ OwnsCopies(r)
    BY <1>1, <1>28, <1>29, <2>1, UnlinkedKeeps
  <2>3. Holds(r, b)
    BY <1>1, <1>18, <1>28, <1>29, <2>1, UnlinkedHolds
  <2> QED
    BY <2>2, <2>3
<1>31. Middle(r, b)
  <2>1. n - k # 0
    BY <1>4
  <2> QED
    BY <1>2, <1>13, <1>14, <1>17, <1>29, <2>1 DEF Middle
<1>32. Iterating(r, b)
  BY <1>29 DEF Iterating
<1>33. DeleteRange(l, posstart, posend) = r
  <2>1. [c EXCEPT !.mid = mid, !.numels = @ - k,
                  !.want = SubSeq(@, 1, posstart) \o SubSeq(@, posend + 2, Len(@))] = q
    <3>1. c.numels - k = n - k /\ SubSeq(c.want, 1, posstart) \o SubSeq(c.want, posend + 2, Len(c.want)) = w
      BY <1>3, <1>4, <1>18, <1>22
    <3> QED
      BY <1>21, <1>23, <3>1 DEF ListRecord
  <2>2. /\ (l.numels - 1 - k) \div 2 = after /\ (IF after < posstart THEN after ELSE after + k) = midpos
        /\ midpos - MidPos(l.numels) = d
    BY <1>2, <1>3, <1>12, <1>13, <1>14, <1>15
  <2>3. posend - posstart + 1 = k
    BY <1>4
  <2>4. DeleteRange(l, posstart, posend) =
          Release([Link(l, l.prev[first], l.next[Last(S)]) EXCEPT
                     !.mid = mid, !.numels = @ - k,
                     !.want = SubSeq(@, 1, posstart) \o SubSeq(@, posend + 2, Len(@))], S)
    BY <1>6, <1>7, <1>16, <2>2, <2>3, ZenonT(60) DEF DeleteRange
  <2> QED
    BY <1>9, <1>20, <1>27, <2>1, <2>4
<1>34. ListOK(r, b)
  BY <1>30, <1>31, <1>32 DEF ListOK
<1> QED
  BY <1>28, <1>33, <1>34

-----------------------------------------------------------------------------
(* An entry comes in                                                       *)

\* The list with one more behind position p.
With(a, n, p, node) ==
    [i \in 0..(n + 2) |-> IF i <= p THEN a[i] ELSE IF i = p + 1 THEN node ELSE a[i - 1]]

\* node is no entry yet, and no spare one: sp are the spares that are left.
Fresh(l, a, node, sp) ==
    /\ node \in ListEntries /\ \A i \in 0..(l.numels + 1) : a[i] # node
    /\ sp \in Seq(ListEntries) /\ Len(sp) <= MaxSpare
    /\ \A i, j \in 1..Len(sp) : sp[i] = sp[j] => i = j
    /\ \A i \in 1..Len(sp) : sp[i] # node /\ \A j \in 1..l.numels : sp[i] # a[j]
    /\ l.live \cup {node} = {a[i] : i \in 1..l.numels} \cup {sp[i] : i \in 1..Len(sp)} \cup {node}

\* The entry that ks_list_insert_at takes.
NewNode(l) ==
    IF l.spare # <<>> THEN Last(l.spare)
    ELSE CHOOSE n \in ListEntries \ l.live : \A m \in ListEntries \ l.live : n <= m

\* The last spare one, or a new one.
LEMMA NewNodeIs ==
    ASSUME NEW l \in ListRecord, NEW a, Spine(l, a), Spares(l, a),
           l.spare # <<>> \/ Cardinality(l.live) < MaxEls
    PROVE  Fresh(l, a, NewNode(l), IF l.spare # <<>> THEN Front(l.spare) ELSE l.spare)
<1>1. PICK n \in Nat : n = l.numels
  BY DEF ListRecord
<1>2. PICK s \in Seq(ListEntries) : s = l.spare
  BY DEF ListRecord
<1>3. PICK m \in Nat : m = Len(s) /\ m <= MaxSpare
  BY <1>2 DEF Spares
<1>4. /\ \A i, j \in 1..m : s[i] = s[j] => i = j
      /\ \A i \in 1..m, j \in 1..n : s[i] # a[j]
      /\ l.live = {a[i] : i \in 1..n} \cup {s[i] : i \in 1..m}
  BY <1>1, <1>2, <1>3 DEF Spares
<1>5. a[0] = 0 /\ a[n + 1] = MaxEls + 1 /\ MaxEls \in Nat
  BY <1>1, SpineIs, ListConstants
<1>6. ASSUME NEW x \in ListEntries, \A j \in 1..n : a[j] # x PROVE \A i \in 0..(n + 1) : a[i] # x
  <2>1. \A i \in 0..(n + 1) : i = 0 \/ i = n + 1 \/ i \in 1..n
    OBVIOUS
  <2>2. x # 0 /\ x # MaxEls + 1
    BY <1>5 DEF ListEntries
  <2> QED
    BY <1>5, <1>6, <2>1, <2>2
<1>7. CASE s # <<>>
  <2>1. m # 0
    BY <1>3, <1>7, EmptySeq
  <2>2. PICK k \in Nat : k = m - 1 /\ m = k + 1 /\ \A i \in 1..k : i \in 1..m /\ i # m
    BY <2>1
  <2>3. PICK node : node = s[m]
    OBVIOUS
  <2>4. node \in ListEntries
    BY <1>3, <2>1, <2>3
  <2>5. NewNode(l) = node
    BY <1>2, <1>3, <1>7, <2>3 DEF NewNode, Last
  <2>6. PICK sp : sp = Front(s)
    OBVIOUS
  <2>7. sp \in Seq(ListEntries) /\ Len(sp) = k /\ \A i \in 1..k : sp[i] = s[i]
    <3>1. sp = SubSeq(s, 1, k) /\ k <= Len(s)
      BY <1>3, <2>2, <2>6 DEF Front
    <3> QED
      BY <3>1, FrontOf
  <2>8. \A j \in 1..n : a[j] # node
    BY <1>4, <2>1, <2>3
  <2>9. \A i \in 1..k : sp[i] # node /\ \A j \in 1..n : sp[i] # a[j]
    BY <1>4, <2>1, <2>2, <2>3, <2>7
  <2>10. \A i, j \in 1..k : sp[i] = sp[j] => i = j
    BY <1>4, <2>2, <2>7
  <2>11. {s[i] : i \in 1..m} = {sp[i] : i \in 1..k} \cup {node}
    <3>1. \A i \in 1..m : i = m \/ i \in 1..k
      BY <2>2
    <3>2. m \in 1..m
      BY <2>1
    <3> QED
      BY <2>2, <2>3, <2>7, <3>1, <3>2
  <2>12. \A i \in 0..(l.numels + 1) : a[i] # node
    BY <1>1, <1>6, <2>4, <2>8
  <2>13. k <= MaxSpare
    BY <1>3, <2>2, ListConstants
  <2>14. l.live \cup {node} = {a[i] : i \in 1..n} \cup {sp[i] : i \in 1..k} \cup {node}
    BY <1>4, <2>11
  <2>15. Fresh(l, a, node, sp)
    BY <1>1, <2>4, <2>7, <2>9, <2>10, <2>12, <2>13, <2>14 DEF Fresh
  <2> QED
    BY <1>2, <1>7, <2>5, <2>6, <2>15
<1>8. CASE s = <<>>
  <2>1. m = 0 /\ Cardinality(l.live) < MaxEls
    BY <1>2, <1>3, <1>8
  <2>2. PICK F : F = ListEntries \ l.live
    OBVIOUS
  <2>3. F # {}
    <3>1. IsFiniteSet(ListEntries) /\ Cardinality(ListEntries) = MaxEls
      BY ListConstants, FS_Interval DEF ListEntries
    <3>2. l.live \subseteq ListEntries
      BY DEF ListRecord
    <3>3. Cardinality(l.live) \in Nat
      BY FS_CardinalityType, LiveCount
    <3>4. l.live # ListEntries
      BY <1>5, <2>1, <3>1, <3>3
    <3> QED
      BY <2>2, <3>2, <3>4
  <2>4. F \subseteq Nat
    BY <2>2 DEF ListEntries
  <2>5. \E x \in F : \A y \in F : x <= y
    BY <2>3, <2>4, LeastNumber
  <2>6. PICK node \in F : node = NewNode(l)
    <3>1. NewNode(l) = CHOOSE x \in F : \A y \in F : x <= y
      BY <1>2, <1>8, <2>2 DEF NewNode
    <3> QED
      BY <2>5, <3>1
  <2>7. node \in ListEntries /\ node \notin l.live
    BY <2>2
  <2>8. \A j \in 1..n : a[j] # node
    BY <1>4, <2>7
  <2>9. \A i \in 0..(l.numels + 1) : a[i] # node
    BY <1>1, <1>6, <2>7, <2>8
  <2>10. Len(s) = 0 /\ Len(s) <= MaxSpare /\ \A i \in 1..Len(s) : FALSE
    BY <1>3, <2>1
  <2>11. l.live \cup {node} = {a[i] : i \in 1..n} \cup {s[i] : i \in 1..Len(s)} \cup {node}
    BY <1>3, <1>4
  <2>12. Fresh(l, a, node, s)
    BY <1>1, <2>7, <2>9, <2>10, <2>11 DEF Fresh
  <2> QED
    BY <1>2, <1>8, <2>6, <2>12
<1> QED
  BY <1>7, <1>8

\* u is s and t, one behind the other.
Behind(u, s, t) == u = s \o t

\* Item by item.
LEMMA BehindIs ==
    ASSUME NEW D, NEW s \in Seq(D), NEW t \in Seq(D), NEW u, Behind(u, s, t)
    PROVE  /\ u \in Seq(D) /\ Len(u) = Len(s) + Len(t)
           /\ \A x \in 1..Len(s) : u[x] = s[x]
           /\ \A x \in 1..Len(t) : u[Len(s) + x] = t[x]
<1>1. PICK m \in Nat : m = Len(s)
  OBVIOUS
<1>2. PICK k \in Nat : k = Len(t)
  OBVIOUS
<1> QED
  BY <1>1, <1>2, Joined DEF Behind

\* u is w with v behind the first p items.
Inserted(u, w, p, v) == u = SubSeq(w, 1, p) \o <<v>> \o SubSeq(w, p + 1, Len(w))

\* Item by item.
OneMore(u, w, n, p, v) ==
    /\ u \in Seq(ListData) /\ Len(u) = n + 1 /\ \A i \in 1..p : u[i] = w[i]
    /\ u[p + 1] = v /\ \A i \in 1..(n - p) : u[p + 1 + i] = w[p + i]

\* The data with one more.
LEMMA InsertedIs ==
    ASSUME NEW w \in Seq(ListData), NEW n \in Nat, n = Len(w), NEW p \in Nat, p <= n,
           NEW v \in ListData, NEW u, Inserted(u, w, p, v)
    PROVE  OneMore(u, w, n, p, v)
<1>1. PICK s1, s2 : s1 = SubSeq(w, 1, p) /\ s2 = SubSeq(w, p + 1, Len(w))
  OBVIOUS
<1>2. s1 \in Seq(ListData) /\ Len(s1) = p /\ \A i \in 1..p : s1[i] = w[i]
  BY <1>1, FrontOf
<1>3. s2 \in Seq(ListData) /\ Len(s2) = n - p /\ \A i \in 1..(n - p) : s2[i] = w[p + i]
  <2>1. /\ p + 1 \in Nat \ {0} /\ p + 1 <= n + 1 /\ n <= Len(w) /\ n - (p + 1) + 1 = n - p
        /\ (p + 1) - 1 = p
    OBVIOUS
  <2>2. /\ s2 \in Seq(ListData) /\ Len(s2) = n - (p + 1) + 1
        /\ \A i \in 1..(n - (p + 1) + 1) : s2[i] = w[((p + 1) - 1) + i]
    BY <1>1, <2>1, PartOf
  <2> QED
    BY <2>1, <2>2
<1>4. PICK one : one = <<v>>
  OBVIOUS
<1>5. one \in Seq(ListData) /\ Len(one) = 1 /\ one[1] = v
  BY <1>4
<1>7. PICK s3 : Behind(s3, s1, one)
  BY DEF Behind
<1>8. /\ s3 \in Seq(ListData) /\ Len(s3) = p + 1 /\ \A i \in 1..p : s3[i] = s1[i]
      /\ \A i \in 1..1 : s3[p + i] = one[i]
  <2>1. /\ s3 \in Seq(ListData) /\ Len(s3) = Len(s1) + Len(one)
        /\ \A x \in 1..Len(s1) : s3[x] = s1[x]
        /\ \A x \in 1..Len(one) : s3[Len(s1) + x] = one[x]
    <3>1. s1 \in Seq(ListData) /\ one \in Seq(ListData)
      BY <1>2, <1>5
    <3> QED
      BY <1>7, <3>1, BehindIs
  <2> QED
    BY <1>2, <1>5, <2>1
<1>9. Behind(u, s3, s2)
  BY <1>1, <1>4, <1>7 DEF Inserted, Behind
<1>10. /\ u \in Seq(ListData) /\ Len(u) = (p + 1) + (n - p) /\ \A i \in 1..(p + 1) : u[i] = s3[i]
       /\ \A i \in 1..(n - p) : u[(p + 1) + i] = s2[i]
  <2>1. /\ u \in Seq(ListData) /\ Len(u) = Len(s3) + Len(s2)
        /\ \A x \in 1..Len(s3) : u[x] = s3[x]
        /\ \A x \in 1..Len(s2) : u[Len(s3) + x] = s2[x]
    <3>1. s3 \in Seq(ListData) /\ s2 \in Seq(ListData)
      BY <1>3, <1>8
    <3> QED
      BY <1>9, <3>1, BehindIs
  <2> QED
    BY <1>3, <1>8, <2>1
<1>11. /\ (p + 1) + (n - p) = n + 1 /\ 1 \in 1..1 /\ p + 1 \in 1..(p + 1)
       /\ \A i \in 1..p : i \in 1..(p + 1)
  OBVIOUS
<1>12. u[p + 1] = v
  BY <1>5, <1>8, <1>10, <1>11
<1>13. u \in Seq(ListData) /\ Len(u) = n + 1 /\ \A i \in 1..p : u[i] = w[i]
  BY <1>2, <1>8, <1>10, <1>11
<1>14. \A i \in 1..(n - p) : u[p + 1 + i] = w[p + i]
  BY <1>3, <1>10
<1> QED
  BY <1>12, <1>13, <1>14 DEF OneMore

\* r is l with node linked in behind position p.
LinkedIn(l, r, a, p, node, sp, v) ==
    /\ \A x \in Nodes : /\ r.next[x] = IF x = node THEN a[p + 1] ELSE IF x = a[p] THEN node ELSE l.next[x]
                        /\ r.prev[x] = IF x = a[p + 1] THEN node ELSE IF x = node THEN a[p] ELSE l.prev[x]
                        /\ r.data[x] = IF x = node THEN v ELSE l.data[x]
    /\ r.numels = l.numels + 1 /\ r.live = l.live \cup {node} /\ r.spare = sp
    /\ r.copy = l.copy /\ r.copies = IF l.copy THEN l.copies + 1 ELSE l.copies
    /\ Inserted(r.want, l.want, p, v)

\* Then r is a list with one more.
LEMMA LinkedInKeeps ==
    ASSUME NEW l \in ListRecord, NEW a, Spine(l, a), Holds(l, a), OwnsCopies(l),
           NEW p \in 0..l.numels, NEW v \in ListData, NEW node, NEW sp, Fresh(l, a, node, sp),
           NEW r \in ListRecord, LinkedIn(l, r, a, p, node, sp, v)
    PROVE  LET b == With(a, l.numels, p, node) IN
           Spine(r, b) /\ Holds(r, b) /\ Spares(r, b) /\ OwnsCopies(r)
<1>1. PICK n \in Nat : n = l.numels /\ p \in Nat /\ p <= n /\ r.numels = n + 1
  BY DEF ListRecord, LinkedIn
<1>2. PICK b : b = With(a, n, p, node)
  OBVIOUS
<1>3. /\ \A i \in 0..(n + 2) : i <= p => b[i] = a[i]
      /\ b[p + 1] = node
      /\ \A i \in 0..(n + 2) : i > p + 1 => b[i] = a[i - 1]
  <2>1. p + 1 \in 0..(n + 2) /\ ~(p + 1 <= p)
    BY <1>1
  <2>2. \A i \in 0..(n + 2) : i > p + 1 => ~(i <= p) /\ i # p + 1
    BY <1>1
  <2> QED
    BY <1>2, <2>1, <2>2 DEF With
<1>4. /\ \A i \in 0..(n + 1) : a[i] \in Nodes
      /\ \A i \in 1..n : a[i] \in ListEntries
  BY <1>1, SpineIs
<1>5. \A i, j \in 0..(n + 1) : a[i] = a[j] => i = j
  BY <1>1 DEF Spine
<1>6. /\ node \in ListEntries /\ node \in Nodes /\ \A i \in 0..(n + 1) : a[i] # node
  <2>1. ListEntries \subseteq Nodes
    BY ListConstants DEF ListEntries, Nodes
  <2> QED
    BY <1>1, <2>1 DEF Fresh
<1>7. ASSUME NEW i \in 0..(n + 2)
      PROVE  \/ i <= p /\ b[i] = a[i] /\ i \in 0..(n + 1)
             \/ i = p + 1 /\ b[i] = node
             \/ i > p + 1 /\ b[i] = a[i - 1] /\ i - 1 \in 0..(n + 1)
  <2>1. CASE i <= p
    BY <1>1, <1>3, <2>1
  <2>2. CASE i = p + 1
    BY <1>3, <2>2
  <2>3. CASE i > p + 1
    BY <1>1, <1>3, <2>3
  <2> QED
    BY <1>1, <2>1, <2>2, <2>3
<1>8. ASSUME NEW i \in 0..(n + 2) PROVE b[i] \in Nodes
  BY <1>4, <1>6, <1>7
<1>9. ASSUME NEW i \in 0..(n + 2), NEW j \in 0..(n + 2), b[i] = b[j] PROVE i = j
  <2>1. \/ i <= p /\ b[i] = a[i] /\ i \in 0..(n + 1)
        \/ i = p + 1 /\ b[i] = node
        \/ i > p + 1 /\ b[i] = a[i - 1] /\ i - 1 \in 0..(n + 1)
    BY <1>7
  <2>2. \/ j <= p /\ b[j] = a[j] /\ j \in 0..(n + 1)
        \/ j = p + 1 /\ b[j] = node
        \/ j > p + 1 /\ b[j] = a[j - 1] /\ j - 1 \in 0..(n + 1)
    BY <1>7
  <2>3. CASE i = p + 1 /\ b[i] = node
    BY <1>6, <1>9, <2>2, <2>3
  <2>4. CASE j = p + 1 /\ b[j] = node
    BY <1>6, <1>9, <2>1, <2>4
  <2>5. CASE i <= p /\ b[i] = a[i] /\ i \in 0..(n + 1)
    <3>1. CASE j <= p /\ b[j] = a[j] /\ j \in 0..(n + 1)
      BY <1>5, <1>9, <2>5, <3>1
    <3>2. CASE j > p + 1 /\ b[j] = a[j - 1] /\ j - 1 \in 0..(n + 1)
      <4>1. i = j - 1
        BY <1>5, <1>9, <2>5, <3>2
      <4> QED
        BY <1>1, <2>5, <3>2, <4>1
    <3> QED
      BY <2>2, <2>4, <3>1, <3>2
  <2>6. CASE i > p + 1 /\ b[i] = a[i - 1] /\ i - 1 \in 0..(n + 1)
    <3>1. CASE j <= p /\ b[j] = a[j] /\ j \in 0..(n + 1)
      <4>1. i - 1 = j
        BY <1>5, <1>9, <2>6, <3>1
      <4> QED
        BY <1>1, <2>6, <3>1, <4>1
    <3>2. CASE j > p + 1 /\ b[j] = a[j - 1] /\ j - 1 \in 0..(n + 1)
      <4>1. i - 1 = j - 1
        BY <1>5, <1>9, <2>6, <3>2
      <4> QED
        BY <4>1
    <3> QED
      BY <2>2, <2>4, <3>1, <3>2
  <2> QED
    BY <2>1, <2>3, <2>5, <2>6
<1>10. ASSUME NEW x \in Nodes
       PROVE  /\ r.next[x] = IF x = node THEN a[p + 1] ELSE IF x = a[p] THEN node ELSE l.next[x]
              /\ r.prev[x] = IF x = a[p + 1] THEN node ELSE IF x = node THEN a[p] ELSE l.prev[x]
              /\ r.data[x] = IF x = node THEN v ELSE l.data[x]
  BY DEF LinkedIn
<1>11. ASSUME NEW i \in 0..(n + 1) PROVE r.next[b[i]] = b[i + 1] /\ r.prev[b[i + 1]] = b[i]
  <2>1. i \in 0..(n + 2) /\ i + 1 \in 0..(n + 2) /\ p \in 0..(n + 1) /\ p + 1 \in 0..(n + 1)
    BY <1>1
  <2>2. b[i] \in Nodes /\ b[i + 1] \in Nodes
    BY <1>8, <2>1
  <2>3. /\ r.next[b[i]] = IF b[i] = node THEN a[p + 1] ELSE IF b[i] = a[p] THEN node ELSE l.next[b[i]]
        /\ r.prev[b[i + 1]] = IF b[i + 1] = a[p + 1] THEN node
                              ELSE IF b[i + 1] = node THEN a[p] ELSE l.prev[b[i + 1]]
    BY <1>10, <2>2
  <2>4. CASE i = p
    <3>1. b[i] = a[p] /\ b[i + 1] = node /\ a[p] # node /\ a[p + 1] # node
      BY <1>1, <1>3, <1>6, <2>1, <2>4
    <3> QED
      BY <2>3, <3>1
  <2>5. CASE i = p + 1
    <3>1. (p + 1) + 1 > p + 1 /\ ((p + 1) + 1) - 1 = p + 1
      BY <1>1
    <3>2. b[i] = node /\ b[i + 1] = a[p + 1]
      BY <1>3, <2>1, <2>5, <3>1
    <3> QED
      BY <2>3, <3>2
  <2>6. CASE i # p /\ i # p + 1
    <3>1. PICK d \in 0..n : b[i] = a[d] /\ b[i + 1] = a[d + 1] /\ d # p /\ d + 1 # p + 1
      <4>1. CASE i < p
        <5>1. i \in 0..n /\ i <= p /\ i + 1 <= p /\ i + 1 # p + 1
          BY <1>1, <4>1
        <5> QED
          BY <1>3, <2>1, <2>6, <5>1
      <4>2. CASE i > p + 1
        <5>1. i - 1 \in 0..n /\ i + 1 > p + 1 /\ (i + 1) - 1 = (i - 1) + 1 /\ i - 1 # p /\ (i - 1) + 1 # p + 1
          BY <1>1, <4>2
        <5>2. b[i] = a[i - 1] /\ b[i + 1] = a[(i + 1) - 1]
          BY <1>3, <2>1, <4>2, <5>1
        <5> QED
          BY <5>1, <5>2
      <4>3. i < p \/ i > p + 1
        BY <1>1, <2>6
      <4> QED
        BY <4>1, <4>2, <4>3
    <3>2. d \in 0..(n + 1) /\ d + 1 \in 0..(n + 1)
      OBVIOUS
    <3>3. a[d] # a[p] /\ a[d + 1] # a[p + 1] /\ a[d] # node /\ a[d + 1] # node
      BY <1>5, <1>6, <2>1, <3>1, <3>2
    <3>4. l.next[a[d]] = a[d + 1] /\ l.prev[a[d + 1]] = a[d]
      BY <1>1 DEF Spine
    <3> QED
      BY <2>3, <3>1, <3>3, <3>4
  <2> QED
    BY <2>4, <2>5, <2>6
<1>12. b[0] = HeadNode /\ b[n + 2] = TailNode
  <2>1. /\ 0 \in 0..(n + 2) /\ 0 <= p /\ n + 2 \in 0..(n + 2) /\ n + 2 > p + 1
        /\ (n + 2) - 1 = n + 1
    BY <1>1
  <2>2. b[0] = a[0] /\ b[n + 2] = a[n + 1]
    BY <1>3, <2>1
  <2> QED
    BY <1>1, <2>2 DEF Spine
<1>13. Spine(r, b)
  <2>1. b \in [0..(n + 2) -> Nodes]
    BY <1>2, <1>8 DEF With
  <2>2. (n + 1) + 1 = n + 2
    OBVIOUS
  <2> QED
    BY <1>1, <1>9, <1>11, <1>12, <2>1, <2>2, SMTT(40) DEF Spine
<1>14. ASSUME NEW i \in 1..(n + 1)
       PROVE  \/ i \in 1..p /\ i \in 1..n /\ b[i] = a[i]
              \/ i = p + 1 /\ b[i] = node
              \/ i > p + 1 /\ i - 1 \in 1..n /\ b[i] = a[i - 1]
  <2>1. i \in 0..(n + 2)
    OBVIOUS
  <2>2. \/ i <= p /\ b[i] = a[i] /\ i \in 0..(n + 1)
        \/ i = p + 1 /\ b[i] = node
        \/ i > p + 1 /\ b[i] = a[i - 1] /\ i - 1 \in 0..(n + 1)
    BY <1>7, <2>1
  <2>3. i <= p => i \in 1..p /\ i \in 1..n
    BY <1>1
  <2>4. i > p + 1 => i - 1 \in 1..n
    BY <1>1
  <2> QED
    BY <2>2, <2>3, <2>4
<1>15. {b[i] : i \in 1..(n + 1)} = {a[i] : i \in 1..n} \cup {node}
  <2>1. ASSUME NEW i \in 1..(n + 1) PROVE b[i] \in {a[j] : j \in 1..n} \cup {node}
    BY <1>14
  <2>2. ASSUME NEW j \in 1..n PROVE a[j] \in {b[i] : i \in 1..(n + 1)}
    <3>1. CASE j <= p
      <4>1. j \in 1..(n + 1) /\ j \in 0..(n + 2)
        OBVIOUS
      <4> QED
        BY <1>3, <3>1, <4>1
    <3>2. CASE j > p
      <4>1. j + 1 \in 1..(n + 1) /\ j + 1 \in 0..(n + 2) /\ j + 1 > p + 1 /\ (j + 1) - 1 = j
        BY <1>1, <3>2
      <4>2. b[j + 1] = a[j]
        BY <1>3, <4>1
      <4> QED
        BY <4>1, <4>2
    <3> QED
      BY <1>1, <3>1, <3>2
  <2>3. node \in {b[i] : i \in 1..(n + 1)}
    <3>1. p + 1 \in 1..(n + 1)
      BY <1>1
    <3> QED
      BY <1>3, <3>1
  <2> QED
    BY <2>1, <2>2, <2>3
<1>16. Spares(r, b)
  <2>1. r.spare = sp /\ r.live = l.live \cup {node}
    BY DEF LinkedIn
  <2>2. /\ Len(sp) <= MaxSpare /\ \A i, j \in 1..Len(sp) : sp[i] = sp[j] => i = j
        /\ \A i \in 1..Len(sp) : sp[i] # node /\ \A j \in 1..n : sp[i] # a[j]
        /\ l.live \cup {node} = {a[i] : i \in 1..n} \cup {sp[i] : i \in 1..Len(sp)} \cup {node}
    BY <1>1 DEF Fresh
  <2>3. \A i \in 1..Len(sp), j \in 1..(n + 1) : sp[i] # b[j]
    BY <1>14, <2>2
  <2>4. r.live = {b[i] : i \in 1..(n + 1)} \cup {sp[i] : i \in 1..Len(sp)}
    BY <1>15, <2>1, <2>2
  <2> QED
    <3>1. /\ Len(r.spare) <= MaxSpare /\ \A i, j \in 1..Len(r.spare) : r.spare[i] = r.spare[j] => i = j
      BY <2>1, <2>2
    <3>2. \A i \in 1..Len(r.spare), j \in 1..r.numels : r.spare[i] # b[j]
      BY <1>1, <2>1, <2>3
    <3>3. r.live = {b[i] : i \in 1..r.numels} \cup {r.spare[i] : i \in 1..Len(r.spare)}
      BY <1>1, <2>1, <2>4
    <3> QED
      BY <3>1, <3>2, <3>3, Zenon DEF Spares
<1>17. OwnsCopies(r)
  <2>1. l.copies \in Int /\ l.copy \in BOOLEAN
    BY DEF ListRecord
  <2>2. r.copy = l.copy /\ r.copies = IF l.copy THEN l.copies + 1 ELSE l.copies
    BY DEF LinkedIn
  <2> QED
    BY <1>1, <2>1, <2>2 DEF OwnsCopies
<1>18. PICK w \in Seq(ListData) : w = l.want /\ Len(w) = n
  BY <1>1 DEF ListRecord, Holds
<1>19. PICK u : u = r.want
  OBVIOUS
<1>20. /\ Len(u) = n + 1 /\ \A i \in 1..p : u[i] = w[i]
       /\ u[p + 1] = v /\ \A i \in 1..(n - p) : u[p + 1 + i] = w[p + i]
  <2>1. Inserted(u, w, p, v)
    BY <1>18, <1>19 DEF LinkedIn
  <2>2. n = Len(w) /\ p \in Nat /\ p <= n
    BY <1>1, <1>18
  <2>3. OneMore(u, w, n, p, v)
    BY <2>1, <2>2, InsertedIs
  <2> QED
    BY <2>3 DEF OneMore
<1>21. ASSUME NEW i \in 1..(n + 1) PROVE r.data[b[i]] = u[i]
  <2>1. b[i] \in Nodes
    <3>1. i \in 0..(n + 2)
      OBVIOUS
    <3> QED
      BY <1>8, <3>1
  <2>2. r.data[b[i]] = IF b[i] = node THEN v ELSE l.data[b[i]]
    BY <1>10, <2>1
  <2>3. \A j \in 1..n : l.data[a[j]] = w[j] /\ a[j] # node
    <3>1. \A j \in 1..n : j \in 0..(n + 1)
      OBVIOUS
    <3> QED
      BY <1>1, <1>6, <1>18, <3>1 DEF Holds
  <2>4. CASE i \in 1..p /\ i \in 1..n /\ b[i] = a[i]
    BY <1>20, <2>2, <2>3, <2>4
  <2>5. CASE i = p + 1 /\ b[i] = node
    BY <1>20, <2>2, <2>5
  <2>6. CASE i > p + 1 /\ i - 1 \in 1..n /\ b[i] = a[i - 1]
    <3>1. i - (p + 1) \in 1..(n - p) /\ p + 1 + (i - (p + 1)) = i /\ p + (i - (p + 1)) = i - 1
      BY <1>1, <2>6
    <3>2. u[p + 1 + (i - (p + 1))] = w[p + (i - (p + 1))]
      BY <1>20, <3>1
    <3>3. u[i] = w[i - 1]
      BY <3>1, <3>2
    <3> QED
      BY <2>2, <2>3, <2>6, <3>3
  <2> QED
    BY <1>14, <2>4, <2>5, <2>6
<1>22. Holds(r, b)
  BY <1>1, <1>19, <1>20, <1>21 DEF Holds
<1> QED
  BY <1>1, <1>2, <1>13, <1>16, <1>17, <1>22

\* One entry more: the middle moves when the entries were even in number.
LEMMA NextMiddle ==
    ASSUME NEW n \in Nat, NEW h \in Nat
    PROVE  /\ n = 2 * h + 1 =>
              /\ (n + 1) % 2 # 1 /\ MidPos(n + 1) = h /\ n + 1 # 1 /\ h + 1 \in 0..(n + 1)
              /\ h + 1 \in 0..(n + 2) /\ h + 2 \in 0..(n + 2) /\ (h + 2) - 1 = h + 1 /\ (h + 1) + 1 = h + 2
           /\ n = 2 * h + 2 =>
              /\ (n + 1) % 2 = 1 /\ MidPos(n + 1) = h + 1 /\ n + 1 # 1 /\ h + 1 \in 0..(n + 1)
              /\ h + 1 \in 0..(n + 2) /\ h + 2 \in 0..(n + 2) /\ (h + 2) - 1 = h + 1 /\ (h + 1) + 1 = h + 2
<1>1. ASSUME n = 2 * h + 1 PROVE (n + 1) % 2 # 1 /\ MidPos(n + 1) = h
  <2>1. n + 1 = 2 * (h + 1) /\ (n + 1) - 1 = 2 * h + 1
    BY <1>1
  <2>2. (2 * (h + 1)) % 2 # 1 /\ (2 * h + 1) \div 2 = h
    OBVIOUS
  <2> QED
    BY <2>1, <2>2 DEF MidPos
<1>2. ASSUME n = 2 * h + 2 PROVE (n + 1) % 2 = 1 /\ MidPos(n + 1) = h + 1
  <2>1. n + 1 = 2 * (h + 1) + 1 /\ (n + 1) - 1 = 2 * (h + 1)
    BY <1>2
  <2>2. (2 * (h + 1) + 1) % 2 = 1 /\ (2 * (h + 1)) \div 2 = h + 1
    OBVIOUS
  <2> QED
    BY <2>1, <2>2 DEF MidPos
<1>3. n \in {2 * h + 1, 2 * h + 2} =>
        /\ n + 1 # 1 /\ h + 1 \in 0..(n + 1) /\ h + 1 \in 0..(n + 2) /\ h + 2 \in 0..(n + 2)
        /\ (h + 2) - 1 = h + 1 /\ (h + 1) + 1 = h + 2
  OBVIOUS
<1> QED
  BY <1>1, <1>2, <1>3

\* ks_list_insert_at puts it in, and moves the middle.
LEMMA LinkInKeeps ==
    ASSUME NEW l \in ListRecord, NEW a, ListOK(l, a), ~l.iter.active,
           NEW v \in ListData, NEW pos \in 0..l.numels,
           l.spare # <<>> \/ Cardinality(l.live) < MaxEls
    PROVE  LinkIn(l, v, pos) \in ListRecord /\ \E b : ListOK(LinkIn(l, v, pos), b)
<1>1. Spine(l, a) /\ Middle(l, a) /\ Holds(l, a) /\ Spares(l, a) /\ OwnsCopies(l)
  BY DEF ListOK
<1>2. PICK n \in Nat : n = l.numels /\ pos \in Nat /\ pos <= n
  BY DEF ListRecord
<1>3. PICK node : node = NewNode(l)
  OBVIOUS
<1>4. PICK sp : sp = IF l.spare # <<>> THEN Front(l.spare) ELSE l.spare
  OBVIOUS
<1>5. Fresh(l, a, node, sp)
  BY <1>1, <1>3, <1>4, NewNodeIs
<1>6. /\ node \in ListEntries /\ node \in Nodes /\ sp \in Seq(ListEntries)
      /\ \A i \in 0..(n + 1) : a[i] # node /\ a[i] \in Nodes
  <2>1. ListEntries \subseteq Nodes
    BY ListConstants DEF ListEntries, Nodes
  <2>2. \A i \in 0..(n + 1) : a[i] \in Nodes
    BY <1>1, <1>2, SpineIs
  <2> QED
    BY <1>2, <1>5, <2>1, <2>2 DEF Fresh
<1>7. pos \in 0..(n + 1) /\ pos + 1 \in 0..(n + 1) /\ pos \in 0..n
  BY <1>2
<1>8. ListFindPos(l, pos - 1) = a[pos] /\ l.next[a[pos]] = a[pos + 1]
  <2>1. pos - 1 \in -1..l.numels /\ (pos - 1) + 1 = pos
    BY <1>2
  <2>2. ListFindPos(l, pos - 1) = a[(pos - 1) + 1]
    BY <1>1, <2>1, FindPosIs
  <2> QED
    BY <1>1, <1>2, <1>7, <2>1, <2>2 DEF Spine
<1>9. PICK x \in Nodes : x = a[pos] /\ x # node
  BY <1>6, <1>7
<1>10. PICK y \in Nodes : y = a[pos + 1] /\ y # node
  BY <1>6, <1>7
<1>11. PICK c : c = Link(l, x, node)
  OBVIOUS
<1>12. c \in ListRecord /\ Linked(l, c, x, node)
  BY <1>6, <1>11, LinkIs
<1>13. /\ c.next = [l.next EXCEPT ![x] = node] /\ c.prev = [l.prev EXCEPT ![node] = x]
       /\ c.data = l.data /\ c.spare = l.spare /\ c.live = l.live /\ c.copy = l.copy
       /\ c.copies = l.copies /\ c.iter = l.iter /\ c.numels = l.numels /\ c.want = l.want
       /\ c.mid = l.mid
  BY <1>12 DEF ListRecord, Linked
<1>14. PICK e : e = Link(c, node, y)
  OBVIOUS
<1>15. e \in ListRecord /\ Linked(c, e, node, y)
  BY <1>6, <1>12, <1>14, LinkIs
<1>16. /\ e.next = [c.next EXCEPT ![node] = y] /\ e.prev = [c.prev EXCEPT ![y] = node]
       /\ e.data = l.data /\ e.spare = l.spare /\ e.live = l.live /\ e.copy = l.copy
       /\ e.copies = l.copies /\ e.iter = l.iter /\ e.numels = l.numels /\ e.want = l.want
       /\ e.mid = l.mid
  BY <1>12, <1>13, <1>15 DEF ListRecord, Linked
<1>17. PICK w : w = InsertAt(l.want, pos + 1, v)
  OBVIOUS
<1>18. Inserted(w, l.want, pos, v) /\ w \in Seq(ListData)
  <2>1. (pos + 1) - 1 = pos
    BY <1>2
  <2>2. Inserted(w, l.want, pos, v)
    BY <1>17, <2>1 DEF InsertAt, Inserted
  <2>3. l.want \in Seq(ListData) /\ n = Len(l.want)
    BY <1>1, <1>2 DEF ListRecord, Holds
  <2>4. OneMore(w, l.want, n, pos, v)
    BY <1>2, <2>2, <2>3, InsertedIs
  <2> QED
    BY <2>2, <2>4 DEF OneMore
<1>19. PICK fd, lv, cp : /\ fd = [l.data EXCEPT ![node] = v] /\ lv = l.live \cup {node}
                         /\ cp = IF l.copy THEN l.copies + 1 ELSE l.copies
  OBVIOUS
<1>20. /\ fd \in [Nodes -> ListData \cup {0}] /\ lv \in SUBSET ListEntries /\ cp \in Int
  <2>1. l.data \in [Nodes -> ListData \cup {0}] /\ l.live \in SUBSET ListEntries /\ l.copies \in Int
    BY DEF ListRecord
  <2> QED
    BY <1>6, <1>19, <2>1
<1>21. PICK in : in = [e EXCEPT !.data = fd, !.numels = n + 1, !.live = lv, !.spare = sp,
                                !.copies = cp, !.want = w]
  OBVIOUS
<1>22. in \in ListRecord
  BY <1>6, <1>15, <1>18, <1>20, <1>21, n + 1 \in Nat DEF ListRecord
<1>23. /\ in.next = e.next /\ in.prev = e.prev /\ in.data = fd /\ in.numels = n + 1 /\ in.live = lv
       /\ in.spare = sp /\ in.copies = cp /\ in.copy = l.copy /\ in.want = w /\ in.mid = l.mid
       /\ in.iter = l.iter
  BY <1>15, <1>16, <1>21 DEF ListRecord
<1>24. LinkedIn(l, in, a, pos, node, sp, v)
  <2>1. ASSUME NEW z \in Nodes
        PROVE  /\ in.next[z] = IF z = node THEN a[pos + 1] ELSE IF z = a[pos] THEN node ELSE l.next[z]
               /\ in.prev[z] = IF z = a[pos + 1] THEN node ELSE IF z = node THEN a[pos] ELSE l.prev[z]
               /\ in.data[z] = IF z = node THEN v ELSE l.data[z]
    <3>1. DOMAIN l.next = Nodes /\ DOMAIN l.prev = Nodes /\ DOMAIN l.data = Nodes
      BY DEF ListRecord
    <3>2. /\ in.next = [[l.next EXCEPT ![x] = node] EXCEPT ![node] = y]
          /\ in.prev = [[l.prev EXCEPT ![node] = x] EXCEPT ![y] = node]
          /\ in.data = [l.data EXCEPT ![node] = v]
      BY <1>13, <1>16, <1>19, <1>23
    <3> QED
      BY <1>6, <1>9, <1>10, <3>1, <3>2
  <2> QED
    BY <1>2, <1>18, <1>19, <1>23, <2>1 DEF LinkedIn
<1>25. PICK b : b = With(a, l.numels, pos, node)
  OBVIOUS
<1>26. Spine(in, b) /\ Holds(in, b) /\ Spares(in, b) /\ OwnsCopies(in)
  BY <1>1, <1>5, <1>22, <1>24, <1>25, LinkedInKeeps
<1>27. ASSUME NEW i \in 0..(n + 2)
       PROVE  b[i] = IF i <= pos THEN a[i] ELSE IF i = pos + 1 THEN node ELSE a[i - 1]
  BY <1>2, <1>25 DEF With
<1>28. PICK mid : mid = IF n + 1 = 1 THEN node
            ELSE IF (n + 1) % 2 = 1 THEN (IF pos >= MidPos(n + 1) THEN in.next[in.mid] ELSE in.mid)
            ELSE (IF pos <= MidPos(n + 1) THEN in.prev[in.mid] ELSE in.mid)
  OBVIOUS
<1>29. mid = b[MidPos(n + 1) + 1]
  <2>1. \A i \in 0..(n + 1) : in.next[b[i]] = b[i + 1] /\ in.prev[b[i + 1]] = b[i]
    BY <1>23, <1>26 DEF Spine
  <2>2. CASE n = 0
    <3>1. MidPos(n + 1) = 0 /\ n + 1 = 1 /\ pos = 0 /\ 1 \in 0..(n + 2)
      BY <1>2, <2>2 DEF MidPos
    <3>2. b[0 + 1] = node
      BY <1>27, <3>1
    <3> QED
      BY <1>28, <3>1, <3>2
  <2>3. CASE n # 0
    <3>1. PICK h \in Nat : h = MidPos(n) /\ h + 1 \in 1..n /\ 2 * h <= n - 1 /\ n - 1 <= 2 * h + 1
      BY <2>3, MidPosIs
    <3>2. in.mid = a[h + 1]
      BY <1>1, <1>2, <1>23, <2>3, <3>1 DEF Middle
    <3>3. CASE n = 2 * h + 1
      <4>1. /\ (n + 1) % 2 # 1 /\ MidPos(n + 1) = h /\ n + 1 # 1 /\ h + 1 \in 0..(n + 1)
            /\ h + 1 \in 0..(n + 2) /\ h + 2 \in 0..(n + 2) /\ (h + 2) - 1 = h + 1 /\ (h + 1) + 1 = h + 2
        BY <1>2, <3>1, <3>3, NextMiddle, ZenonT(60)
      <4>2. CASE pos <= h
        <5>1. b[h + 2] = a[h + 1]
          <6>1. ~(h + 2 <= pos) /\ h + 2 # pos + 1
            BY <1>2, <4>2
          <6> QED
            BY <1>27, <4>1, <6>1
        <5>2. in.prev[b[h + 2]] = b[h + 1]
          BY <2>1, <4>1
        <5> QED
          BY <1>28, <3>2, <4>1, <4>2, <5>1, <5>2
      <4>3. CASE ~(pos <= h)
        <5>1. b[h + 1] = a[h + 1]
          <6>1. h + 1 <= pos
            BY <1>2, <4>3
          <6> QED
            BY <1>27, <4>1, <6>1
        <5> QED
          BY <1>28, <3>2, <4>1, <4>3, <5>1
      <4> QED
        BY <4>2, <4>3
    <3>4. CASE n = 2 * h + 2
      <4>1. /\ (n + 1) % 2 = 1 /\ MidPos(n + 1) = h + 1 /\ n + 1 # 1 /\ h + 1 \in 0..(n + 1)
            /\ h + 1 \in 0..(n + 2) /\ h + 2 \in 0..(n + 2) /\ (h + 2) - 1 = h + 1 /\ (h + 1) + 1 = h + 2
        BY <1>2, <3>1, <3>4, NextMiddle, ZenonT(60)
      <4>2. CASE pos >= h + 1
        <5>1. b[h + 1] = a[h + 1]
          <6>1. h + 1 <= pos
            BY <1>2, <4>2
          <6> QED
            BY <1>27, <4>1, <6>1
        <5>2. in.next[b[h + 1]] = b[h + 2]
          BY <2>1, <4>1
        <5> QED
          BY <1>28, <3>2, <4>1, <4>2, <5>1, <5>2
      <4>3. CASE ~(pos >= h + 1)
        <5>1. b[h + 2] = a[h + 1]
          <6>1. ~(h + 2 <= pos) /\ h + 2 # pos + 1
            BY <1>2, <4>3
          <6> QED
            BY <1>27, <4>1, <6>1
        <5> QED
          BY <1>28, <3>2, <4>1, <4>3, <5>1
      <4> QED
        BY <4>2, <4>3
    <3> QED
      BY <3>1, <3>3, <3>4, SMTT(40)
  <2> QED
    BY <2>2, <2>3
<1>30. mid \in ListEntries
  <2>1. n + 1 \in Nat /\ n + 1 # 0
    OBVIOUS
  <2>2. MidPos(n + 1) + 1 \in 1..(n + 1)
    BY <2>1, MidPosIs
  <2>3. \A i \in 1..(n + 1) : b[i] \in ListEntries
    BY <1>22, <1>23, <1>26, SpineIs
  <2> QED
    BY <1>29, <2>2, <2>3
<1>31. PICK r : r = [in EXCEPT !.mid = mid]
  OBVIOUS
<1>32. r \in ListRecord
  BY <1>22, <1>30, <1>31 DEF ListRecord
<1>33. /\ r.next = in.next /\ r.prev = in.prev /\ r.data = in.data /\ r.numels = in.numels
       /\ r.live = in.live /\ r.spare = in.spare /\ r.copies = in.copies /\ r.copy = in.copy
       /\ r.want = in.want /\ r.mid = mid /\ r.iter = in.iter
  BY <1>22, <1>31 DEF ListRecord
<1>34. ListOK(r, b)
  <2>1. Spine(r, b)
    BY <1>26, <1>33, ZenonT(60) DEF Spine
  <2>2. Holds(r, b)
    BY <1>26, <1>33 DEF Holds
  <2>3. Spares(r, b)
    BY <1>26, <1>33 DEF Spares
  <2>4. OwnsCopies(r)
    BY <1>26, <1>33 DEF OwnsCopies
  <2>5. Middle(r, b)
    <3>1. r.numels = n + 1 /\ n + 1 # 0
      BY <1>23, <1>33
    <3> QED
      BY <1>29, <1>33, <3>1 DEF Middle
  <2>6. Iterating(r, b)
    BY <1>23, <1>33 DEF Iterating
  <2> QED
    BY <2>1, <2>2, <2>3, <2>4, <2>5, <2>6 DEF ListOK
<1>35. LinkIn(l, v, pos) = r
  <2> DEFINE In(nd, pr, sc) ==
                 [Link(Link(l, pr, nd), nd, sc) EXCEPT
                     !.data[nd] = v, !.numels = l.numels + 1, !.live = @ \cup {nd},
                     !.spare = IF @ # <<>> THEN Front(@) ELSE @,
                     !.copies = IF l.copy THEN @ + 1 ELSE @,
                     !.want = InsertAt(@, pos + 1, v)]
             Out(i, nd) ==
                 [i EXCEPT !.mid =
                     IF l.numels + 1 = 1 THEN nd
                     ELSE IF (l.numels + 1) % 2 = 1
                          THEN (IF pos >= MidPos(l.numels + 1) THEN i.next[@] ELSE @)
                     ELSE (IF pos <= MidPos(l.numels + 1) THEN i.prev[@] ELSE @)]
  <2>1. In(node, x, y) = in
    <3>1. /\ e.data = l.data /\ e.live \cup {node} = lv
          /\ (IF e.spare # <<>> THEN Front(e.spare) ELSE e.spare) = sp
          /\ (IF l.copy THEN e.copies + 1 ELSE e.copies) = cp /\ InsertAt(e.want, pos + 1, v) = w
      BY <1>4, <1>16, <1>17, <1>19
    <3> QED
      BY <1>2, <1>11, <1>14, <1>15, <1>19, <1>21, <3>1 DEF ListRecord
  <2>2. Out(in, node) = r
    BY <1>2, <1>22, <1>28, <1>31 DEF ListRecord
  <2>3. LinkIn(l, v, pos) =
          Out(In(NewNode(l), ListFindPos(l, pos - 1), l.next[ListFindPos(l, pos - 1)]), NewNode(l))
    BY Zenon DEF LinkIn, NewNode
  <2> HIDE DEF In, Out
  <2> QED
    BY <1>3, <1>8, <1>9, <1>10, <2>1, <2>2, <2>3
<1> QED
  BY <1>32, <1>34, <1>35

-----------------------------------------------------------------------------
(* New lists                                                               *)

\* An empty one.
LEMMA NewListKeeps ==
    ASSUME NEW copy \in BOOLEAN
    PROVE  NewList(copy) \in ListRecord /\ \E b : ListOK(NewList(copy), b)
<1>1. PICK l : l = NewList(copy)
  OBVIOUS
<1>2. MaxEls \in Nat \ {0} /\ HeadNode = 0 /\ TailNode = MaxEls + 1 /\ HeadNode \in Nodes /\ TailNode \in Nodes
  BY ListConstants DEF HeadNode, TailNode, Nodes
<1>3. PICK fn, fp, fd : /\ fn = [x \in Nodes |-> IF x = HeadNode THEN TailNode ELSE NullNode]
                        /\ fp = [x \in Nodes |-> IF x = TailNode THEN HeadNode ELSE NullNode]
                        /\ fd = [x \in Nodes |-> 0]
  OBVIOUS
<1>4. /\ fn \in [Nodes -> Nodes \cup {NullNode}] /\ fp \in [Nodes -> Nodes \cup {NullNode}]
      /\ fd \in [Nodes -> ListData \cup {0}]
  BY <1>2, <1>3
<1>5. NoIter \in IterRecord /\ ~NoIter.active
  BY ListConstants DEF NoIter, IterRecord
<1>6. l = [next |-> fn, prev |-> fp, data |-> fd, live |-> {}, spare |-> <<>>,
           numels |-> 0, mid |-> NullNode, iter |-> NoIter, copy |-> copy, copies |-> 0, want |-> <<>>]
  BY <1>1, <1>3 DEF NewList
<1>7. l \in ListRecord
  <2>1. /\ <<>> \in Seq(ListEntries) /\ <<>> \in Seq(ListData) /\ {} \in SUBSET ListEntries
        /\ 0 \in Nat /\ 0 \in Int /\ NullNode \in ListEntries \cup {NullNode}
    OBVIOUS
  <2> QED
    BY <1>4, <1>5, <1>6, <2>1 DEF ListRecord
<1>8. PICK b : b = [i \in 0..1 |-> IF i = 0 THEN HeadNode ELSE TailNode]
  OBVIOUS
<1>9. b[0] = HeadNode /\ b[1] = TailNode /\ b \in [0..1 -> Nodes] /\ HeadNode # TailNode
  BY <1>2, <1>8
<1>10. /\ l.next = fn /\ l.prev = fp /\ l.live = {} /\ l.spare = <<>> /\ l.numels = 0
       /\ l.mid = NullNode /\ l.iter = NoIter /\ l.copies = 0 /\ l.want = <<>>
  BY <1>6
<1>11. Spine(l, b)
  <2>1. fn[b[0]] = b[1] /\ fp[b[1]] = b[0]
    BY <1>2, <1>3, <1>9
  <2>2. \A i \in 0..0 : i = 0
    OBVIOUS
  <2>3. \A i \in 0..1 : i = 0 \/ i = 1
    OBVIOUS
  <2>4. \A i, j \in 0..1 : b[i] = b[j] => i = j
    BY <1>9, <2>3
  <2>5. \A i \in 0..0 : l.next[b[i]] = b[i + 1] /\ l.prev[b[i + 1]] = b[i]
    BY <1>10, <2>1, <2>2
  <2> QED
    BY <1>9, <1>10, <2>4, <2>5 DEF Spine
<1>12. Middle(l, b) /\ Holds(l, b) /\ OwnsCopies(l) /\ Iterating(l, b)
  BY <1>5, <1>10 DEF Middle, Holds, OwnsCopies, Iterating
<1>13. Spares(l, b)
  BY <1>10, ListConstants DEF Spares
<1>14. ListOK(l, b)
  BY <1>11, <1>12, <1>13 DEF ListOK
<1> QED
  BY <1>1, <1>7, <1>14

\* ks_list_concat: the entries of both, in their order.
LEMMA ConcatKeeps ==
    ASSUME NEW s1 \in Seq(ListData), NEW s2 \in Seq(ListData), Len(s1) + Len(s2) <= MaxEls
    PROVE  Concat(s1, s2) \in ListRecord /\ \E b : ListOK(Concat(s1, s2), b)
<1>1. PICK n1 \in Nat : n1 = Len(s1)
  OBVIOUS
<1>2. PICK n2 \in Nat : n2 = Len(s2)
  OBVIOUS
<1>3. PICK n \in Nat : n = n1 + n2 /\ n <= MaxEls
  BY <1>1, <1>2
<1>4. CASE n = 0
  <2>1. Concat(s1, s2) = NewList(FALSE)
    BY <1>1, <1>2, <1>3, <1>4 DEF Concat
  <2> QED
    BY <2>1, NewListKeeps
<1>5. CASE n # 0
  <2>1. PICK u : Behind(u, s1, s2)
    BY DEF Behind
  <2>2. u \in Seq(ListData) /\ Len(u) = n /\ \A i \in 1..n : u[i] \in ListData
    <3>1. u \in Seq(ListData) /\ Len(u) = Len(s1) + Len(s2)
      BY <2>1, BehindIs
    <3> QED
      BY <1>1, <1>2, <1>3, <3>1
  <2>3. /\ MaxEls \in Nat \ {0} /\ HeadNode = 0 /\ TailNode = MaxEls + 1 /\ TailNode \in Nodes
        /\ Nodes = 0..(MaxEls + 1) /\ ListEntries = 1..MaxEls
    BY ListConstants DEF HeadNode, TailNode, Nodes, ListEntries
  <2>4. PICK fn, fp, fd :
          /\ fn = [i \in Nodes |-> IF i = n THEN TailNode ELSE IF i < n THEN i + 1 ELSE NullNode]
          /\ fp = [i \in Nodes |-> IF i = TailNode THEN n ELSE IF i \in 1..n THEN i - 1 ELSE NullNode]
          /\ fd = [i \in Nodes |-> IF i \in 1..n THEN u[i] ELSE 0]
    OBVIOUS
  <2>5. /\ fn \in [Nodes -> Nodes \cup {NullNode}] /\ fp \in [Nodes -> Nodes \cup {NullNode}]
        /\ fd \in [Nodes -> ListData \cup {0}]
    <3>1. \A i \in Nodes : i < n => i + 1 \in Nodes
      BY <1>3, <2>3
    <3>2. \A i \in Nodes : i \in 1..n => i - 1 \in Nodes
      BY <1>3, <2>3
    <3>3. n \in Nodes
      BY <1>3, <2>3
    <3> QED
      BY <2>2, <2>3, <2>4, <3>1, <3>2, <3>3
  <2>6. NoIter \in IterRecord /\ ~NoIter.active
    BY ListConstants DEF NoIter, IterRecord
  <2>7. PICK l : l = [next |-> fn, prev |-> fp, data |-> fd, live |-> 1..n, spare |-> <<>>,
                      numels |-> n, mid |-> NullNode, iter |-> NoIter, copy |-> FALSE,
                      copies |-> 0, want |-> u]
    OBVIOUS
  <2>8. l \in ListRecord
    <3>1. /\ <<>> \in Seq(ListEntries) /\ 1..n \in SUBSET ListEntries
          /\ 0 \in Int /\ NullNode \in ListEntries \cup {NullNode}
      BY <1>3, <2>3
    <3> QED
      BY <2>2, <2>5, <2>6, <2>7, <3>1 DEF ListRecord
  <2>9. PICK b : b = [i \in 0..(n + 1) |-> IF i = n + 1 THEN TailNode ELSE i]
    OBVIOUS
  <2>10. /\ b[n + 1] = TailNode /\ \A i \in 0..n : b[i] = i /\ i \in Nodes
    BY <1>3, <2>3, <2>9
  <2>11. ASSUME NEW i \in 0..n PROVE l.next[b[i]] = b[i + 1] /\ l.prev[b[i + 1]] = b[i]
    <3>1. l.next = fn /\ l.prev = fp
      BY <2>7
    <3>2. CASE i = n
      BY <2>3, <2>4, <2>10, <3>1, <3>2
    <3>3. CASE i # n
      <4>1. i < n /\ i + 1 \in 0..n /\ i + 1 \in 1..n /\ (i + 1) - 1 = i /\ i + 1 # TailNode
        BY <1>3, <2>3, <3>3
      <4>2. b[i] = i /\ b[i + 1] = i + 1 /\ i \in Nodes /\ i + 1 \in Nodes
        BY <2>10, <4>1
      <4> QED
        BY <2>4, <3>1, <3>3, <4>1, <4>2
    <3> QED
      BY <3>2, <3>3
  <2>12. Spine(l, b)
    <3>1. l.numels = n
      BY <2>7
    <3>2. b[0] = HeadNode
      BY <2>3, <2>10
    <3>3. b \in [0..(n + 1) -> Nodes]
      <4>1. \A i \in 0..(n + 1) : (IF i = n + 1 THEN TailNode ELSE i) \in Nodes
        BY <1>3, <2>3
      <4> QED
        BY <2>9, <4>1
    <3>4. ASSUME NEW i \in 0..(n + 1), NEW j \in 0..(n + 1), b[i] = b[j] PROVE i = j
      <4>1. (i = n + 1 \/ i \in 0..n) /\ (j = n + 1 \/ j \in 0..n) /\ \A x \in 0..n : x # TailNode
        BY <1>3, <2>3
      <4> QED
        BY <2>10, <3>4, <4>1
    <3> QED
      BY <2>10, <2>11, <3>1, <3>2, <3>3, <3>4 DEF Spine
  <2>13. PICK h \in Nat : h = MidPos(n) /\ h + 1 \in 1..n /\ 2 * h <= n - 1 /\ n - 1 <= 2 * h + 1
    BY <1>5, MidPosIs
  <2>14. PICK mid : mid = IF n2 - n1 > 0 THEN Follow(l.next, n1, ((n2 - n1) + 1) \div 2)
                          ELSE Follow(l.prev, n1, (-(n2 - n1)) \div 2)
    OBVIOUS
  <2>15. mid = b[h + 1]
    <3>1. n1 \in 0..n /\ n1 \in 0..(n + 1) /\ b[n1] = n1 /\ l.numels = n
      BY <1>3, <2>7, <2>10
    <3>2. CASE n2 - n1 > 0
      <4>1. PICK k \in Nat : k = ((n2 - n1) + 1) \div 2 /\ 2 * k <= (n2 - n1) + 1 /\ n2 - n1 <= 2 * k
        BY <3>2
      <4>2. n1 + k = h + 1 /\ n1 + k <= n + 1
        <5>1. /\ 2 * h <= n1 + n2 - 1 /\ n1 + n2 - 1 <= 2 * h + 1
              /\ 2 * k <= (n2 - n1) + 1 /\ n2 - n1 <= 2 * k /\ h + 1 <= n
          BY <1>3, <2>13, <4>1
        <5>2. n1 + k = h + 1
          BY <5>1
        <5> QED
          BY <5>1, <5>2
      <4>3. Follow(l.next, b[n1], k) = b[n1 + k]
        BY <2>8, <2>12, <3>1, <4>2, FollowNext
      <4> QED
        BY <2>14, <3>1, <3>2, <4>1, <4>2, <4>3
    <3>3. CASE ~(n2 - n1 > 0)
      <4>1. PICK k \in Nat : k = (-(n2 - n1)) \div 2 /\ 2 * k <= n1 - n2 /\ n1 - n2 <= 2 * k + 1
        BY <3>3
      <4>2. n1 - k = h + 1 /\ k <= n1
        BY <1>3, <2>13, <4>1, SMTT(40)
      <4>3. Follow(l.prev, b[n1], k) = b[n1 - k]
        BY <2>8, <2>12, <3>1, <4>2, FollowPrev, SMTT(40)
      <4> QED
        BY <2>14, <3>1, <3>3, <4>1, <4>2, <4>3
    <3> QED
      BY <3>2, <3>3
  <2>16. mid \in ListEntries
    BY <1>3, <2>3, <2>10, <2>13, <2>15, SMTT(40)
  <2>17. PICK r : r = [l EXCEPT !.mid = mid]
    OBVIOUS
  <2>18. r \in ListRecord
    BY <2>8, <2>16, <2>17 DEF ListRecord
  <2>19. /\ r.next = l.next /\ r.prev = l.prev /\ r.data = fd /\ r.numels = n /\ r.live = 1..n
         /\ r.spare = <<>> /\ r.copies = 0 /\ r.copy = FALSE /\ r.want = u /\ r.mid = mid
         /\ r.iter = NoIter /\ l.numels = n
    BY <2>7, <2>17
  <2>20. Spine(r, b)
    BY <2>12, <2>19 DEF Spine
  <2>21. Middle(r, b) /\ OwnsCopies(r) /\ Iterating(r, b)
    BY <1>5, <2>6, <2>13, <2>15, <2>19 DEF Middle, OwnsCopies, Iterating
  <2>22. Holds(r, b)
    <3>1. ASSUME NEW i \in 1..n PROVE r.data[b[i]] = u[i]
      <4>1. b[i] = i /\ i \in Nodes
        BY <2>10
      <4> QED
        BY <2>4, <2>19, <4>1
    <3> QED
      BY <2>2, <2>19, <3>1 DEF Holds
  <2>23. Spares(r, b)
    <3>1. 1..n = {b[i] : i \in 1..n}
      BY <2>10
    <3> QED
      BY <2>19, <3>1, ListConstants DEF Spares
  <2>24. ListOK(r, b)
    BY <2>20, <2>21, <2>22, <2>23 DEF ListOK
  <2>25. Concat(s1, s2) = r
    <3> DEFINE In(m1, m, w) ==
                   [NewList(FALSE) EXCEPT
                       !.next = [i \in Nodes |-> IF i = m THEN TailNode ELSE IF i < m THEN i + 1 ELSE NullNode],
                       !.prev = [i \in Nodes |-> IF i = TailNode THEN m ELSE IF i \in 1..m THEN i - 1 ELSE NullNode],
                       !.data = [i \in Nodes |-> IF i \in 1..m THEN w[i] ELSE 0],
                       !.numels = m, !.live = 1..m, !.want = w]
               Out(i, m1, err) ==
                   [i EXCEPT !.mid = IF err > 0 THEN Follow(i.next, m1, (err + 1) \div 2)
                                     ELSE Follow(i.prev, m1, (-err) \div 2)]
    <3>1. In(n1, n, u) = l
      <4>1. In(n1, n, u) = [NewList(FALSE) EXCEPT !.next = fn, !.prev = fp, !.data = fd,
                                                  !.numels = n, !.live = 1..n, !.want = u]
        BY <2>4
      <4>2. [NewList(FALSE) EXCEPT !.next = fn, !.prev = fp, !.data = fd,
                                   !.numels = n, !.live = 1..n, !.want = u]
              = [next |-> fn, prev |-> fp, data |-> fd, live |-> 1..n, spare |-> <<>>,
                 numels |-> n, mid |-> NullNode, iter |-> NoIter, copy |-> FALSE,
                 copies |-> 0, want |-> u]
        <5>1. PICK cf, lv : cf \in BOOLEAN /\ cf = FALSE /\ lv = 1..n
          BY Zenon
        <5>2. PICK q : q = NewList(cf)
          OBVIOUS
        <5>3. q \in ListRecord
          BY <5>1, <5>2, NewListKeeps
        <5>4. /\ q.spare = <<>> /\ q.mid = NullNode /\ q.iter = NoIter /\ q.copy = cf /\ q.copies = 0
          BY <5>2 DEF NewList
        <5>5. [q EXCEPT !.next = fn, !.prev = fp, !.data = fd, !.numels = n, !.live = lv, !.want = u]
                = [next |-> fn, prev |-> fp, data |-> fd, live |-> lv, spare |-> <<>>,
                   numels |-> n, mid |-> NullNode, iter |-> NoIter, copy |-> cf,
                   copies |-> 0, want |-> u]
          <6>1. PICK c : c = [q EXCEPT !.next = fn, !.prev = fp, !.data = fd, !.numels = n,
                                       !.live = lv, !.want = u]
            OBVIOUS
          <6>2. lv \in SUBSET ListEntries
            BY <1>3, <2>3, <5>1
          <6>3. c \in ListRecord
            BY <2>2, <2>5, <5>3, <6>1, <6>2 DEF ListRecord
          <6>4. /\ c.next = fn /\ c.prev = fp /\ c.data = fd /\ c.live = lv /\ c.spare = <<>>
                /\ c.numels = n /\ c.mid = NullNode /\ c.iter = NoIter /\ c.copy = cf
                /\ c.copies = 0 /\ c.want = u
            BY <5>3, <5>4, <6>1 DEF ListRecord
          <6>5. c = [next |-> c.next, prev |-> c.prev, data |-> c.data, live |-> c.live, spare |-> c.spare,
                     numels |-> c.numels, mid |-> c.mid, iter |-> c.iter, copy |-> c.copy,
                     copies |-> c.copies, want |-> c.want]
            BY <6>3 DEF ListRecord
          <6> QED
            BY <6>1, <6>4, <6>5, Zenon
        <5> QED
          BY <5>1, <5>2, <5>5, Zenon
      <4> QED
        BY <2>7, <4>1, <4>2, Zenon
    <3>2. Out(l, n1, n2 - n1) = r
      BY <2>14, <2>17
    <3>3. u = s1 \o s2
      BY <2>1 DEF Behind
    <3>4. Concat(s1, s2) = IF Len(s1) + Len(s2) = 0 THEN NewList(FALSE)
                           ELSE Out(In(Len(s1), Len(s1) + Len(s2), s1 \o s2), Len(s1), Len(s2) - Len(s1))
      BY Zenon DEF Concat
    <3> HIDE DEF In, Out
    <3> QED
      BY <1>1, <1>2, <1>3, <1>5, <3>1, <3>2, <3>3, <3>4
  <2> QED
    BY <2>18, <2>24, <2>25
<1> QED
  BY <1>4, <1>5


-----------------------------------------------------------------------------
(* The iterator                                                            *)

\* A step that changes the iterator alone.
LEMMA IterKeeps ==
    ASSUME NEW l \in ListRecord, NEW a, ListOK(l, a), NEW it \in IterRecord,
           NEW t, t = [l EXCEPT !.iter = it],
           it.active => /\ it.pos + 1 - it.deletes \in 1..(l.numels + 1)
                        /\ it.cur = a[it.pos + 1 - it.deletes]
                        /\ it.deletes = 0 => it.last = IF it.pos = 0 THEN NullNode ELSE a[it.pos]
    PROVE  t \in ListRecord /\ ListOK(t, a)
<1>1. t \in ListRecord
  BY DEF ListRecord
<1>2. /\ t.next = l.next /\ t.prev = l.prev /\ t.data = l.data /\ t.spare = l.spare
      /\ t.live = l.live /\ t.copy = l.copy /\ t.copies = l.copies /\ t.numels = l.numels
      /\ t.mid = l.mid /\ t.iter = it /\ t.want = l.want
  BY DEF ListRecord
<1>3. Spine(t, a)
  BY <1>2 DEF ListOK, Spine
<1>4. Middle(t, a)
  BY <1>2 DEF ListOK, Middle
<1>5. Holds(t, a)
  BY <1>2 DEF ListOK, Holds
<1>6. Spares(t, a)
  BY <1>2 DEF ListOK, Spares
<1>7. OwnsCopies(t)
  BY <1>2 DEF ListOK, OwnsCopies
<1>8. Iterating(t, a)
  BY <1>2 DEF Iterating
<1> QED
  BY <1>1, <1>3, <1>4, <1>5, <1>6, <1>7, <1>8 DEF ListOK

\* ks_list_iterator_start: the first entry is next.
LEMMA IterStartKeeps ==
    ASSUME NEW l \in ListRecord, NEW a, ListOK(l, a)
    PROVE  LET t == [l EXCEPT !.iter = [NoIter EXCEPT !.active = TRUE, !.cur = l.next[HeadNode]]] IN
           t \in ListRecord /\ ListOK(t, a)
<1>1. PICK it : it = [NoIter EXCEPT !.active = TRUE, !.cur = l.next[HeadNode]]
  OBVIOUS
<1>2. l.numels \in Nat /\ a[0] = HeadNode /\ l.next[a[0]] = a[1] /\ a[1] \in Nodes
  <2>1. Spine(l, a) /\ l.numels \in Nat
    BY DEF ListOK, ListRecord
  <2>2. 0 \in 0..l.numels /\ 1 \in 0..(l.numels + 1) /\ 0 + 1 = 1
    BY <2>1
  <2> QED
    BY <2>1, <2>2 DEF Spine
<1>3. /\ it.active /\ it.pos = 0 /\ it.cur = a[1] /\ it.last = NullNode /\ it.deletes = 0
      /\ it \in IterRecord
  <2>1. PICK c : c = a[1] /\ c \in Nodes /\ it = [NoIter EXCEPT !.active = TRUE, !.cur = c]
    BY <1>1, <1>2
  <2>2. NoIter \in IterRecord
    BY ListConstants DEF NoIter, IterRecord
  <2>3. NoIter.pos = 0 /\ NoIter.last = NullNode /\ NoIter.deletes = 0
    BY DEF NoIter
  <2> QED
    BY <2>1, <2>2, <2>3 DEF IterRecord
<1>4. it.pos + 1 - it.deletes = 1 /\ 1 \in 1..(l.numels + 1)
  BY <1>2, <1>3
<1>5. PICK t : t = [l EXCEPT !.iter = it]
  OBVIOUS
<1>6. t \in ListRecord /\ ListOK(t, a)
  BY <1>3, <1>4, <1>5, IterKeeps
<1> QED
  BY <1>1, <1>5, <1>6

\* ks_list_iterator_next: the entry behind the one it returns is next.
LEMMA IterNextKeeps ==
    ASSUME NEW l \in ListRecord, NEW a, ListOK(l, a), l.iter.active, l.iter.pos < l.numels,
           l.numels <= MaxEls, MaxIterDeletes <= 1
    PROVE  LET t == [l EXCEPT !.iter.cur = l.next[@], !.iter.last = l.iter.cur, !.iter.pos = @ + 1] IN
           t \in ListRecord /\ ListOK(t, a)
<1>1. PICK n \in Nat : n = l.numels
  BY DEF ListRecord
<1>2. PICK o \in IterRecord : o = l.iter
  BY DEF ListRecord
<1>3. PICK p \in Nat : p = o.pos /\ p < n
  BY <1>1, <1>2 DEF IterRecord
<1>4. PICK d \in Nat : d = o.deletes /\ d <= 1 /\ d \in 0..MaxIterDeletes
  <2>1. o.deletes \in 0..MaxIterDeletes /\ MaxIterDeletes \in Nat
    BY ListConstants DEF IterRecord
  <2> QED
    BY <2>1
<1>5. PICK i \in Nat : i = p + 1 - d /\ i \in 1..(n + 1) /\ o.cur = a[i]
                       /\ (d = 0 => o.last = IF p = 0 THEN NullNode ELSE a[p])
  BY <1>1, <1>2, <1>3, <1>4 DEF ListOK, Iterating
<1>6. /\ i \in 0..n /\ i + 1 \in 1..(n + 1) /\ i \in 0..(n + 1) /\ i + 1 \in 0..(n + 1)
      /\ p + 1 \in 0..MaxEls /\ (p + 1) + 1 - d = i + 1 /\ p + 1 # 0 /\ (d = 0 => i = p + 1)
  BY <1>1, <1>3, <1>4, <1>5, ListConstants
<1>7. l.next[a[i]] = a[i + 1] /\ a[i] \in Nodes /\ a[i + 1] \in Nodes
  BY <1>1, <1>6 DEF ListOK, Spine
<1>8. PICK it : it = [o EXCEPT !.cur = a[i + 1], !.last = a[i], !.pos = p + 1]
  OBVIOUS
<1>9. it \in IterRecord /\ it.active /\ it.cur = a[i + 1] /\ it.last = a[i] /\ it.pos = p + 1 /\ it.deletes = d
  BY <1>2, <1>4, <1>6, <1>7, <1>8 DEF IterRecord
<1>10. PICK t : t = [l EXCEPT !.iter = it]
  OBVIOUS
<1>11. /\ it.pos + 1 - it.deletes \in 1..(l.numels + 1)
       /\ it.cur = a[it.pos + 1 - it.deletes]
       /\ it.deletes = 0 => it.last = IF it.pos = 0 THEN NullNode ELSE a[it.pos]
  BY <1>1, <1>6, <1>9
<1>12. t \in ListRecord /\ ListOK(t, a)
  BY <1>9, <1>10, <1>11, IterKeeps
<1>13. [l EXCEPT !.iter.cur = l.next[@], !.iter.last = l.iter.cur, !.iter.pos = @ + 1] = t
  BY <1>2, <1>3, <1>5, <1>7, <1>8, <1>10, ZenonT(60) DEF ListRecord, IterRecord
<1> QED
  BY <1>12, <1>13

\* ks_list_iterator_stop.
LEMMA IterStopKeeps ==
    ASSUME NEW l \in ListRecord, NEW a, ListOK(l, a)
    PROVE  LET t == [l EXCEPT !.iter = NoIter] IN t \in ListRecord /\ ListOK(t, a)
<1>1. NoIter \in IterRecord /\ ~NoIter.active
  BY ListConstants DEF NoIter, IterRecord
<1>2. PICK t : t = [l EXCEPT !.iter = NoIter]
  OBVIOUS
<1>3. t \in ListRecord /\ ListOK(t, a)
  BY <1>1, <1>2, IterKeeps
<1> QED
  BY <1>2, <1>3

\* ks_list_delete_iterator, once in an iteration: the entry it deletes is the
\* one that was returned, and the iteration goes on behind it.
LEMMA IterDeleteKeeps ==
    ASSUME NEW l \in ListRecord, NEW a, ListOK(l, a), l.iter.active, l.iter.pos <= l.numels,
           l.iter.last # NullNode, l.iter.deletes < MaxIterDeletes, MaxIterDeletes <= 1
    PROVE  LET t == [DropElem(l, ListFindPos(l, l.iter.pos - 1), l.iter.pos - 1) EXCEPT
                        !.iter.last = NullNode, !.iter.deletes = @ + 1,
                        !.want = RemoveAt(@, SelectInSeq(Contents(l), LAMBDA n : n = l.iter.last))] IN
           t \in ListRecord /\ \E b : ListOK(t, b)
<1>1. Spine(l, a) /\ Middle(l, a) /\ Holds(l, a) /\ Spares(l, a) /\ OwnsCopies(l) /\ Iterating(l, a)
  BY DEF ListOK
<1>2. PICK n \in Nat : n = l.numels
  BY DEF ListRecord
<1>3. PICK o \in IterRecord : o = l.iter
  BY DEF ListRecord
<1>4. o.deletes = 0 /\ 1 \in 0..MaxIterDeletes
  <2>1. o.deletes \in 0..MaxIterDeletes /\ MaxIterDeletes \in Nat /\ o.deletes < MaxIterDeletes
    BY <1>3, ListConstants DEF IterRecord
  <2> QED
    BY <2>1
<1>5. o.pos # 0 /\ o.last = a[o.pos] /\ o.cur = a[o.pos + 1 - o.deletes]
  BY <1>1, <1>3, <1>4 DEF Iterating
<1>6. PICK p \in Nat : p + 1 = o.pos /\ p + 1 <= n /\ p = o.pos - 1
  BY <1>2, <1>3, <1>5 DEF IterRecord
<1>7. o.last = a[p + 1] /\ o.cur = a[(p + 1) + 1] /\ o.pos = p + 1
  <2>1. o.pos + 1 - o.deletes = (p + 1) + 1
    BY <1>4, <1>6
  <2> QED
    BY <1>5, <1>6, <2>1
<1>8. ListFindPos(l, p) = a[p + 1]
  <2>1. p \in -1..l.numels
    BY <1>2, <1>6
  <2> QED
    BY <1>1, <2>1, FindPosIs
<1>9. SelectInSeq(Contents(l), LAMBDA x : x = l.iter.last) = p + 1
  <2>1. PICK in : in = Contents(l) /\ Len(in) = n /\ \A i \in 1..n : in[i] = a[i]
    BY <1>1, <1>2, ContentsIs
  <2>2. p + 1 \in 1..n /\ \A i \in 1..n : i \in 0..(n + 1)
    BY <1>6
  <2>3. \A i \in 1..n : a[i] = a[p + 1] => i = p + 1
    BY <1>1, <1>2, <2>2 DEF Spine
  <2>4. {i \in 1..Len(in) : in[i] = l.iter.last} = {p + 1}
    BY <1>3, <1>7, <2>1, <2>2, <2>3
  <2>5. Min({p + 1}) = p + 1
    <3>1. PICK m \in Nat : m = p + 1
      OBVIOUS
    <3>2. Min({m}) = m
      BY DEF Min
    <3> QED
      BY <3>1, <3>2
  <2>6. SelectInSeq(in, LAMBDA x : x = l.iter.last) =
          IF {i \in 1..Len(in) : in[i] = l.iter.last} # {} THEN Min({i \in 1..Len(in) : in[i] = l.iter.last}) ELSE 0
    BY Zenon DEF SelectInSeq
  <2> QED
    BY <2>1, <2>4, <2>5, <2>6
<1>10. PICK r \in ListRecord :
        /\ r = DropElem(l, a[p + 1], p) /\ Unlinked(l, r, a, p, 1) /\ r.numels = l.numels - 1
        /\ Middle(r, Without(a, l.numels, p, 1)) /\ r.iter = l.iter /\ r.want = l.want
  BY <1>1, <1>2, <1>6, DropUnlinks
<1>11. PICK w : w = RemoveAt(l.want, p + 1)
  OBVIOUS
<1>12. l.want \in Seq(ListData)
  BY DEF ListRecord
<1>13. w = SubSeq(l.want, 1, p) \o SubSeq(l.want, p + 1 + 1, Len(l.want))
  BY <1>11, <1>12, RemoveAtIs
<1>14. w \in Seq(ListData)
  <2>1. Len(l.want) = n
    BY <1>1, <1>2 DEF Holds
  <2>2. /\ SubSeq(l.want, 1, p) \in Seq(ListData)
        /\ SubSeq(l.want, p + 1 + 1, Len(l.want)) \in Seq(ListData)
    BY <1>6, <1>12, <2>1
  <2> QED
    BY <1>13, <2>2
<1>15. PICK it : it = [o EXCEPT !.last = NullNode, !.deletes = 1]
  OBVIOUS
<1>16. it \in IterRecord /\ it.pos = p + 1 /\ it.deletes = 1 /\ it.cur = a[(p + 1) + 1]
  BY <1>4, <1>7, <1>15 DEF IterRecord
<1>17. PICK t : t = [r EXCEPT !.iter = it, !.want = w]
  OBVIOUS
<1>18. t \in ListRecord
  BY <1>14, <1>16, <1>17 DEF ListRecord
<1>19. /\ t.next = r.next /\ t.prev = r.prev /\ t.data = r.data /\ t.spare = r.spare
       /\ t.live = r.live /\ t.copy = r.copy /\ t.copies = r.copies /\ t.numels = r.numels
       /\ t.mid = r.mid /\ t.iter = it /\ t.want = w
  BY <1>17 DEF ListRecord
<1>20. PICK b : b = Without(a, l.numels, p, 1)
  OBVIOUS
<1>21. Unlinked(l, t, a, p, 1)
  BY <1>10, <1>19, UnlinkedStays
<1>22. Spine(t, b) /\ Spares(t, b) /\ OwnsCopies(t)
  <2>1. t.numels = l.numels - 1 /\ p + 1 <= l.numels /\ b = Without(a, l.numels, p, 1)
    BY <1>2, <1>6, <1>10, <1>19, <1>20, SMTT(40)
  <2> QED
    BY <1>1, <1>18, <1>21, <2>1, UnlinkedKeeps
<1>23. Holds(t, b)
  <2>1. /\ t.numels = l.numels - 1 /\ p + 1 <= l.numels /\ b = Without(a, l.numels, p, 1)
        /\ t.want = SubSeq(l.want, 1, p) \o SubSeq(l.want, p + 1 + 1, Len(l.want))
    BY <1>2, <1>6, <1>10, <1>13, <1>19, <1>20
  <2> QED
    BY <1>1, <1>18, <1>21, <2>1, UnlinkedHolds
<1>24. Middle(t, b)
  BY <1>10, <1>19, <1>20 DEF Middle
<1>25. Iterating(t, b)
  <2>1. t.numels = n - 1 /\ (n - 1) + 1 = n
    BY <1>2, <1>10, <1>19
  <2>2. /\ (p + 1) + 1 - 1 = p + 1 /\ p + 1 \in 1..n /\ p + 1 \in 0..(n - 1 + 1)
        /\ ~(p + 1 <= p)
    BY <1>6
  <2>3. b[p + 1] = a[(p + 1) + 1]
    BY <1>2, <1>20, <2>2 DEF Without
  <2> QED
    BY <1>16, <1>19, <2>1, <2>2, <2>3 DEF Iterating
<1>26. ListOK(t, b)
  BY <1>22, <1>23, <1>24, <1>25 DEF ListOK
<1>27. [DropElem(l, ListFindPos(l, l.iter.pos - 1), l.iter.pos - 1) EXCEPT
           !.iter.last = NullNode, !.iter.deletes = @ + 1,
           !.want = RemoveAt(@, SelectInSeq(Contents(l), LAMBDA x : x = l.iter.last))] = t
  <2>2. DropElem(l, ListFindPos(l, l.iter.pos - 1), l.iter.pos - 1) = r
    BY <1>3, <1>6, <1>8, <1>10
  <2>3. [r EXCEPT !.iter.last = NullNode, !.iter.deletes = @ + 1, !.want = RemoveAt(@, p + 1)] = t
    <3>1. o.deletes + 1 = 1
      BY <1>4
    <3> QED
      BY <1>3, <1>10, <1>11, <1>15, <1>17, <3>1, ZenonT(60) DEF ListRecord, IterRecord
  <2> QED
    BY <1>9, <2>2, <2>3, Zenon
<1> QED
  BY <1>18, <1>26, <1>27

-----------------------------------------------------------------------------
(* The actions                                                             *)

\* The invariant of the next state.
LEMMA ListIInvNext ==
    ASSUME NEW t, list' = t, t \in ListRecord, NEW b, ListOK(t, b)
    PROVE  ListIInv'
<1>1. list' \in ListRecord /\ ListOK(list', b)
  OBVIOUS
<1> QED
  BY <1>1 DEF ListIInv, ListOK, Spine, Middle, Holds, Spares, OwnsCopies, Iterating, ListRecord, IterRecord

\* ks_list_insert_at.
LEMMA ListInsertKeeps == ASSUME ListIInv, ListInsert PROVE ListIInv'
<1>1. PICK a : ListOK(list, a)
  BY DEF ListIInv
<1>2. PICK l \in ListRecord : l = list /\ ListOK(l, a)
  BY <1>1 DEF ListIInv
<1>3. PICK v \in ListData, pos \in 0..l.numels :
        ~l.iter.active /\ (l.spare # <<>> \/ Cardinality(l.live) < MaxEls) /\ list' = LinkIn(l, v, pos)
  BY <1>2 DEF ListInsert, ListIdle
<1>4. LinkIn(l, v, pos) \in ListRecord /\ \E b : ListOK(LinkIn(l, v, pos), b)
  BY <1>2, <1>3, LinkInKeeps
<1> QED
  BY <1>3, <1>4, ListIInvNext

\* ks_list_extract_at.
LEMMA ListExtractKeeps == ASSUME ListIInv, ListExtract PROVE ListIInv'
<1>1. PICK a : ListOK(list, a)
  BY DEF ListIInv
<1>2. PICK l \in ListRecord : l = list /\ ListOK(l, a)
  BY <1>1 DEF ListIInv
<1>3. PICK pos \in 0..(l.numels - 1) :
        /\ ~l.iter.active
        /\ list' = [DropElem([l EXCEPT !.data[ListFindPos(l, pos)] = 0], ListFindPos(l, pos), pos) EXCEPT
                       !.want = RemoveAt(@, pos + 1)]
  BY <1>2 DEF ListExtract, ListIdle
<1>4. /\ pos \in Nat /\ pos + 1 <= l.numels /\ pos \in -1..l.numels /\ l.numels \in Nat
      /\ pos + 1 \in 0..(l.numels + 1)
  BY DEF ListRecord
<1>5. ListFindPos(l, pos) = a[pos + 1]
  BY <1>2, <1>4, FindPosIs DEF ListOK
<1>6. PICK z : z = [l EXCEPT !.data[a[pos + 1]] = 0]
  OBVIOUS
<1>7. /\ z \in ListRecord
      /\ z.next = l.next /\ z.prev = l.prev /\ z.spare = l.spare /\ z.live = l.live /\ z.mid = l.mid
      /\ z.numels = l.numels /\ z.copy = l.copy /\ z.copies = l.copies
      /\ z.iter = l.iter /\ z.want = l.want
      /\ \A x \in Nodes \ {a[pos + 1]} : z.data[x] = l.data[x]
  <2>1. PICK fd : fd = [l.data EXCEPT ![a[pos + 1]] = 0]
    OBVIOUS
  <2>2. fd \in [Nodes -> ListData \cup {0}] /\ \A x \in Nodes \ {a[pos + 1]} : fd[x] = l.data[x]
    BY <2>1 DEF ListRecord
  <2>3. z = [l EXCEPT !.data = fd]
    BY <1>6, <2>1 DEF ListRecord
  <2> QED
    BY <2>2, <2>3 DEF ListRecord
<1>8. PICK t : t = [DropElem(z, a[pos + 1], pos) EXCEPT !.want = RemoveAt(@, pos + 1)]
  OBVIOUS
<1>9. t \in ListRecord /\ \E b : ListOK(t, b)
  BY <1>2, <1>3, <1>4, <1>7, <1>8, DropKeeps
<1>10. list' = t
  BY <1>3, <1>5, <1>6, <1>8
<1> QED
  BY <1>9, <1>10, ListIInvNext

\* ks_list_delete_at, ks_list_delete.
LEMMA ListDeleteAtKeeps ==
    ASSUME ListIInv, NEW pos, ListDeleteAt(pos)
    PROVE  ListIInv'
<1>1. PICK a : ListOK(list, a)
  BY DEF ListIInv
<1>2. PICK l \in ListRecord : l = list /\ ListOK(l, a)
  BY <1>1 DEF ListIInv
<1>3. /\ ~l.iter.active /\ pos \in 0..(l.numels - 1)
      /\ list' = [DropElem(l, ListFindPos(l, pos), pos) EXCEPT !.want = RemoveAt(@, pos + 1)]
  BY <1>2 DEF ListDeleteAt, ListIdle
<1>4. /\ pos \in Nat /\ pos + 1 <= l.numels /\ pos \in -1..l.numels
  BY <1>3 DEF ListRecord
<1>5. ListFindPos(l, pos) = a[pos + 1]
  BY <1>2, <1>4, FindPosIs DEF ListOK
<1>6. PICK t : t = [DropElem(l, a[pos + 1], pos) EXCEPT !.want = RemoveAt(@, pos + 1)]
  OBVIOUS
<1>7. t \in ListRecord /\ \E b : ListOK(t, b)
  BY <1>2, <1>3, <1>4, <1>6, DropKeeps
<1>8. list' = t
  BY <1>3, <1>5, <1>6
<1> QED
  BY <1>7, <1>8, ListIInvNext

\* ks_list_clear.
LEMMA ListClearKeeps ==
    ASSUME ListIInv, ListIdle, list' = Cleared(list)
    PROVE  ListIInv'
<1>1. PICK a : ListOK(list, a)
  BY DEF ListIInv
<1>2. PICK l \in ListRecord : l = list /\ ListOK(l, a)
  BY <1>1 DEF ListIInv
<1>3. Cleared(l) \in ListRecord /\ \E b : ListOK(Cleared(l), b)
  BY <1>2, ClearedKeeps DEF ListIdle
<1> QED
  BY <1>2, <1>3, ListIInvNext

\* ks_list_delete_range.
LEMMA ListDeleteRangeKeeps == ASSUME ListIInv, ListDeleteRange PROVE ListIInv'
<1>1. PICK a : ListOK(list, a)
  BY DEF ListIInv
<1>2. PICK l \in ListRecord : l = list /\ ListOK(l, a)
  BY <1>1 DEF ListIInv
<1>3. PICK posstart \in 0..(l.numels - 1), posend \in 0..(l.numels - 1) :
        /\ ListIdle /\ ~l.iter.active /\ posstart <= posend
        /\ list' = IF posend - posstart + 1 = l.numels THEN Cleared(l)
                   ELSE DeleteRange(l, posstart, posend)
  BY <1>2 DEF ListDeleteRange, ListIdle
<1>4. CASE posend - posstart + 1 = l.numels
  BY <1>2, <1>3, <1>4, ListClearKeeps
<1>5. CASE posend - posstart + 1 # l.numels
  <2>1. PICK r : r = DeleteRange(l, posstart, posend)
    OBVIOUS
  <2>2. r \in ListRecord /\ \E b : ListOK(r, b)
    BY <1>2, <1>3, <1>5, <2>1, DeleteRangeKeeps
  <2>3. list' = r
    BY <1>3, <1>5, <2>1
  <2> QED
    BY <2>2, <2>3, ListIInvNext
<1> QED
  BY <1>4, <1>5

\* ks_list_concat, with a list of the same data or of their first ones.
LEMMA ListConcatKeeps == ASSUME ListIInv, ListConcat PROVE ListIInv'
<1>1. PICK a : ListOK(list, a)
  BY DEF ListIInv
<1>2. PICK l \in ListRecord : l = list /\ ListOK(l, a)
  BY <1>1 DEF ListIInv
<1>3. PICK s \in {Contents(l)} \cup {SubSeq(Contents(l), 1, k) : k \in 0..l.numels}, before \in BOOLEAN :
        /\ Len(s) + l.numels <= MaxEls
        /\ list' = IF before THEN Concat([i \in DOMAIN s |-> l.data[s[i]]], l.want)
                   ELSE Concat(l.want, [i \in DOMAIN s |-> l.data[s[i]]])
  BY <1>2 DEF ListConcat
<1>4. PICK n \in Nat : n = l.numels
  BY DEF ListRecord
<1>5. PICK in \in Seq(ListEntries) : in = Contents(l) /\ Len(in) = n /\ \A i \in 1..n : in[i] = a[i]
  BY <1>2, <1>4, ContentsIs DEF ListOK
<1>6. PICK m \in 0..n : Len(s) = m /\ DOMAIN s = 1..m /\ \A i \in 1..m : s[i] = a[i]
  <2>1. CASE s = Contents(l)
    <3>1. n \in 0..n /\ DOMAIN in = 1..n
      BY <1>5
    <3> QED
      BY <1>5, <2>1, <3>1
  <2>2. CASE s # Contents(l)
    <3>1. PICK k \in 0..n : s = SubSeq(in, 1, k)
      BY <1>3, <1>4, <1>5, <2>2
    <3>2. s \in Seq(ListEntries) /\ Len(s) = k /\ \A i \in 1..k : s[i] = in[i]
      BY <1>5, <3>1, PartOf
    <3>3. DOMAIN s = 1..k /\ \A i \in 1..k : i \in 1..n
      BY <3>2
    <3> QED
      BY <1>5, <3>2, <3>3
  <2> QED
    BY <2>1, <2>2
<1>7. PICK other : other = [i \in 1..m |-> l.data[s[i]]]
  OBVIOUS
<1>8. l.want \in Seq(ListData) /\ Len(l.want) = n /\ \A i \in 1..n : l.data[a[i]] = l.want[i]
  BY <1>2, <1>4 DEF ListOK, Holds, ListRecord
<1>9. other \in Seq(ListData) /\ Len(other) = m
  <2>1. ASSUME NEW i \in 1..m PROVE l.data[s[i]] \in ListData
    <3>1. i \in 1..n
      OBVIOUS
    <3>2. l.data[s[i]] = l.want[i]
      BY <1>6, <1>8, <3>1
    <3>3. l.want[i] \in ListData
      BY <1>8, <3>1
    <3> QED
      BY <3>2, <3>3
  <2>2. other \in [1..m -> ListData] /\ m \in Nat
    BY <1>7, <2>1
  <2> QED
    BY <2>2
<1>10. PICK w : w = l.want
  OBVIOUS
<1>11. Len(other) + Len(w) <= MaxEls /\ Len(w) + Len(other) <= MaxEls
  <2>1. m + n <= MaxEls /\ n + m <= MaxEls
    BY <1>3, <1>4, <1>6, ListConstants
  <2> QED
    BY <1>8, <1>9, <1>10, <2>1
<1>12. PICK t1, t2 : t1 = Concat(other, w) /\ t2 = Concat(w, other)
  OBVIOUS
<1>13. t1 \in ListRecord /\ \E b : ListOK(t1, b)
  BY <1>8, <1>9, <1>10, <1>11, <1>12, ConcatKeeps
<1>14. t2 \in ListRecord /\ \E b : ListOK(t2, b)
  BY <1>8, <1>9, <1>10, <1>11, <1>12, ConcatKeeps
<1>15. list' = t1 \/ list' = t2
  <2>1. [i \in DOMAIN s |-> l.data[s[i]]] = other
    BY <1>6, <1>7
  <2> QED
    BY <1>3, <1>10, <1>12, <2>1
<1>16. CASE list' = t1
  BY <1>13, <1>16, ListIInvNext
<1>17. CASE list' = t2
  BY <1>14, <1>17, ListIInvNext
<1> QED
  BY <1>15, <1>16, <1>17

\* The steps of an iteration.
LEMMA ListIterKeeps ==
    ASSUME ListIInv, MaxIterDeletes <= 1,
           ListIterStart \/ ListIterNext \/ ListIterDelete \/ ListIterStop
    PROVE  ListIInv'
<1>1. PICK a : ListOK(list, a)
  BY DEF ListIInv
<1>2. PICK l \in ListRecord : l = list /\ ListOK(l, a)
  BY <1>1 DEF ListIInv
<1>3. CASE ListIterStart
  <2>1. PICK t : t = [l EXCEPT !.iter = [NoIter EXCEPT !.active = TRUE, !.cur = l.next[HeadNode]]]
    OBVIOUS
  <2>2. t \in ListRecord /\ ListOK(t, a)
    BY <1>2, <2>1, IterStartKeeps
  <2>3. list' = t
    BY <1>2, <1>3, <2>1 DEF ListIterStart
  <2> QED
    BY <2>2, <2>3, ListIInvNext
<1>4. CASE ListIterNext
  <2>1. PICK t : t = [l EXCEPT !.iter.cur = l.next[@], !.iter.last = l.iter.cur, !.iter.pos = @ + 1]
    OBVIOUS
  <2>2. l.iter.active /\ l.iter.pos < l.numels /\ list' = t
    BY <1>2, <1>4, <2>1 DEF ListIterNext
  <2>3. l.numels <= MaxEls
    BY <1>2, LiveCount DEF ListOK
  <2>4. t \in ListRecord /\ ListOK(t, a)
    BY <1>2, <2>1, <2>2, <2>3, IterNextKeeps
  <2> QED
    BY <2>2, <2>4, ListIInvNext
<1>5. CASE ListIterDelete
  <2>1. /\ l.iter.active /\ l.iter.pos <= l.numels /\ l.iter.last # NullNode
        /\ l.iter.deletes < MaxIterDeletes
    BY <1>2, <1>5 DEF ListIterDelete
  <2>2. list' = [DropElem(list, ListFindPos(list, list.iter.pos - 1), list.iter.pos - 1) EXCEPT
                    !.iter.last = NullNode, !.iter.deletes = @ + 1,
                    !.want = RemoveAt(@, SelectInSeq(Contents(list), LAMBDA n : n = list.iter.last))]
    BY <1>5, Zenon DEF ListIterDelete
  <2>3. LET t == [DropElem(list, ListFindPos(list, list.iter.pos - 1), list.iter.pos - 1) EXCEPT
                     !.iter.last = NullNode, !.iter.deletes = @ + 1,
                     !.want = RemoveAt(@, SelectInSeq(Contents(list), LAMBDA n : n = list.iter.last))] IN
        t \in ListRecord /\ \E b : ListOK(t, b)
    BY <1>2, <2>1, IterDeleteKeeps, Zenon
  <2>4. list' \in ListRecord /\ \E b : ListOK(list', b)
    BY <2>2, <2>3, Zenon
  <2> QED
    BY <2>4, ListIInvNext
<1>6. CASE ListIterStop
  <2>1. PICK t : t = [l EXCEPT !.iter = NoIter]
    OBVIOUS
  <2>2. t \in ListRecord /\ ListOK(t, a)
    BY <1>2, <2>1, IterStopKeeps
  <2>3. list' = t
    BY <1>2, <1>6, <2>1 DEF ListIterStop
  <2> QED
    BY <2>2, <2>3, ListIInvNext
<1> QED
  BY <1>3, <1>4, <1>5, <1>6

\* For a list of any size, any data and any number of spare entries: as long
\* as no iteration deletes more than once, the links agree both ways, the
\* middle is the middle, every position is found and holds the datum the calls
\* have put there, spares are no entries, and an iteration goes on with an
\* entry of the list.
THEOREM ListAlwaysSound ==
    ASSUME MaxIterDeletes <= 1
    PROVE  ListSpec => [](ListTypeOK /\ ListSound)
<1>1. ListInit => ListIInv
  <2> SUFFICES ASSUME ListInit PROVE ListIInv
    OBVIOUS
  <2>1. PICK copy \in BOOLEAN : list = NewList(copy)
    BY DEF ListInit
  <2>2. list \in ListRecord /\ \E b : ListOK(list, b)
    BY <2>1, NewListKeeps
  <2> QED
    BY <2>2 DEF ListIInv
<1>2. ListIInv /\ [ListNext]_list => ListIInv'
  <2> SUFFICES ASSUME ListIInv, [ListNext]_list PROVE ListIInv'
    OBVIOUS
  <2>1. CASE ListInsert
    BY <2>1, ListInsertKeeps
  <2>2. CASE ListExtract
    BY <2>2, ListExtractKeeps
  <2>3. CASE ListDelete
    BY <2>3, ListDeleteAtKeeps DEF ListDelete
  <2>4. CASE ListClear
    BY <2>4, ListClearKeeps DEF ListClear
  <2>5. CASE ListDeleteRange
    BY <2>5, ListDeleteRangeKeeps
  <2>6. CASE ListConcat
    BY <2>6, ListConcatKeeps
  <2>7. CASE ListIterStart \/ ListIterNext \/ ListIterDelete \/ ListIterStop
    BY <2>7, ListIterKeeps
  <2>8. CASE list' = list
    BY <2>8 DEF ListIInv
  <2> QED
    BY <2>1, <2>2, <2>3, <2>4, <2>5, <2>6, <2>7, <2>8 DEF ListNext
<1>3. ListIInv => ListTypeOK /\ ListSound
  BY ListIInvMeans
<1> QED
  BY <1>1, <1>2, <1>3, PTL DEF ListSpec
=============================================================================
