------------------------------ MODULE KwsHttp -------------------------------
(***************************************************************************)
(* HTTP over a kws link (src/kws.c): kws_keepalive reads a request into    *)
(* kws->buffer, kws_parse_header takes its head apart and leaves what came *)
(* behind it to the next reads (unprocessed_position), the owner reads the *)
(* body, and kws_request_free ends the request.                            *)
(*                                                                         *)
(* The bytes are units: a request line "l", a header "h", a line end "n",  *)
(* a byte of the body "b", each with the number of its request, and the    *)
(* terminator "0".  kws->buffer keeps what earlier reads left in it.       *)
(***************************************************************************)
EXTENDS Integers, Sequences, FiniteSetsExt, SequencesExt, Functions

CONSTANTS HttpScripts,  \* the sequences of requests a client may send
          BufLen,       \* kws->buflen
          MaxHeaders,   \* KWS_MAX_HEADERS (64)
          MaxSegments,  \* size of argv in clean_uri (64)
          Pipelining    \* does the client wait for an answer? subset of BOOLEAN

VARIABLE http           \* the part of struct kws_s, the request and its owner

HttpMin(a, b) == IF a <= b THEN a ELSE b
Zero == [r |-> 0, k |-> "0"]
Units(r, k, n) == [i \in 1..n |-> [r |-> r, k |-> k]]

(* What the client sends for request r. *)
WireOf(r, q) ==
    LET line == Units(r, "l", 1)  end == Units(r, "n", 1) IN
    FlattenSeq(<<line, end>> \o [i \in 1..2 * Len(q.headers) |->
                  IF i % 2 = 1 THEN Units(r, "h", 1) ELSE end]
               \o <<end, Units(r, "b", q.body)>>)

NewHttp(script, pipelined) ==
    [script |-> script, pipelined |-> pipelined,
     wire |-> IF pipelined
              THEN FlattenSeq([r \in 1..Len(script) |-> WireOf(r, script[r])])
              ELSE <<>>,
     sent |-> IF pipelined THEN Len(script) ELSE 0,
     buffer |-> [i \in 1..BufLen |-> Zero], datalen |-> 0,
     position |-> 1, unprocessed |-> 0,
     pc |-> "wait", request |-> <<>>, body |-> <<>>, served |-> 0]

HttpInit == \E s \in HttpScripts, p \in Pipelining : http = NewHttp(s, p)

(* A client that does not pipeline sends its next request once it got the    *)
(* answer to the last.                                                       *)
ClientSends ==
    /\ http.pc = "wait" /\ http.sent = http.served /\ http.sent < Len(http.script)
    /\ http' = [http EXCEPT !.sent = @ + 1,
                            !.wire = WireOf(http.sent + 1, http.script[http.sent + 1])]

-----------------------------------------------------------------------------
(* kws_raw_read of at most n units to place d of kws->buffer (0: to a buffer *)
(* of the caller): first what is unprocessed, as it is, then from the wire,  *)
(* with a terminator if there is room.  One record [h, got] per outcome.     *)
BufferReads(h, d, n) ==
    IF h.unprocessed > 0
    THEN LET m == HttpMin(h.unprocessed, n) IN
         {[got |-> SubSeq(h.buffer, h.position, h.position + m - 1),
           h |-> [h EXCEPT !.position = @ + m, !.unprocessed = @ - m,
                     !.buffer = [i \in 1..BufLen |->
                         IF d > 0 /\ i \in d..(d + m - 1) THEN h.buffer[h.position + i - d]
                         ELSE @[i]]]]}
    ELSE {[got |-> SubSeq(h.wire, 1, m),
           h |-> [h EXCEPT !.wire = SubSeq(@, m + 1, Len(@)),
                     !.buffer = [i \in 1..BufLen |->
                         IF d > 0 /\ i \in d..(d + m - 1) THEN h.wire[i - d + 1]
                         ELSE IF d > 0 /\ i = d + m /\ m < n THEN Zero ELSE @[i]]]]
             : m \in 1..HttpMin(n, Len(h.wire))}

(* kws_string_read into kws->buffer: a terminator at the end of the place    *)
(* first, before anything is read.                                           *)
HttpStringReads(h, d, size) ==
    IF size < 2 THEN {}
    ELSE BufferReads([h EXCEPT !.buffer[d + size - 1] = Zero], d, size - 1)

(* strstr: where the first empty line of kws->buffer begins, 0 for nowhere.  *)
EmptyLine(buffer) ==
    LET text == SelectInSeq(buffer, LAMBDA u : u = Zero)
        last == IF text = 0 THEN BufLen ELSE text - 1
        at == {i \in 1..(last - 1) : buffer[i].k = "n" /\ buffer[i + 1].k = "n"}
    IN  IF at = {} THEN 0 ELSE Min(at)

(* kws_keepalive: reads until kws->buffer holds an empty line.  The owner    *)
(* calls it when there is something to read (kws_wait_sock).                 *)
KeepAlive ==
    /\ http.pc = "wait" /\ (http.unprocessed > 0 \/ http.wire # <<>>)
    /\ http' = [http EXCEPT !.datalen = 0, !.pc = "head"]

ReadHead ==
    /\ http.pc = "head"
    /\ LET reads == HttpStringReads(http, http.datalen + 1, BufLen - http.datalen) IN
       IF reads = {} THEN http' = [http EXCEPT !.pc = "closed"]   \* full, or nothing comes
       ELSE \E x \in reads :
              http' = [x.h EXCEPT !.datalen = @ + Len(x.got),
                                  !.pc = IF EmptyLine(x.h.buffer) > 0 THEN "parse" ELSE "head"]

-----------------------------------------------------------------------------
(* clean_uri: the segments that are left, or the uri is too deep. *)
CleanUri(segments) ==
    FoldLeft(LAMBDA kept, s : CASE s \in {"", "."} -> kept
                               [] s = ".." -> IF kept = <<>> THEN kept ELSE Front(kept)
                               [] OTHER -> Append(kept, s),
            <<>>, segments)

(* kws_parse_qs: what has a '=' goes to the table until the table is full.   *)
(* The duplicate of the query string that it works on is left out.           *)
ParseQs(total, qs) == HttpMin(MaxHeaders, total + Len(SelectSeq(qs, LAMBDA v : v = "var")))

(* The request of the first line of the buffer, as kws_parse_header sees it, *)
(* with the table of headers; <<>> if it is refused.                         *)
Parsed(h, end) ==
    LET q == h.script[h.buffer[1].r]
        lines == Len(SelectSeq(SubSeq(h.buffer, 1, end), LAMBDA u : u.k = "h"))
        count == HttpMin(lines, MaxHeaders)
    IN  IF \/ h.buffer[1].k # "l" \/ q.line \notin {"1.1", "1.0"}
           \/ Len(q.uri) + 1 >= MaxSegments
           \/ \E i \in 1..count : q.headers[i] = "bad"
        THEN <<>>
        ELSE <<[r |-> h.buffer[1].r, uri |-> CleanUri(q.uri), keepalive |-> q.line = "1.1",
                total |-> ParseQs(count, q.qs), lines |-> lines,
                content_length |-> IF lines = Len(q.headers) THEN q.body ELSE 0]>>

(* Mutant: what was read behind the head is dropped. *)
TakeHeadForgets(h, end) == [h EXCEPT !.datalen = 0]

(* Behind the head, what is left of the buffer moves to its front and waits  *)
(* for the next read; not for a request without headers.                     *)
TakeHead(h, end) ==
    LET n == h.datalen - (end + 1)
        rest == IF n >= 0 THEN n ELSE h.datalen
    IN  IF Parsed(h, end)[1].lines = 0 THEN h
        ELSE IF rest = 0 THEN [h EXCEPT !.datalen = 0]
        ELSE [h EXCEPT !.datalen = rest, !.unprocessed = rest, !.position = 1,
                !.buffer = [i \in 1..BufLen |-> IF i <= rest + 1 /\ end + 1 + i <= BufLen
                                                THEN h.buffer[end + 1 + i] ELSE @[i]]]

ParseRequest ==
    /\ http.pc = "parse"
    /\ LET end == EmptyLine(http.buffer)
           q == Parsed(http, end)
       IN  http' = IF q = <<>> THEN [http EXCEPT !.pc = "closed"]
                   ELSE [TakeHead(http, end) EXCEPT !.pc = "body", !.request = q, !.body = <<>>]

-----------------------------------------------------------------------------
(* The owner reads the rest of the body, to its own buffer with              *)
(* kws_string_read or to kws->buffer with kws_read_buffer.                   *)
Missing == http.request[1].content_length - Len(http.body)

ReadBody ==
    /\ http.pc = "body" /\ Missing > 0
    /\ LET reads == BufferReads(http, 0, Missing)
                    \cup HttpStringReads(http, 1, HttpMin(Missing + 1, BufLen))
       IN  IF reads = {} THEN http' = [http EXCEPT !.pc = "closed"]
           ELSE \E x \in reads : http' = [x.h EXCEPT !.body = @ \o x.got]

(* A form in the body goes to the same table (kws_parse_qs); the request is  *)
(* answered and freed, and the link stays up if the client asked for it.     *)
Answer ==
    /\ http.pc = "body" /\ Missing <= 0
    /\ http' = [http EXCEPT !.pc = IF http.request[1].keepalive THEN "wait" ELSE "closed",
                            !.request = <<>>, !.body = <<>>, !.served = @ + 1]

(* The client has nothing more to say, or goes. *)
ClientLeaves ==
    /\ http.pc = "wait"
    /\ http' = [http EXCEPT !.pc = "closed"]

HttpNext == ClientSends \/ KeepAlive \/ ReadHead \/ ParseRequest \/ ReadBody \/ Answer
            \/ ClientLeaves

-----------------------------------------------------------------------------
(* Every field holds a value of its type; what is unprocessed lies in the buffer. *)
HttpTypeOK ==
    /\ http.pc \in {"wait", "head", "parse", "body", "closed"}
    /\ Len(http.buffer) = BufLen /\ http.datalen \in 0..BufLen
    /\ http.unprocessed > 0 => http.position + http.unprocessed - 1 <= BufLen

(* Which names of a uri are left when "..", "." and "//" are resolved: those  *)
(* that no later ".." takes back.                                             *)
UriReference(segments) ==
    LET Named(i) == segments[i] \notin {"", ".", ".."}
        Ups(i, j) == Cardinality({k \in (i + 1)..j : segments[k] = ".."})
        Names(i, j) == Cardinality({k \in (i + 1)..j : Named(k)})
        n == Len(segments)
        kept == {i \in 1..n : Named(i) /\ \A j \in i..n : Ups(i, j) <= Names(i, j)}
    IN  [i \in 1..Cardinality(kept) |->
            segments[CHOOSE k \in kept : Cardinality({j \in kept : j < k}) = i - 1]]

(* A client that waits for its answers is served its requests one after the   *)
(* other, whatever pieces they arrive in: the head is taken apart as it was   *)
(* sent, its uri is the resolved one, the table of headers holds what fits,   *)
(* and the body is read from the first byte behind the head.                  *)
RequestsServed ==
    http.pc = "body" /\ ~http.pipelined =>
        LET q == http.script[http.sent]  got == http.request[1] IN
        /\ got.r = http.sent /\ http.served = http.sent - 1
        /\ got.uri = UriReference(q.uri)
        /\ got.total = HttpMin(MaxHeaders, Len(q.headers) + Cardinality({i \in DOMAIN q.qs : q.qs[i] = "var"}))
        /\ IsPrefix(http.body, Units(http.sent, "b", q.body))
        /\ Missing > 0 => http.unprocessed > 0 \/ http.wire # <<>>
=============================================================================
