------------------------------ MODULE KwsProofs ------------------------------
(***************************************************************************)
(* Proofs about KwsLink, for any limits and any way to set up the link,    *)
(* and about KwsFrame, for any frames of the peer and any way the stream   *)
(* is cut.                                                                 *)
(***************************************************************************)
EXTENDS KwsLink, KwsFrame, SequenceTheorems, WellFoundedInduction, TLAPS

-----------------------------------------------------------------------------
(* The inductive invariant                                                 *)

\* Where the calls in progress return to.
InitStacks == {<<"init">>, <<"refused", "init">>, <<"failed">>, <<"destroy", "failed">>}
UserStacks == {<<"read">>, <<"refused", "read">>, <<"user">>, <<"destroy", "user">>}

LinkStacks == {<<>>} \cup InitStacks \cup UserStacks

CtxKinds == {"none", "own", "callers"}
SslKinds == {"none", "live", "freed"}
FdKinds == {"none", "open", "closed"}
Tries == 0..InitSanity
Polls == 0..SoftN
Once == {0, 1}
Clock == 0..Deadline
Levels == {0, 1, 2}

LinkRecord ==
    [c : LinkCasts, pc : LinkSteps, stack : LinkStacks, ctx : CtxKinds, ctx_frees : Once,
     destroy_ssl_ctx : BOOLEAN, ssl : SslKinds, sock : BOOLEAN, fd : FdKinds,
     down : Levels, sanity : Tries, block : BOOLEAN, secure_established : BOOLEAN,
     ssl_io_error : BOOLEAN, received_shutdown : BOOLEAN, handshake : BOOLEAN,
     logical_established : BOOLEAN, n : Polls, elapsed : Clock,
     goodbyes : Once, freed : BOOLEAN, unclosed : BOOLEAN, nonblock : BOOLEAN,
     peer : Peers]

Closing == {"shutdown", "drain", "closing"}

\* Who called whom: a refused upgrade and kws_destroy call kws_close only on a
\* link that is not down yet.
Called(k) ==
    /\ k.pc \in {"start", "resolve", "init", "user", "reading", "gone"} => k.stack = <<>>
    /\ k.pc \in {"tls", "upgrade"} => k.stack \in {<<"init">>, <<"read">>}
    /\ k.pc \in {"close"} \cup Closing =>
         k.stack \in {<<"user">>, <<"destroy", "user">>, <<"destroy", "failed">>,
                      <<"refused", "init">>, <<"refused", "read">>}
    /\ k.pc = "destroy" => k.stack \in {<<"user">>, <<"failed">>}
    /\ k.pc = "close" /\ k.stack # <<"user">> => k.down = 0

\* kws_connect_ex owns the context until it has succeeded, the link from then
\* on; nobody frees it before the end.
Owner(k) ==
    /\ k.pc # "gone" => k.ctx_frees = 0
    /\ k.pc \in {"start", "resolve", "init"} \/ k.stack \in InitStacks => ~k.destroy_ssl_ctx
    /\ k.pc \in {"user", "reading"} \/ k.stack \in UserStacks => (k.destroy_ssl_ctx <=> k.ctx = "own")
    /\ k.pc = "start" => k.ctx # "own"
    /\ k.pc = "gone" => k.ctx_frees = IF k.ctx = "own" THEN 1 ELSE 0
    /\ k.pc \in {"start", "resolve", "init", "gone"} => k.ssl # "live"

\* The descriptor is open only while the link has its socket; a link that is
\* down has given the socket up or knows that nobody will close it.
Descriptor(k) ==
    /\ k.c.close_sock /\ k.fd = "open" => k.sock
    /\ k.down > 0 /\ k.pc \notin Closing => k.unclosed \/ ~k.sock
    /\ k.pc \in {"start", "resolve"} => k.fd = "none"
    /\ k.pc \in {"start", "resolve", "init"} => k.down = 0
    /\ k.pc = "gone" => k.down > 0 \/ k.fd = "none"
    /\ k.pc \in Closing => k.down = 1

\* Good-bye is said by the first kws_close only.
Farewell(k) ==
    /\ k.down = 0 => k.goodbyes = 0
    /\ k.goodbyes = 1 => k.handshake

Counted(k) == k.pc \in {"shutdown", "drain"} => k.n < SoftN

LinkOK(k) == Called(k) /\ Owner(k) /\ Descriptor(k) /\ Farewell(k) /\ Counted(k)

LinkIInv == lnk \in LinkRecord /\ LinkOK(lnk)

-----------------------------------------------------------------------------
\* What the calls make of the stacks.
LEMMA Stacks ==
    /\ \A x : <<x>> \o <<>> = <<x>> /\ Head(<<x>>) = x /\ Tail(<<x>>) = <<>>
    /\ \A x, y : <<x>> \o <<y>> = <<x, y>> /\ Head(<<x, y>>) = x /\ Tail(<<x, y>>) = <<y>>
<1>1. ASSUME NEW x PROVE <<x>> \o <<>> = <<x>>
  OBVIOUS
<1>2. ASSUME NEW x PROVE Head(<<x>>) = x
  OBVIOUS
<1>3. ASSUME NEW x PROVE Tail(<<x>>) = <<>>
  OBVIOUS
<1>4. ASSUME NEW x, NEW y PROVE <<x>> \o <<y>> = <<x, y>>
  <2>1. <<x>> \in Seq({x, y}) /\ <<y>> \in Seq({x, y}) /\ <<x, y>> \in Seq({x, y})
    OBVIOUS
  <2>2. Len(<<x>>) = 1 /\ Len(<<y>>) = 1 /\ Len(<<x, y>>) = 2
    OBVIOUS
  <2>3. /\ <<x>> \o <<y>> \in Seq({x, y}) /\ Len(<<x>> \o <<y>>) = 2
        /\ (<<x>> \o <<y>>)[1] = x /\ (<<x>> \o <<y>>)[2] = y
    BY <2>1, <2>2, ConcatProperties
  <2>4. \A i \in 1..2 : (<<x>> \o <<y>>)[i] = <<x, y>>[i]
    <3>1. \A i \in 1..2 : i = 1 \/ i = 2
      OBVIOUS
    <3> QED
      BY <2>3, <3>1
  <2> QED
    BY <2>1, <2>2, <2>3, <2>4, SeqEqual
<1>5. ASSUME NEW x, NEW y PROVE Head(<<x, y>>) = x
  OBVIOUS
<1>6. ASSUME NEW x, NEW y PROVE Tail(<<x, y>>) = <<y>>
  OBVIOUS
<1> QED
  BY <1>1, <1>2, <1>3, <1>4, <1>5, <1>6

\* Which side each stack is on.
LEMMA StackKinds ==
    /\ <<>> \notin InitStacks /\ <<>> \notin UserStacks
    /\ \A s \in InitStacks : s \notin UserStacks
    /\ \A s \in {<<"init">>, <<"refused", "init">>, <<"failed">>, <<"destroy", "failed">>} : s \in InitStacks
    /\ \A s \in {<<"read">>, <<"refused", "read">>, <<"user">>, <<"destroy", "user">>} : s \in UserStacks
<1>1. <<>> \notin InitStacks /\ <<>> \notin UserStacks
  <2>1. \A x, y : <<>> # <<x>> /\ <<>> # <<x, y>>
    OBVIOUS
  <2> QED
    BY <2>1 DEF InitStacks, UserStacks
<1>2. \A s \in InitStacks : s \notin UserStacks
  BY DEF InitStacks, UserStacks
<1> QED
  BY <1>1, <1>2 DEF InitStacks, UserStacks

\* The same, stack by stack.
LEMMA Sides ==
    /\ <<"init">> \in InitStacks /\ <<"init">> \notin UserStacks
    /\ <<"refused", "init">> \in InitStacks /\ <<"refused", "init">> \notin UserStacks
    /\ <<"failed">> \in InitStacks /\ <<"failed">> \notin UserStacks
    /\ <<"destroy", "failed">> \in InitStacks /\ <<"destroy", "failed">> \notin UserStacks
    /\ <<"read">> \in UserStacks /\ <<"read">> \notin InitStacks
    /\ <<"refused", "read">> \in UserStacks /\ <<"refused", "read">> \notin InitStacks
    /\ <<"user">> \in UserStacks /\ <<"user">> \notin InitStacks
    /\ <<"destroy", "user">> \in UserStacks /\ <<"destroy", "user">> \notin InitStacks
BY StackKinds

\* What a step needs to know of the link.
LEMMA OneLink ==
    ASSUME LinkIInv PROVE \E k \in LinkRecord : k = lnk /\ LinkOK(k)
BY DEF LinkIInv

\* establish_logical_layer returns into kws_init_ex or into kws_read_frame.
LEMMA ReturnKeeps ==
    ASSUME NEW k \in LinkRecord, LinkOK(k), k.pc \in {"tls", "upgrade"}, NEW r \in {-2, -1, 0}
    PROVE  Return(k, r) \in LinkRecord /\ LinkOK(Return(k, r))
<1>1. k.stack \in {<<"init">>, <<"read">>}
  BY DEF LinkOK, Called
<1>2. k.c \in LinkCasts /\ k.c.block \in BOOLEAN
  BY DEF LinkRecord, LinkCasts
<1>a. PICK b \in BOOLEAN : b = StaysNonblock(k)
  BY DEF StaysNonblock
<1>3. CASE k.stack = <<"read">>
  <2> DEFINE x == [k EXCEPT !.stack = <<>>, !.block = k.c.block, !.nonblock = b,
                            !.pc = IF r < 0 THEN "user" ELSE "reading"]
  <2>1. Return(k, r) = x
    <3>1. Head(k.stack) = "read" /\ Tail(k.stack) = <<>>
      BY <1>3, Stacks
    <3> DEFINE k1 == [k EXCEPT !.stack = <<>>, !.block = k.c.block, !.nonblock = b]
    <3> DEFINE k2 == [k EXCEPT !.stack = Tail(k.stack), !.block = k.c.block,
                               !.nonblock = StaysNonblock(k)]
    <3>a. k2 = k1
      BY <1>a, <3>1
    <3>b. Head(k.stack) = "read" => Return(k, r) = [k2 EXCEPT !.pc = IF r < 0 THEN "user" ELSE "reading"]
      BY DEF Return
    <3> HIDE DEF k1, k2
    <3>2. Return(k, r) = [k1 EXCEPT !.pc = IF r < 0 THEN "user" ELSE "reading"]
      BY <3>1, <3>a, <3>b
    <3> QED
      BY <3>2 DEF LinkRecord, k1
  <2>2. x \in LinkRecord
    BY <1>2, ZenonT(60) DEF LinkRecord, LinkSteps, LinkStacks
  <2>3. LinkOK(x)
    BY <1>3 DEF LinkRecord, LinkOK, Called, Owner, Descriptor, Farewell, Counted, Closing,
       InitStacks, UserStacks
  <2> QED
    BY <2>1, <2>2, <2>3
<1>4. CASE k.stack = <<"init">>
  <2>1. \/ Return(k, r) = [k EXCEPT !.pc = "tls"]
        \/ Return(k, r) = [k EXCEPT !.stack = <<"failed">>, !.block = k.c.block, !.nonblock = b, !.pc = "destroy"]
        \/ Return(k, r) = [k EXCEPT !.stack = <<>>, !.block = k.c.block, !.nonblock = b, !.pc = "user",
                                    !.destroy_ssl_ctx = (k.ctx = "own")]
    <3>1. Head(k.stack) = "init" /\ Tail(k.stack) = <<>> /\ <<"failed">> \o <<>> = <<"failed">>
      BY <1>4, Stacks
    <3> DEFINE k1 == [k EXCEPT !.stack = <<>>, !.block = k.c.block, !.nonblock = b]
    <3>2. k1.stack = <<>>
      BY DEF LinkRecord
    <3> DEFINE k2 == [k EXCEPT !.stack = Tail(k.stack), !.block = k.c.block,
                               !.nonblock = StaysNonblock(k)]
    <3>a. k2 = k1
      BY <1>a, <3>1
    <3>b. /\ Head(k.stack) # "read"
          /\ Return(k, r) = IF Head(k.stack) = "read" THEN [k2 EXCEPT !.pc = IF r < 0 THEN "user" ELSE "reading"]
              ELSE IF k.c.timed /\ r = -2 /\ k.elapsed < Deadline THEN [k EXCEPT !.pc = "tls"]
              ELSE IF r = -1 \/ k.down > 0 \/ (k.c.timed /\ r = -2) THEN Call(k2, "destroy", "failed")
              ELSE [k2 EXCEPT !.pc = "user", !.destroy_ssl_ctx = k.ctx = "own"]
      BY <3>1 DEF Return
    <3> HIDE DEF k1, k2
    <3>3. \/ Return(k, r) = [k EXCEPT !.pc = "tls"]
          \/ Return(k, r) = Call(k1, "destroy", "failed")
          \/ Return(k, r) = [k1 EXCEPT !.pc = "user", !.destroy_ssl_ctx = (k.ctx = "own")]
      BY <3>a, <3>b
    <3>4. Call(k1, "destroy", "failed") = [k1 EXCEPT !.pc = "destroy", !.stack = <<"failed">>]
      BY <3>1, <3>2 DEF Call
    <3>5. /\ [k1 EXCEPT !.pc = "destroy", !.stack = <<"failed">>]
               = [k EXCEPT !.stack = <<"failed">>, !.block = k.c.block, !.nonblock = b, !.pc = "destroy"]
          /\ [k1 EXCEPT !.pc = "user", !.destroy_ssl_ctx = (k.ctx = "own")]
               = [k EXCEPT !.stack = <<>>, !.block = k.c.block, !.nonblock = b, !.pc = "user",
                           !.destroy_ssl_ctx = (k.ctx = "own")]
      BY DEF LinkRecord, k1
    <3> QED
      BY <3>3, <3>4, <3>5
  <2>2. CASE Return(k, r) = [k EXCEPT !.pc = "tls"]
    <3>1. Return(k, r) \in LinkRecord
      BY <2>2 DEF LinkRecord, LinkSteps
    <3>2. LinkOK(Return(k, r))
      BY <1>4, <2>2 DEF LinkRecord, LinkOK, Called, Owner, Descriptor, Farewell, Counted, Closing
    <3> QED
      BY <3>1, <3>2
  <2>3. CASE Return(k, r) = [k EXCEPT !.stack = <<"failed">>, !.block = k.c.block, !.nonblock = b,
                                      !.pc = "destroy"]
    <3>1. Return(k, r) \in LinkRecord
      BY <1>2, <2>3, ZenonT(60) DEF LinkRecord, LinkSteps, LinkStacks, InitStacks
    <3>2. LinkOK(Return(k, r))
      BY <1>4, <2>3 DEF LinkRecord, LinkOK, Called, Owner, Descriptor, Farewell, Counted, Closing,
         InitStacks, UserStacks
    <3> QED
      BY <3>1, <3>2
  <2>4. CASE Return(k, r) = [k EXCEPT !.stack = <<>>, !.block = k.c.block, !.nonblock = b, !.pc = "user",
                                      !.destroy_ssl_ctx = (k.ctx = "own")]
    <3>1. Return(k, r) \in LinkRecord
      BY <1>2, <2>4, ZenonT(60) DEF LinkRecord, LinkSteps, LinkStacks
    <3>2. LinkOK(Return(k, r))
      <4> DEFINE x == Return(k, r)
      <4>1. PICK own \in BOOLEAN : own <=> k.ctx = "own"
        OBVIOUS
      <4>2. x = [k EXCEPT !.stack = <<>>, !.block = k.c.block, !.nonblock = b, !.pc = "user",
                          !.destroy_ssl_ctx = own]
        BY <2>4, <4>1
      <4> HIDE DEF x
      <4>3. Called(x) /\ Descriptor(x) /\ Farewell(x) /\ Counted(x)
        BY <1>4, <4>2 DEF LinkRecord, LinkOK, Called, Descriptor, Farewell, Counted, Closing
      <4>4. Owner(x)
        BY <1>4, <4>1, <4>2 DEF LinkRecord, LinkOK, Owner, InitStacks, UserStacks
      <4> QED
        BY <4>3, <4>4 DEF LinkOK, x
    <3> QED
      BY <3>1, <3>2
  <2> QED
    BY <2>1, <2>2, <2>3, <2>4
<1> QED
  BY <1>1, <1>3, <1>4

\* A url is good or bad; a wss url may need a context.
LEMMA ConnectUrlKeeps ==
    ASSUME LinkIInv, ConnectUrl PROVE LinkIInv'
<1>1. PICK k \in LinkRecord : k = lnk /\ LinkOK(k)
  BY OneLink
<1>2. /\ k.pc = "start"
      /\ \/ lnk' = [k EXCEPT !.pc = "resolve", !.ctx = "own"]
         \/ lnk' = [k EXCEPT !.pc = "resolve", !.ctx = k.ctx]
         \/ lnk' = [k EXCEPT !.pc = "gone"]
  BY <1>1 DEF LinkRecord, ConnectUrl
<1>3. CASE lnk' = [k EXCEPT !.pc = "resolve", !.ctx = "own"]
  <2> DEFINE x == [k EXCEPT !.pc = "resolve", !.ctx = "own"]
  <2>1. "resolve" \in LinkSteps /\ "own" \in CtxKinds
    BY <1>1, <1>2, <1>3, LinkConstants DEF LinkRecord, CtxKinds, LinkSteps
  <2>2. x \in LinkRecord
    BY <1>1, <2>1, ZenonT(60) DEF LinkRecord
  <2>3. Called(x) /\ Descriptor(x)
    BY <1>1, <1>2, <1>3 DEF LinkRecord, LinkOK, Called, Descriptor, Closing
  <2>4. Owner(x)
    BY <1>1, <1>2, <1>3, StackKinds DEF LinkRecord, LinkOK, Called, Owner, Closing
  <2>5. Farewell(x) /\ Counted(x)
    BY <1>1, <1>2, <1>3, LinkConstants DEF LinkRecord, LinkOK, Farewell, Counted
  <2> QED
    BY <1>3, <2>2, <2>3, <2>4, <2>5 DEF LinkIInv, LinkOK
<1>4. CASE lnk' = [k EXCEPT !.pc = "resolve", !.ctx = k.ctx]
  <2> DEFINE x == [k EXCEPT !.pc = "resolve", !.ctx = k.ctx]
  <2>1. "resolve" \in LinkSteps /\ k.ctx \in CtxKinds
    BY <1>1, <1>2, <1>4, LinkConstants DEF LinkRecord, CtxKinds, LinkSteps
  <2>2. x \in LinkRecord
    BY <1>1, <2>1, ZenonT(60) DEF LinkRecord
  <2>3. Called(x) /\ Descriptor(x)
    BY <1>1, <1>2, <1>4 DEF LinkRecord, LinkOK, Called, Descriptor, Closing
  <2>4. Owner(x)
    BY <1>1, <1>2, <1>4, StackKinds DEF LinkRecord, LinkOK, Called, Owner, Closing
  <2>5. Farewell(x) /\ Counted(x)
    BY <1>1, <1>2, <1>4, LinkConstants DEF LinkRecord, LinkOK, Farewell, Counted
  <2> QED
    BY <1>4, <2>2, <2>3, <2>4, <2>5 DEF LinkIInv, LinkOK
<1>5. CASE lnk' = [k EXCEPT !.pc = "gone"]
  <2> DEFINE x == [k EXCEPT !.pc = "gone"]
  <2>1. "gone" \in LinkSteps
    BY <1>1, <1>2, <1>5, LinkConstants DEF LinkRecord, LinkSteps
  <2>2. x \in LinkRecord
    BY <1>1, <2>1 DEF LinkRecord
  <2>3. Called(x) /\ Descriptor(x)
    BY <1>1, <1>2, <1>5 DEF LinkRecord, LinkOK, Called, Descriptor, Closing
  <2>4. Owner(x)
    BY <1>1, <1>2, <1>5, StackKinds DEF LinkRecord, LinkOK, Called, Owner, Closing
  <2>5. Farewell(x) /\ Counted(x)
    BY <1>1, <1>2, <1>5, LinkConstants DEF LinkRecord, LinkOK, Farewell, Counted
  <2> QED
    BY <1>5, <2>2, <2>3, <2>4, <2>5 DEF LinkIInv, LinkOK
<1> QED
  BY <1>2, <1>3, <1>4, <1>5

\* No name, a socket, or an invalid one.
LEMMA ConnectSocketKeeps ==
    ASSUME LinkIInv, ConnectSocket PROVE LinkIInv'
<1>1. PICK k \in LinkRecord : k = lnk /\ LinkOK(k)
  BY OneLink
<1>2. /\ k.pc = "resolve"
      /\ \/ lnk' = [k EXCEPT !.pc = "gone", !.ctx_frees = IF k.ctx = "own" THEN 1 ELSE 0]
         \/ lnk' = [k EXCEPT !.pc = "init", !.sock = TRUE, !.fd = "open"]
         \/ lnk' = [k EXCEPT !.pc = "init", !.sock = FALSE, !.fd = "none"]
  <2>1. k.pc = "resolve" /\ k.ctx_frees = 0 /\ k.ctx_frees + 1 = 1
    <3>1. k.pc = "resolve"
      BY <1>1 DEF ConnectSocket
    <3> QED
      BY <1>1, <3>1 DEF LinkOK, Owner
  <2>2. ConnectErr(k) = [k EXCEPT !.pc = "gone", !.ctx_frees = IF k.ctx = "own" THEN 1 ELSE 0]
    BY <2>1 DEF ConnectErr
  <2> QED
    BY <1>1, <2>1, <2>2 DEF ConnectSocket
<1>3. CASE lnk' = [k EXCEPT !.pc = "gone", !.ctx_frees = IF k.ctx = "own" THEN 1 ELSE 0]
  <2> DEFINE x == [k EXCEPT !.pc = "gone", !.ctx_frees = IF k.ctx = "own" THEN 1 ELSE 0]
  <2>1. "gone" \in LinkSteps /\ (IF k.ctx = "own" THEN 1 ELSE 0) \in Once
    BY <1>1, <1>2, <1>3, LinkConstants DEF LinkRecord, LinkSteps, Once
  <2>2. x \in LinkRecord
    BY <1>1, <2>1, ZenonT(60) DEF LinkRecord
  <2>3. Called(x) /\ Descriptor(x)
    BY <1>1, <1>2, <1>3 DEF LinkRecord, LinkOK, Called, Descriptor, Closing
  <2>4. Owner(x)
    BY <1>1, <1>2, <1>3, StackKinds DEF LinkRecord, LinkOK, Called, Owner, Closing
  <2>5. Farewell(x) /\ Counted(x)
    BY <1>1, <1>2, <1>3, LinkConstants DEF LinkRecord, LinkOK, Farewell, Counted
  <2> QED
    BY <1>3, <2>2, <2>3, <2>4, <2>5 DEF LinkIInv, LinkOK
<1>4. CASE lnk' = [k EXCEPT !.pc = "init", !.sock = TRUE, !.fd = "open"]
  <2> DEFINE x == [k EXCEPT !.pc = "init", !.sock = TRUE, !.fd = "open"]
  <2>1. "init" \in LinkSteps /\ TRUE \in BOOLEAN /\ "open" \in FdKinds
    BY <1>1, <1>2, <1>4, LinkConstants DEF LinkRecord, FdKinds, LinkSteps
  <2>2. x \in LinkRecord
    BY <1>1, <2>1 DEF LinkRecord
  <2>3. Called(x) /\ Descriptor(x)
    BY <1>1, <1>2, <1>4 DEF LinkRecord, LinkOK, Called, Descriptor, Closing
  <2>4. Owner(x)
    BY <1>1, <1>2, <1>4, StackKinds DEF LinkRecord, LinkOK, Called, Owner, Closing
  <2>5. Farewell(x) /\ Counted(x)
    BY <1>1, <1>2, <1>4, LinkConstants DEF LinkRecord, LinkOK, Farewell, Counted
  <2> QED
    BY <1>4, <2>2, <2>3, <2>4, <2>5 DEF LinkIInv, LinkOK
<1>5. CASE lnk' = [k EXCEPT !.pc = "init", !.sock = FALSE, !.fd = "none"]
  <2> DEFINE x == [k EXCEPT !.pc = "init", !.sock = FALSE, !.fd = "none"]
  <2>1. "init" \in LinkSteps /\ FALSE \in BOOLEAN /\ "none" \in FdKinds
    BY <1>1, <1>2, <1>5, LinkConstants DEF LinkRecord, FdKinds, LinkSteps
  <2>2. x \in LinkRecord
    BY <1>1, <2>1, ZenonT(60) DEF LinkRecord
  <2>3. Called(x) /\ Descriptor(x)
    BY <1>1, <1>2, <1>5 DEF LinkRecord, LinkOK, Called, Descriptor, Closing
  <2>4. Owner(x)
    BY <1>1, <1>2, <1>5, StackKinds DEF LinkRecord, LinkOK, Called, Owner, Closing
  <2>5. Farewell(x) /\ Counted(x)
    BY <1>1, <1>2, <1>5, LinkConstants DEF LinkRecord, LinkOK, Farewell, Counted
  <2> QED
    BY <1>5, <2>2, <2>3, <2>4, <2>5 DEF LinkIInv, LinkOK
<1> QED
  BY <1>2, <1>3, <1>4, <1>5

\* A server is given its socket.
LEMMA AcceptSocketKeeps ==
    ASSUME LinkIInv, AcceptSocket PROVE LinkIInv'
<1>1. PICK k \in LinkRecord : k = lnk /\ LinkOK(k)
  BY OneLink
<1>2. /\ k.pc = "start"
      /\ \/ lnk' = [k EXCEPT !.pc = "init", !.sock = TRUE, !.fd = "open"]
  BY <1>1 DEF LinkRecord, AcceptSocket
<1>3. CASE lnk' = [k EXCEPT !.pc = "init", !.sock = TRUE, !.fd = "open"]
  <2> DEFINE x == [k EXCEPT !.pc = "init", !.sock = TRUE, !.fd = "open"]
  <2>1. "init" \in LinkSteps /\ TRUE \in BOOLEAN /\ "open" \in FdKinds
    BY <1>1, <1>2, <1>3, LinkConstants DEF LinkRecord, FdKinds, LinkSteps
  <2>2. x \in LinkRecord
    BY <1>1, <2>1 DEF LinkRecord
  <2>3. Called(x) /\ Descriptor(x)
    BY <1>1, <1>2, <1>3 DEF LinkRecord, LinkOK, Called, Descriptor, Closing
  <2>4. Owner(x)
    BY <1>1, <1>2, <1>3, StackKinds DEF LinkRecord, LinkOK, Called, Owner, Closing
  <2>5. Farewell(x) /\ Counted(x)
    BY <1>1, <1>2, <1>3, LinkConstants DEF LinkRecord, LinkOK, Farewell, Counted
  <2> QED
    BY <1>3, <2>2, <2>3, <2>4, <2>5 DEF LinkIInv, LinkOK
<1> QED
  BY <1>2, <1>3

\* kws_init_ex calls establish_logical_layer.
LEMMA InitLinkKeeps ==
    ASSUME LinkIInv, InitLink PROVE LinkIInv'
<1>1. PICK k \in LinkRecord : k = lnk /\ LinkOK(k)
  BY OneLink
<1>2. /\ k.pc = "init"
      /\ \/ \E b, o \in BOOLEAN : lnk' = [k EXCEPT !.pc = "tls", !.stack = <<"init">>,
                                                !.sanity = InitSanity, !.block = b, !.nonblock = o]
  <2>1. k.pc = "init" /\ k.stack = <<>>
    BY <1>1 DEF InitLink, LinkOK, Called
  <2>2. Call(k, "tls", "init") = [k EXCEPT !.pc = "tls", !.stack = <<"init">>]
    BY <2>1, Stacks DEF Call
  <2> DEFINE b == k.block /\ ~k.c.timed
  <2>3. b \in BOOLEAN /\ k.sock \in BOOLEAN
    BY DEF LinkRecord
  <2>4. lnk' = [Call(k, "tls", "init") EXCEPT !.sanity = InitSanity, !.block = b,
                                             !.nonblock = k.sock]
    <3>1. Call(k, "tls", "init").block = k.block
      BY <2>2 DEF LinkRecord
    <3> QED
      BY <1>1, <3>1 DEF InitLink
  <2> HIDE DEF b
  <2> QED
    BY <2>1, <2>2, <2>3, <2>4
<1>3. CASE \E b, o \in BOOLEAN : lnk' = [k EXCEPT !.pc = "tls", !.stack = <<"init">>,
                                               !.sanity = InitSanity, !.block = b, !.nonblock = o]
  <2>1. PICK b, o \in BOOLEAN : lnk' = [k EXCEPT !.pc = "tls", !.stack = <<"init">>,
                                              !.sanity = InitSanity, !.block = b, !.nonblock = o]
    BY <1>3
  <2> DEFINE x == [k EXCEPT !.pc = "tls", !.stack = <<"init">>, !.sanity = InitSanity,
                            !.block = b, !.nonblock = o]
  <2>2. "tls" \in LinkSteps /\ <<"init">> \in LinkStacks /\ InitSanity \in Tries /\ b \in BOOLEAN /\ o \in BOOLEAN
    BY LinkConstants DEF LinkStacks, InitStacks, UserStacks, LinkSteps, Tries
  <2>3. x \in LinkRecord
    BY <1>1, <2>2, ZenonT(60) DEF LinkRecord
  <2>4. Called(x) /\ Descriptor(x)
    BY <1>1, <1>2, <2>1 DEF LinkRecord, LinkOK, Called, Descriptor, Closing
  <2>5. Owner(x)
    BY <1>1, <1>2, <2>1, StackKinds DEF LinkRecord, LinkOK, Called, Owner, Closing
  <2>6. Farewell(x) /\ Counted(x)
    BY <1>1, <1>2, <2>1, LinkConstants DEF LinkRecord, LinkOK, Farewell, Counted
  <2> QED
    BY <2>1, <2>3, <2>4, <2>5, <2>6 DEF LinkIInv, LinkOK
<1> QED
  BY <1>2, <1>3

\* A read drives the handshake first.
LEMMA UserReadKeeps ==
    ASSUME LinkIInv, UserRead PROVE LinkIInv'
<1>1. PICK k \in LinkRecord : k = lnk /\ LinkOK(k)
  BY OneLink
<1>2. /\ k.pc = "user"
      /\ \/ lnk' = [k EXCEPT !.pc = "tls", !.stack = <<"read">>]
  <2>1. k.pc = "user" /\ lnk' = Call(k, "tls", "read")
    BY <1>1 DEF UserRead
  <2>2. k.stack = <<>>
    BY <1>1, <2>1 DEF LinkOK, Called
  <2>3. Call(k, "tls", "read") = [k EXCEPT !.pc = "tls", !.stack = <<"read">>]
    BY <2>2, Stacks DEF Call
  <2> QED
    BY <2>1, <2>3
<1>3. CASE lnk' = [k EXCEPT !.pc = "tls", !.stack = <<"read">>]
  <2> DEFINE x == [k EXCEPT !.pc = "tls", !.stack = <<"read">>]
  <2>1. "tls" \in LinkSteps /\ <<"read">> \in LinkStacks
    BY <1>1, <1>2, <1>3, LinkConstants DEF LinkRecord, LinkStacks, InitStacks, UserStacks, LinkSteps
  <2>2. x \in LinkRecord
    BY <1>1, <2>1, ZenonT(60) DEF LinkRecord
  <2>3. Called(x) /\ Descriptor(x)
    BY <1>1, <1>2, <1>3 DEF LinkRecord, LinkOK, Called, Descriptor, Closing
  <2>4. Owner(x)
    BY <1>1, <1>2, <1>3, StackKinds DEF LinkRecord, LinkOK, Called, Owner, Closing
  <2>5. Farewell(x) /\ Counted(x)
    BY <1>1, <1>2, <1>3, LinkConstants DEF LinkRecord, LinkOK, Farewell, Counted
  <2> QED
    BY <1>3, <2>2, <2>3, <2>4, <2>5 DEF LinkIInv, LinkOK
<1> QED
  BY <1>2, <1>3

\* The owner closes.
LEMMA UserCloseKeeps ==
    ASSUME LinkIInv, UserClose PROVE LinkIInv'
<1>1. PICK k \in LinkRecord : k = lnk /\ LinkOK(k)
  BY OneLink
<1>2. /\ k.pc = "user"
      /\ \/ lnk' = [k EXCEPT !.pc = "close", !.stack = <<"user">>]
  <2>1. k.pc = "user" /\ lnk' = Call(k, "close", "user")
    BY <1>1 DEF UserClose
  <2>2. k.stack = <<>>
    BY <1>1, <2>1 DEF LinkOK, Called
  <2>3. Call(k, "close", "user") = [k EXCEPT !.pc = "close", !.stack = <<"user">>]
    BY <2>2, Stacks DEF Call
  <2> QED
    BY <2>1, <2>3
<1>3. CASE lnk' = [k EXCEPT !.pc = "close", !.stack = <<"user">>]
  <2> DEFINE x == [k EXCEPT !.pc = "close", !.stack = <<"user">>]
  <2>1. "close" \in LinkSteps /\ <<"user">> \in LinkStacks
    BY <1>1, <1>2, <1>3, LinkConstants DEF LinkRecord, LinkStacks, InitStacks, UserStacks, LinkSteps
  <2>2. x \in LinkRecord
    BY <1>1, <2>1 DEF LinkRecord
  <2>3. Called(x) /\ Descriptor(x)
    BY <1>1, <1>2, <1>3 DEF LinkRecord, LinkOK, Called, Descriptor, Closing
  <2>4. Owner(x)
    BY <1>1, <1>2, <1>3, StackKinds DEF LinkRecord, LinkOK, Called, Owner, Closing
  <2>5. Farewell(x) /\ Counted(x)
    BY <1>1, <1>2, <1>3, LinkConstants DEF LinkRecord, LinkOK, Farewell, Counted
  <2> QED
    BY <1>3, <2>2, <2>3, <2>4, <2>5 DEF LinkIInv, LinkOK
<1> QED
  BY <1>2, <1>3

\* The owner destroys.
LEMMA UserDestroyKeeps ==
    ASSUME LinkIInv, UserDestroy PROVE LinkIInv'
<1>1. PICK k \in LinkRecord : k = lnk /\ LinkOK(k)
  BY OneLink
<1>2. /\ k.pc = "user"
      /\ \/ lnk' = [k EXCEPT !.pc = "destroy", !.stack = <<"user">>]
  <2>1. k.pc = "user" /\ lnk' = Call(k, "destroy", "user")
    BY <1>1 DEF UserDestroy
  <2>2. k.stack = <<>>
    BY <1>1, <2>1 DEF LinkOK, Called
  <2>3. Call(k, "destroy", "user") = [k EXCEPT !.pc = "destroy", !.stack = <<"user">>]
    BY <2>2, Stacks DEF Call
  <2> QED
    BY <2>1, <2>3
<1>3. CASE lnk' = [k EXCEPT !.pc = "destroy", !.stack = <<"user">>]
  <2> DEFINE x == [k EXCEPT !.pc = "destroy", !.stack = <<"user">>]
  <2>1. "destroy" \in LinkSteps /\ <<"user">> \in LinkStacks
    BY <1>1, <1>2, <1>3, LinkConstants DEF LinkRecord, LinkStacks, InitStacks, UserStacks, LinkSteps
  <2>2. x \in LinkRecord
    BY <1>1, <2>1, ZenonT(60) DEF LinkRecord
  <2>3. Called(x) /\ Descriptor(x)
    BY <1>1, <1>2, <1>3 DEF LinkRecord, LinkOK, Called, Descriptor, Closing
  <2>4. Owner(x)
    BY <1>1, <1>2, <1>3, StackKinds DEF LinkRecord, LinkOK, Called, Owner, Closing
  <2>5. Farewell(x) /\ Counted(x)
    BY <1>1, <1>2, <1>3, LinkConstants DEF LinkRecord, LinkOK, Farewell, Counted
  <2> QED
    BY <1>3, <2>2, <2>3, <2>4, <2>5 DEF LinkIInv, LinkOK
<1> QED
  BY <1>2, <1>3

\* A read returns, or closes the link.
LEMMA ReadOrCloseKeeps ==
    ASSUME LinkIInv, ReadOrClose PROVE LinkIInv'
<1>1. PICK k \in LinkRecord : k = lnk /\ LinkOK(k)
  BY OneLink
<1>2. /\ k.pc = "reading"
      /\ \/ lnk' = [k EXCEPT !.pc = "user"]
         \/ \E b, d \in BOOLEAN : lnk' = [k EXCEPT !.ssl_io_error = b, !.received_shutdown = d,
                                                   !.pc = "close", !.stack = <<"user">>]
  <2>1. k.stack = <<>> /\ k.ssl_io_error \in BOOLEAN /\ k.received_shutdown \in BOOLEAN
    BY <1>1 DEF ReadOrClose, LinkOK, Called, LinkRecord
  <2>2. ASSUME NEW io \in BOOLEAN, NEW eof \in BOOLEAN,
               lnk' = Call([k EXCEPT !.ssl_io_error = @ \/ (io /\ k.ssl = "live"),
                                     !.received_shutdown = @ \/ (eof /\ k.ssl = "live")],
                           "close", "user")
        PROVE  \E b, d \in BOOLEAN :
                 lnk' = [k EXCEPT !.ssl_io_error = b, !.received_shutdown = d, !.pc = "close",
                                  !.stack = <<"user">>]
    <3> DEFINE b == k.ssl_io_error \/ (io /\ k.ssl = "live")
               d == k.received_shutdown \/ (eof /\ k.ssl = "live")
    <3>1. b \in BOOLEAN /\ d \in BOOLEAN
      OBVIOUS
    <3>2. lnk' = Call([k EXCEPT !.ssl_io_error = b, !.received_shutdown = d], "close", "user")
      BY <2>2
    <3> HIDE DEF b, d
    <3>3. lnk' = [k EXCEPT !.ssl_io_error = b, !.received_shutdown = d, !.pc = "close",
                           !.stack = <<"user">>]
      BY <2>1, <3>2, Stacks DEF Call, LinkRecord
    <3> QED
      BY <3>1, <3>3
  <2> QED
    BY <1>1, <2>2 DEF ReadOrClose
<1>3. CASE lnk' = [k EXCEPT !.pc = "user"]
  <2> DEFINE x == [k EXCEPT !.pc = "user"]
  <2>1. "user" \in LinkSteps
    BY <1>1, <1>2, <1>3, LinkConstants DEF LinkRecord, LinkSteps
  <2>2. x \in LinkRecord
    BY <1>1, <2>1 DEF LinkRecord
  <2>3. Called(x) /\ Descriptor(x)
    BY <1>1, <1>2, <1>3 DEF LinkRecord, LinkOK, Called, Descriptor, Closing
  <2>4. Owner(x)
    BY <1>1, <1>2, <1>3, StackKinds DEF LinkRecord, LinkOK, Called, Owner, Closing
  <2>5. Farewell(x) /\ Counted(x)
    BY <1>1, <1>2, <1>3, LinkConstants DEF LinkRecord, LinkOK, Farewell, Counted
  <2> QED
    BY <1>3, <2>2, <2>3, <2>4, <2>5 DEF LinkIInv, LinkOK
<1>4. CASE \E b, d \in BOOLEAN : lnk' = [k EXCEPT !.ssl_io_error = b, !.received_shutdown = d,
                                                  !.pc = "close", !.stack = <<"user">>]
  <2>1. PICK b, d \in BOOLEAN : lnk' = [k EXCEPT !.ssl_io_error = b, !.received_shutdown = d,
                                                 !.pc = "close", !.stack = <<"user">>]
    BY <1>4
  <2> DEFINE x == [k EXCEPT !.ssl_io_error = b, !.received_shutdown = d, !.pc = "close",
                            !.stack = <<"user">>]
  <2>2. b \in BOOLEAN /\ d \in BOOLEAN /\ "close" \in LinkSteps /\ <<"user">> \in LinkStacks
    BY <1>1, <1>2, <2>1, LinkConstants DEF LinkRecord, LinkStacks, InitStacks, UserStacks, LinkSteps
  <2>3. x \in LinkRecord
    BY <1>1, <2>2, ZenonT(60) DEF LinkRecord
  <2>4. Called(x) /\ Descriptor(x)
    BY <1>1, <1>2, <2>1 DEF LinkRecord, LinkOK, Called, Descriptor, Closing
  <2>5. Owner(x)
    BY <1>1, <1>2, <2>1, StackKinds DEF LinkRecord, LinkOK, Called, Owner, Closing
  <2>6. Farewell(x) /\ Counted(x)
    BY <1>1, <1>2, <2>1, LinkConstants DEF LinkRecord, LinkOK, Farewell, Counted
  <2> QED
    BY <2>1, <2>3, <2>4, <2>5, <2>6 DEF LinkIInv, LinkOK
<1> QED
  BY <1>2, <1>3, <1>4

\* Only the first kws_close does anything.
LEMMA CloseLinkKeeps ==
    ASSUME LinkIInv, CloseLink PROVE LinkIInv'
<1>1. PICK k \in LinkRecord : k = lnk /\ LinkOK(k)
  BY OneLink
<1>2. /\ k.pc = "close"
      /\ \/ k.down > 0 /\ k.stack = <<"user">> /\ lnk' = [k EXCEPT !.pc = "user", !.stack = <<>>]
         \/ k.down = 0 /\ lnk' = [k EXCEPT !.down = 1,
                                           !.goodbyes = IF k.handshake /\ k.sock THEN 1 ELSE k.goodbyes,
                                           !.pc = "shutdown", !.n = 0]
         \/ k.down = 0 /\ lnk' = [k EXCEPT !.down = 1,
                                           !.goodbyes = IF k.handshake /\ k.sock THEN 1 ELSE k.goodbyes,
                                           !.pc = "closing", !.n = 0]
  <2>1. k.pc = "close" /\ k.down \in {0, 1, 2} /\ (k.down > 0 => k.stack = <<"user">>)
    BY <1>1 DEF CloseLink, LinkOK, Called, LinkRecord, Levels
  <2>2. CASE k.down > 0
    <3>1. lnk' = [k EXCEPT !.pc = Head(k.stack), !.stack = Tail(k.stack)]
      BY <1>1, <2>2 DEF CloseLink
    <3> QED
      BY <2>1, <2>2, <3>1, Stacks
  <2>3. CASE k.down = 0
    <3>1. k.goodbyes + 1 = 1
      BY <1>1, <2>3 DEF LinkOK, Farewell
    <3> DEFINE q == /\ k.ssl = "live" /\ k.sock /\ k.secure_established
                    /\ ~k.ssl_io_error /\ ~k.received_shutdown
               g == [k EXCEPT !.down = 1,
                              !.goodbyes = IF k.handshake /\ k.sock THEN 1 ELSE k.goodbyes]
    <3>2. g = [k EXCEPT !.down = 1,
                        !.goodbyes = IF k.handshake /\ k.sock THEN k.goodbyes + 1 ELSE k.goodbyes]
      BY <3>1
    <3> HIDE DEF g
    <3>3. lnk' = [g EXCEPT !.pc = IF q THEN "shutdown" ELSE "closing", !.n = 0]
      BY <1>1, <2>3, <3>2 DEF CloseLink
    <3> HIDE DEF q
    <3> QED
      BY <2>1, <2>3, <3>3 DEF g, LinkRecord
  <2> QED
    BY <2>1, <2>2, <2>3
<1>3. CASE k.down > 0 /\ k.stack = <<"user">> /\ lnk' = [k EXCEPT !.pc = "user", !.stack = <<>>]
  <2> DEFINE x == [k EXCEPT !.pc = "user", !.stack = <<>>]
  <2>1. "user" \in LinkSteps /\ <<>> \in LinkStacks
    BY <1>1, <1>2, <1>3, LinkConstants DEF LinkRecord, LinkStacks, InitStacks, UserStacks, LinkSteps
  <2>2. x \in LinkRecord
    BY <1>1, <2>1 DEF LinkRecord
  <2>3. Called(x) /\ Descriptor(x)
    BY <1>1, <1>2, <1>3 DEF LinkRecord, LinkOK, Called, Descriptor, Closing
  <2>4. Owner(x)
    BY <1>1, <1>2, <1>3, StackKinds DEF LinkRecord, LinkOK, Called, Owner, Closing
  <2>5. Farewell(x) /\ Counted(x)
    BY <1>1, <1>2, <1>3, LinkConstants DEF LinkRecord, LinkOK, Farewell, Counted
  <2> QED
    BY <1>3, <2>2, <2>3, <2>4, <2>5 DEF LinkIInv, LinkOK
<1>4. CASE k.down = 0 /\ lnk' = [k EXCEPT !.down = 1,
                                          !.goodbyes = IF k.handshake /\ k.sock THEN 1 ELSE k.goodbyes,
                                          !.pc = "shutdown", !.n = 0]
  <2> DEFINE x == [k EXCEPT !.down = 1,
                            !.goodbyes = IF k.handshake /\ k.sock THEN 1 ELSE k.goodbyes,
                            !.pc = "shutdown", !.n = 0]
  <2>1. /\ 1 \in Levels /\ (IF k.handshake /\ k.sock THEN 1 ELSE k.goodbyes) \in Once
        /\ "shutdown" \in LinkSteps /\ 0 \in Polls
    BY <1>1, <1>2, <1>4, LinkConstants DEF LinkRecord, Levels, LinkSteps, Once, Polls, Counted,
       LinkOK
  <2>2. x \in LinkRecord
    BY <1>1, <2>1, ZenonT(60) DEF LinkRecord
  <2>3. Called(x) /\ Descriptor(x)
    BY <1>1, <1>2, <1>4 DEF LinkRecord, LinkOK, Called, Descriptor, Closing
  <2>4. Owner(x)
    BY <1>1, <1>2, <1>4, StackKinds DEF LinkRecord, LinkOK, Called, Owner, Closing
  <2>5. Farewell(x) /\ Counted(x)
    BY <1>1, <1>2, <1>4, LinkConstants DEF LinkRecord, LinkOK, Farewell, Counted
  <2> QED
    BY <1>4, <2>2, <2>3, <2>4, <2>5 DEF LinkIInv, LinkOK
<1>5. CASE k.down = 0 /\ lnk' = [k EXCEPT !.down = 1,
                                          !.goodbyes = IF k.handshake /\ k.sock THEN 1 ELSE k.goodbyes,
                                          !.pc = "closing", !.n = 0]
  <2> DEFINE x == [k EXCEPT !.down = 1,
                            !.goodbyes = IF k.handshake /\ k.sock THEN 1 ELSE k.goodbyes,
                            !.pc = "closing", !.n = 0]
  <2>1. /\ 1 \in Levels /\ (IF k.handshake /\ k.sock THEN 1 ELSE k.goodbyes) \in Once
        /\ "closing" \in LinkSteps /\ 0 \in Polls
    BY <1>1, <1>2, <1>5, LinkConstants DEF LinkRecord, Levels, LinkSteps, Once, Polls, Counted,
       LinkOK
  <2>2. x \in LinkRecord
    BY <1>1, <2>1, ZenonT(60) DEF LinkRecord
  <2>3. Called(x) /\ Descriptor(x)
    BY <1>1, <1>2, <1>5 DEF LinkRecord, LinkOK, Called, Descriptor, Closing
  <2>4. Owner(x)
    BY <1>1, <1>2, <1>5, StackKinds DEF LinkRecord, LinkOK, Called, Owner, Closing
  <2>5. Farewell(x) /\ Counted(x)
    BY <1>1, <1>2, <1>5, LinkConstants DEF LinkRecord, LinkOK, Farewell, Counted
  <2> QED
    BY <1>5, <2>2, <2>3, <2>4, <2>5 DEF LinkIInv, LinkOK
<1> QED
  BY <1>2, <1>3, <1>4, <1>5

\* One SSL_shutdown.
LEMMA ShutdownKeeps ==
    ASSUME LinkIInv, Shutdown PROVE LinkIInv'
<1>1. PICK k \in LinkRecord : k = lnk /\ LinkOK(k)
  BY OneLink
<1>2. /\ k.pc = "shutdown"
      /\ \/ lnk' = [k EXCEPT !.pc = "drain"]
         \/ k.n + 1 < SoftN /\ lnk' = [k EXCEPT !.n = k.n + 1]
         \/ k.n + 1 = SoftN /\ lnk' = [k EXCEPT !.n = k.n + 1, !.pc = "closing"]
         \/ lnk' = [k EXCEPT !.pc = "closing"]
  <2>1. k.n \in Int /\ SoftN \in Int /\ k.n < SoftN /\ k.pc = "shutdown"
    BY <1>1, LinkConstants DEF Shutdown, LinkOK, Counted, LinkRecord, Polls
  <2>2. CASE lnk' = [k EXCEPT !.n = k.n + 1, !.pc = IF k.n + 1 = SoftN THEN "closing" ELSE k.pc]
    <3>1. CASE k.n + 1 = SoftN
      BY <2>1, <2>2, <3>1
    <3>2. CASE k.n + 1 # SoftN
      <4>1. k.n + 1 < SoftN
        BY <2>1, <3>2
      <4>2. [k EXCEPT !.n = k.n + 1, !.pc = k.pc] = [k EXCEPT !.n = k.n + 1]
        BY <1>1 DEF LinkRecord
      <4> QED
        BY <2>1, <2>2, <3>2, <4>1, <4>2
    <3> QED
      BY <3>1, <3>2
  <2> QED
    BY <1>1, <2>1, <2>2 DEF Shutdown
<1>3. CASE lnk' = [k EXCEPT !.pc = "drain"]
  <2> DEFINE x == [k EXCEPT !.pc = "drain"]
  <2>1. "drain" \in LinkSteps
    BY <1>1, <1>2, <1>3, LinkConstants DEF LinkRecord, LinkSteps
  <2>2. x \in LinkRecord
    BY <1>1, <2>1 DEF LinkRecord
  <2>3. Called(x) /\ Descriptor(x)
    BY <1>1, <1>2, <1>3 DEF LinkRecord, LinkOK, Called, Descriptor, Closing
  <2>4. Owner(x)
    BY <1>1, <1>2, <1>3, StackKinds DEF LinkRecord, LinkOK, Called, Owner, Closing
  <2>5. Farewell(x) /\ Counted(x)
    BY <1>1, <1>2, <1>3, LinkConstants DEF LinkRecord, LinkOK, Farewell, Counted
  <2> QED
    BY <1>3, <2>2, <2>3, <2>4, <2>5 DEF LinkIInv, LinkOK
<1>4. CASE k.n + 1 < SoftN /\ lnk' = [k EXCEPT !.n = k.n + 1]
  <2> DEFINE x == [k EXCEPT !.n = k.n + 1]
  <2>1. (k.n + 1) \in Polls
    BY <1>1, <1>2, <1>4, LinkConstants DEF LinkRecord, Polls, Counted, LinkOK
  <2>2. x \in LinkRecord
    BY <1>1, <2>1 DEF LinkRecord
  <2>3. Called(x) /\ Descriptor(x)
    BY <1>1, <1>2, <1>4 DEF LinkRecord, LinkOK, Called, Descriptor, Closing
  <2>4. Owner(x)
    BY <1>1, <1>2, <1>4, StackKinds DEF LinkRecord, LinkOK, Called, Owner, Closing
  <2>5. Farewell(x) /\ Counted(x)
    BY <1>1, <1>2, <1>4, LinkConstants DEF LinkRecord, LinkOK, Farewell, Counted
  <2> QED
    BY <1>4, <2>2, <2>3, <2>4, <2>5 DEF LinkIInv, LinkOK
<1>5. CASE k.n + 1 = SoftN /\ lnk' = [k EXCEPT !.n = k.n + 1, !.pc = "closing"]
  <2> DEFINE x == [k EXCEPT !.n = k.n + 1, !.pc = "closing"]
  <2>1. (k.n + 1) \in Polls /\ "closing" \in LinkSteps
    BY <1>1, <1>2, <1>5, LinkConstants DEF LinkRecord, LinkSteps, Polls, Counted, LinkOK
  <2>2. x \in LinkRecord
    BY <1>1, <2>1, ZenonT(60) DEF LinkRecord
  <2>3. Called(x) /\ Descriptor(x)
    BY <1>1, <1>2, <1>5 DEF LinkRecord, LinkOK, Called, Descriptor, Closing
  <2>4. Owner(x)
    BY <1>1, <1>2, <1>5, StackKinds DEF LinkRecord, LinkOK, Called, Owner, Closing
  <2>5. Farewell(x) /\ Counted(x)
    BY <1>1, <1>2, <1>5, LinkConstants DEF LinkRecord, LinkOK, Farewell, Counted
  <2> QED
    BY <1>5, <2>2, <2>3, <2>4, <2>5 DEF LinkIInv, LinkOK
<1>6. CASE lnk' = [k EXCEPT !.pc = "closing"]
  <2> DEFINE x == [k EXCEPT !.pc = "closing"]
  <2>1. "closing" \in LinkSteps
    BY <1>1, <1>2, <1>6, LinkConstants DEF LinkRecord, LinkSteps
  <2>2. x \in LinkRecord
    BY <1>1, <2>1 DEF LinkRecord
  <2>3. Called(x) /\ Descriptor(x)
    BY <1>1, <1>2, <1>6 DEF LinkRecord, LinkOK, Called, Descriptor, Closing
  <2>4. Owner(x)
    BY <1>1, <1>2, <1>6, StackKinds DEF LinkRecord, LinkOK, Called, Owner, Closing
  <2>5. Farewell(x) /\ Counted(x)
    BY <1>1, <1>2, <1>6, LinkConstants DEF LinkRecord, LinkOK, Farewell, Counted
  <2> QED
    BY <1>6, <2>2, <2>3, <2>4, <2>5 DEF LinkIInv, LinkOK
<1> QED
  BY <1>2, <1>3, <1>4, <1>5, <1>6

\* One read of what the peer still sends.
LEMMA DrainKeeps ==
    ASSUME LinkIInv, Drain PROVE LinkIInv'
<1>1. PICK k \in LinkRecord : k = lnk /\ LinkOK(k)
  BY OneLink
<1>2. /\ k.pc = "drain"
      /\ \/ lnk' = k
         \/ lnk' = [k EXCEPT !.received_shutdown = TRUE, !.pc = "shutdown"]
         \/ k.n + 1 < SoftN /\ lnk' = [k EXCEPT !.n = k.n + 1]
         \/ k.n + 1 = SoftN /\ lnk' = [k EXCEPT !.n = k.n + 1, !.pc = "closing"]
         \/ lnk' = [k EXCEPT !.pc = "closing"]
  <2>1. k.n \in Int /\ SoftN \in Int /\ k.n < SoftN /\ k.pc = "drain"
    BY <1>1, LinkConstants DEF Drain, LinkOK, Counted, LinkRecord, Polls
  <2>2. CASE lnk' = [k EXCEPT !.n = k.n + 1, !.pc = IF k.n + 1 = SoftN THEN "closing" ELSE k.pc]
    <3>1. CASE k.n + 1 = SoftN
      BY <2>1, <2>2, <3>1
    <3>2. CASE k.n + 1 # SoftN
      <4>1. k.n + 1 < SoftN
        BY <2>1, <3>2
      <4>2. [k EXCEPT !.n = k.n + 1, !.pc = k.pc] = [k EXCEPT !.n = k.n + 1]
        BY <1>1 DEF LinkRecord
      <4> QED
        BY <2>1, <2>2, <3>2, <4>1, <4>2
    <3> QED
      BY <3>1, <3>2
  <2> QED
    BY <1>1, <2>1, <2>2 DEF Drain
<1>3. CASE lnk' = k
  BY <1>1, <1>3 DEF LinkIInv
<1>4. CASE lnk' = [k EXCEPT !.received_shutdown = TRUE, !.pc = "shutdown"]
  <2> DEFINE x == [k EXCEPT !.received_shutdown = TRUE, !.pc = "shutdown"]
  <2>1. TRUE \in BOOLEAN /\ "shutdown" \in LinkSteps
    BY <1>1, <1>2, <1>4, LinkConstants DEF LinkRecord, LinkSteps
  <2>2. x \in LinkRecord
    BY <1>1, <2>1, ZenonT(60) DEF LinkRecord
  <2>3. Called(x) /\ Descriptor(x)
    BY <1>1, <1>2, <1>4 DEF LinkRecord, LinkOK, Called, Descriptor, Closing
  <2>4. Owner(x)
    BY <1>1, <1>2, <1>4, StackKinds DEF LinkRecord, LinkOK, Called, Owner, Closing
  <2>5. Farewell(x) /\ Counted(x)
    BY <1>1, <1>2, <1>4, LinkConstants DEF LinkRecord, LinkOK, Farewell, Counted
  <2> QED
    BY <1>4, <2>2, <2>3, <2>4, <2>5 DEF LinkIInv, LinkOK
<1>5. CASE k.n + 1 < SoftN /\ lnk' = [k EXCEPT !.n = k.n + 1]
  <2> DEFINE x == [k EXCEPT !.n = k.n + 1]
  <2>1. (k.n + 1) \in Polls
    BY <1>1, <1>2, <1>5, LinkConstants DEF LinkRecord, Polls, Counted, LinkOK
  <2>2. x \in LinkRecord
    BY <1>1, <2>1 DEF LinkRecord
  <2>3. Called(x) /\ Descriptor(x)
    BY <1>1, <1>2, <1>5 DEF LinkRecord, LinkOK, Called, Descriptor, Closing
  <2>4. Owner(x)
    BY <1>1, <1>2, <1>5, StackKinds DEF LinkRecord, LinkOK, Called, Owner, Closing
  <2>5. Farewell(x) /\ Counted(x)
    BY <1>1, <1>2, <1>5, LinkConstants DEF LinkRecord, LinkOK, Farewell, Counted
  <2> QED
    BY <1>5, <2>2, <2>3, <2>4, <2>5 DEF LinkIInv, LinkOK
<1>6. CASE k.n + 1 = SoftN /\ lnk' = [k EXCEPT !.n = k.n + 1, !.pc = "closing"]
  <2> DEFINE x == [k EXCEPT !.n = k.n + 1, !.pc = "closing"]
  <2>1. (k.n + 1) \in Polls /\ "closing" \in LinkSteps
    BY <1>1, <1>2, <1>6, LinkConstants DEF LinkRecord, LinkSteps, Polls, Counted, LinkOK
  <2>2. x \in LinkRecord
    BY <1>1, <2>1 DEF LinkRecord
  <2>3. Called(x) /\ Descriptor(x)
    BY <1>1, <1>2, <1>6 DEF LinkRecord, LinkOK, Called, Descriptor, Closing
  <2>4. Owner(x)
    BY <1>1, <1>2, <1>6, StackKinds DEF LinkRecord, LinkOK, Called, Owner, Closing
  <2>5. Farewell(x) /\ Counted(x)
    BY <1>1, <1>2, <1>6, LinkConstants DEF LinkRecord, LinkOK, Farewell, Counted
  <2> QED
    BY <1>6, <2>2, <2>3, <2>4, <2>5 DEF LinkIInv, LinkOK
<1>7. CASE lnk' = [k EXCEPT !.pc = "closing"]
  <2> DEFINE x == [k EXCEPT !.pc = "closing"]
  <2>1. "closing" \in LinkSteps
    BY <1>1, <1>2, <1>7, LinkConstants DEF LinkRecord, LinkSteps
  <2>2. x \in LinkRecord
    BY <1>1, <2>1 DEF LinkRecord
  <2>3. Called(x) /\ Descriptor(x)
    BY <1>1, <1>2, <1>7 DEF LinkRecord, LinkOK, Called, Descriptor, Closing
  <2>4. Owner(x)
    BY <1>1, <1>2, <1>7, StackKinds DEF LinkRecord, LinkOK, Called, Owner, Closing
  <2>5. Farewell(x) /\ Counted(x)
    BY <1>1, <1>2, <1>7, LinkConstants DEF LinkRecord, LinkOK, Farewell, Counted
  <2> QED
    BY <1>7, <2>2, <2>3, <2>4, <2>5 DEF LinkIInv, LinkOK
<1> QED
  BY <1>2, <1>3, <1>4, <1>5, <1>6, <1>7

\* Inside the handshake only the socket's fate matters: the TLS state, the
\* tries left and the time that went by do not touch what the invariant says.
LEMMA HandshakeKeeps ==
    ASSUME NEW k \in LinkRecord, LinkOK(k), k.pc \in {"tls", "upgrade"},
           NEW x \in LinkRecord, x.pc \in {"tls", "upgrade"},
           x.c = k.c, x.stack = k.stack, x.ctx = k.ctx, x.ctx_frees = k.ctx_frees,
           x.destroy_ssl_ctx = k.destroy_ssl_ctx, x.sock = k.sock, x.fd = k.fd,
           x.goodbyes = k.goodbyes, k.handshake => x.handshake,
           \/ x.down = k.down /\ x.unclosed = k.unclosed
           \/ k.down = 0 /\ x.down = 1 /\ (x.unclosed \/ ~x.sock)
    PROVE  LinkOK(x)
<1>1. Called(x)
  BY DEF LinkOK, Called, Closing
<1>2. Owner(x)
  BY DEF LinkOK, Owner
<1>3. Descriptor(x)
  BY DEF LinkOK, Descriptor, Closing
<1>4. Farewell(x)
  BY DEF LinkOK, Farewell, LinkRecord, Once
<1>5. Counted(x)
  BY DEF Counted
<1> QED
  BY <1>1, <1>2, <1>3, <1>4, <1>5 DEF LinkOK

\* Waiting adds to elapsed up to the deadline, or does nothing.
LEMMA WaitedIs ==
    ASSUME NEW k \in LinkRecord, NEW t \in Nat
    PROVE  \E e \in Clock : Waited(k, t) = [k EXCEPT !.elapsed = e]
<1>1. k.elapsed \in Clock
  BY DEF LinkRecord
<1>2. PICK e \in Clock : e = IF k.elapsed + t < Deadline THEN k.elapsed + t ELSE Deadline
  BY <1>1, LinkConstants DEF Clock
<1>3. CASE k.c.timed /\ Head(k.stack) = "init"
  BY <1>2, <1>3 DEF Waited
<1>4. CASE ~(k.c.timed /\ Head(k.stack) = "init")
  BY <1>1, <1>4 DEF Waited
<1> QED
  BY <1>3, <1>4

\* One turn of establish_logical_layer's TLS loop.
LEMMA TlsHandshakeKeeps ==
    ASSUME LinkIInv, TlsHandshake PROVE LinkIInv'
<1>1. PICK k \in LinkRecord : k = lnk /\ LinkOK(k)
  BY OneLink
<1>2. k.pc = "tls"
  BY <1>1 DEF TlsHandshake
<1> DEFINE a == [k EXCEPT !.ssl = "live"]
           b == [a EXCEPT !.sanity = a.sanity - 1]
           less == Waited(b, 1)
<1>3. \/ lnk' = Return(k, -1)
      \/ lnk' = Return(k, 0)
      \/ lnk' = [k EXCEPT !.pc = "upgrade"]
      \/ k.sanity # 0 /\ lnk' = [a EXCEPT !.secure_established = TRUE, !.pc = "upgrade"]
      \/ k.sanity # 0 /\ lnk' = Return(a, -1)
      \/ k.sanity # 0 /\ lnk' \in {Return(less, -2), Return(less, -1), less}
  BY <1>1 DEF TlsHandshake
<1>4. "live" \in SslKinds /\ "upgrade" \in LinkSteps
  BY DEF SslKinds, LinkSteps
<1>5. a \in LinkRecord /\ LinkOK(a) /\ a.pc = "tls" /\ a.sanity = k.sanity
  <2>1. a \in LinkRecord
    BY <1>4 DEF LinkRecord
  <2>2. a.pc = "tls" /\ a.sanity = k.sanity
    BY <1>2 DEF LinkRecord
  <2>3. LinkOK(a)
    BY <1>1, <1>2, <2>1, HandshakeKeeps DEF LinkRecord
  <2> QED
    BY <2>1, <2>2, <2>3
<1> HIDE DEF a
<1>6. CASE lnk' = Return(k, -1) \/ lnk' = Return(k, 0)
  BY <1>1, <1>2, <1>6, ReturnKeeps DEF LinkIInv
<1>7. CASE lnk' = [k EXCEPT !.pc = "upgrade"]
  <2> DEFINE x == [k EXCEPT !.pc = "upgrade"]
  <2>1. x \in LinkRecord
    BY <1>4 DEF LinkRecord
  <2>2. LinkOK(x)
    BY <1>1, <1>2, <2>1, HandshakeKeeps DEF LinkRecord
  <2> QED
    BY <1>7, <2>1, <2>2 DEF LinkIInv
<1>8. CASE lnk' = [a EXCEPT !.secure_established = TRUE, !.pc = "upgrade"]
  <2> DEFINE x == [a EXCEPT !.secure_established = TRUE, !.pc = "upgrade"]
  <2>1. x \in LinkRecord
    BY <1>4, <1>5 DEF LinkRecord
  <2>2. LinkOK(x)
    BY <1>5, <2>1, HandshakeKeeps, ZenonT(60) DEF LinkRecord
  <2> QED
    BY <1>8, <2>1, <2>2 DEF LinkIInv
<1>9. CASE lnk' = Return(a, -1)
  BY <1>5, <1>9, ReturnKeeps DEF LinkIInv
<1>10. CASE k.sanity # 0 /\ lnk' \in {Return(less, -2), Return(less, -1), less}
  <2>1. a.sanity - 1 \in Tries
    BY <1>5, <1>10, LinkConstants DEF LinkRecord, Tries
  <2>2. b \in LinkRecord
    BY <1>5, <2>1 DEF LinkRecord
  <2>3. LinkOK(b) /\ b.pc = "tls"
    BY <1>5, <2>2, HandshakeKeeps DEF LinkRecord
  <2> HIDE DEF b
  <2>4. PICK e \in Clock : less = [b EXCEPT !.elapsed = e]
    BY <2>2, WaitedIs
  <2> HIDE DEF less
  <2>5. less \in LinkRecord
    BY <2>2, <2>4 DEF LinkRecord
  <2>6. LinkOK(less) /\ less.pc = "tls"
    BY <2>2, <2>3, <2>4, <2>5, HandshakeKeeps DEF LinkRecord
  <2>7. /\ Return(less, -2) \in LinkRecord /\ LinkOK(Return(less, -2))
        /\ Return(less, -1) \in LinkRecord /\ LinkOK(Return(less, -1))
    BY <2>5, <2>6, ReturnKeeps
  <2> QED
    BY <1>10, <2>5, <2>6, <2>7 DEF LinkIInv
<1> QED
  BY <1>3, <1>6, <1>7, <1>8, <1>9, <1>10

\* A client reads a part of the answer: the upgrade is done, or is not yet, or
\* the link is down and nobody closes its socket.
LEMMA ClientUpgradeKeeps ==
    ASSUME LinkIInv, ClientUpgrade PROVE LinkIInv'
<1>1. PICK k \in LinkRecord : k = lnk /\ LinkOK(k)
  BY OneLink
<1>2. k.pc = "upgrade" /\ k.down = 0
  BY <1>1 DEF ClientUpgrade
<1>3. PICK time \in {1, PatienceN} :
        \/ \E h \in BOOLEAN : ~k.handshake /\ lnk' = [Waited(k, time) EXCEPT !.handshake = h]
        \/ lnk' = Return([Waited(k, time) EXCEPT !.down = 1, !.unclosed = k.sock], -1)
  <2>1. PICK got \in Answers, time \in {1, PatienceN} :
          lnk' = IF ~k.sock \/ got \in {"nothing", "end"}
                 THEN Return([Waited(k, time) EXCEPT !.down = 1, !.unclosed = k.sock], -1)
                 ELSE [Waited(k, time) EXCEPT !.handshake = got = "accepted"]
    BY <1>1, ZenonT(60) DEF ClientUpgrade
  <2>2. PICK h \in BOOLEAN : h = (got = "accepted")
    OBVIOUS
  <2>3. ~k.handshake
    BY <1>1 DEF ClientUpgrade
  <2> QED
    BY <2>1, <2>2, <2>3
<1>4. PICK e \in Clock : Waited(k, time) = [k EXCEPT !.elapsed = e]
  <2>1. time \in Nat
    BY LinkConstants
  <2> QED
    BY <2>1, WaitedIs
<1> DEFINE w == [k EXCEPT !.elapsed = e]
<1>5. w \in LinkRecord
  BY DEF LinkRecord
<1>6. CASE \E h \in BOOLEAN : ~k.handshake /\ lnk' = [w EXCEPT !.handshake = h]
  <2>1. PICK h \in BOOLEAN : ~k.handshake /\ lnk' = [w EXCEPT !.handshake = h]
    BY <1>6
  <2> DEFINE x == [w EXCEPT !.handshake = h]
  <2>2. x \in LinkRecord
    BY <1>5, ZenonT(60) DEF LinkRecord
  <2>3. /\ x.c = k.c /\ x.stack = k.stack /\ x.ctx = k.ctx /\ x.ctx_frees = k.ctx_frees
        /\ x.destroy_ssl_ctx = k.destroy_ssl_ctx /\ x.sock = k.sock /\ x.fd = k.fd
        /\ x.goodbyes = k.goodbyes /\ x.down = k.down /\ x.unclosed = k.unclosed
        /\ x.pc = "upgrade"
    BY <1>2 DEF LinkRecord
  <2> HIDE DEF x
  <2>4. LinkOK(x)
    BY <1>1, <1>2, <2>1, <2>2, <2>3, HandshakeKeeps
  <2> QED
    BY <2>1, <2>2, <2>4 DEF LinkIInv, x
<1>7. CASE lnk' = Return([w EXCEPT !.down = 1, !.unclosed = k.sock], -1)
  <2> DEFINE x == [w EXCEPT !.down = 1, !.unclosed = k.sock]
  <2>1. x \in LinkRecord
    BY <1>5, ZenonT(60) DEF LinkRecord, Levels
  <2>2. x.pc = "upgrade" /\ x.down = 1 /\ (x.unclosed \/ ~x.sock)
    BY <1>2 DEF LinkRecord
  <2>3. /\ x.c = k.c /\ x.stack = k.stack /\ x.ctx = k.ctx /\ x.ctx_frees = k.ctx_frees
        /\ x.destroy_ssl_ctx = k.destroy_ssl_ctx /\ x.sock = k.sock /\ x.fd = k.fd
        /\ x.goodbyes = k.goodbyes /\ x.handshake = k.handshake
    BY DEF LinkRecord
  <2> HIDE DEF x
  <2>4. LinkOK(x)
    BY <1>1, <1>2, <2>1, <2>2, <2>3, HandshakeKeeps
  <2> QED
    BY <1>7, <2>1, <2>2, <2>4, ReturnKeeps DEF LinkIInv, x
<1> QED
  BY <1>3, <1>4, <1>6, <1>7

\* A server reads the request.
LEMMA ServerUpgradeKeeps ==
    ASSUME LinkIInv, ServerUpgrade PROVE LinkIInv'
<1>1. PICK k \in LinkRecord : k = lnk /\ LinkOK(k)
  BY OneLink
<1>2. k.pc = "upgrade" /\ k.down = 0
  BY <1>1 DEF ServerUpgrade
<1>3. \/ lnk' = [k EXCEPT !.handshake = TRUE]
      \/ lnk' = Return([k EXCEPT !.down = 1, !.unclosed = k.sock], -1)
      \/ lnk' = Call(k, "close", "refused")
  BY <1>1 DEF ServerUpgrade
<1>4. CASE lnk' = [k EXCEPT !.handshake = TRUE]
  <2> DEFINE x == [k EXCEPT !.handshake = TRUE]
  <2>1. x \in LinkRecord
    BY DEF LinkRecord
  <2>2. LinkOK(x)
    BY <1>1, <1>2, <2>1, HandshakeKeeps DEF LinkRecord
  <2> QED
    BY <1>4, <2>1, <2>2 DEF LinkIInv
<1>5. CASE lnk' = Return([k EXCEPT !.down = 1, !.unclosed = k.sock], -1)
  <2> DEFINE x == [k EXCEPT !.down = 1, !.unclosed = k.sock]
  <2>1. x \in LinkRecord
    BY DEF LinkRecord, Levels
  <2>2. x.pc = "upgrade" /\ x.down = 1 /\ (x.unclosed \/ ~x.sock)
    BY <1>2 DEF LinkRecord
  <2>3. /\ x.c = k.c /\ x.stack = k.stack /\ x.ctx = k.ctx /\ x.ctx_frees = k.ctx_frees
        /\ x.destroy_ssl_ctx = k.destroy_ssl_ctx /\ x.sock = k.sock /\ x.fd = k.fd
        /\ x.goodbyes = k.goodbyes /\ x.handshake = k.handshake
    BY DEF LinkRecord
  <2> HIDE DEF x
  <2>4. LinkOK(x)
    BY <1>1, <1>2, <2>1, <2>2, <2>3, HandshakeKeeps
  <2> QED
    BY <1>5, <2>1, <2>2, <2>4, ReturnKeeps DEF LinkIInv, x
<1>6. CASE lnk' = Call(k, "close", "refused")
  <2>1. k.stack = <<"init">> \/ k.stack = <<"read">>
    BY <1>1, <1>2 DEF LinkOK, Called
  <2> DEFINE s == <<"refused">> \o k.stack
  <2>2. /\ \/ k.stack = <<"init">> /\ s = <<"refused", "init">>
           \/ k.stack = <<"read">> /\ s = <<"refused", "read">>
        /\ lnk' = [k EXCEPT !.pc = "close", !.stack = s]
    <3>1. lnk' = [k EXCEPT !.pc = "close", !.stack = s]
      BY <1>6 DEF Call
    <3>2. \/ k.stack = <<"init">> /\ s = <<"refused", "init">>
          \/ k.stack = <<"read">> /\ s = <<"refused", "read">>
      BY <2>1, Stacks
    <3> QED
      BY <3>1, <3>2
  <2> HIDE DEF s
  <2> DEFINE x == [k EXCEPT !.pc = "close", !.stack = s]
  <2>3. "close" \in LinkSteps /\ s \in LinkStacks
    BY <2>2 DEF LinkSteps, LinkStacks, InitStacks, UserStacks
  <2>4. x \in LinkRecord
    BY <2>3 DEF LinkRecord
  <2>5. Called(x)
    BY <1>2, <2>2 DEF LinkRecord, Called, Closing
  <2>6. Owner(x)
    <3>1. \/ s \in InitStacks /\ s \notin UserStacks /\ k.stack \in InitStacks
          \/ s \in UserStacks /\ s \notin InitStacks /\ k.stack \in UserStacks
      <4>1. CASE k.stack = <<"init">> /\ s = <<"refused", "init">>
        BY <4>1, Sides, Zenon
      <4>2. CASE k.stack = <<"read">> /\ s = <<"refused", "read">>
        BY <4>2, Sides, Zenon
      <4> QED
        BY <2>2, <4>1, <4>2
    <3> QED
      BY <1>1, <1>2, <3>1 DEF LinkRecord, LinkOK, Owner
  <2>7. Descriptor(x) /\ Farewell(x) /\ Counted(x)
    BY <1>1, <1>2 DEF LinkRecord, LinkOK, Descriptor, Farewell, Counted, Closing
  <2> QED
    BY <2>2, <2>4, <2>5, <2>6, <2>7 DEF LinkIInv, LinkOK
<1> QED
  BY <1>3, <1>4, <1>5, <1>6

\* The layer is established.
LEMMA UpgradeDoneKeeps ==
    ASSUME LinkIInv, UpgradeDone PROVE LinkIInv'
<1>1. PICK k \in LinkRecord : k = lnk /\ LinkOK(k)
  BY OneLink
<1>2. k.pc = "upgrade"
  BY <1>1 DEF UpgradeDone
<1> DEFINE x == [k EXCEPT !.logical_established = TRUE]
<1>3. lnk' = Return(x, 0) \/ lnk' = Return(x, -1)
  BY <1>1 DEF UpgradeDone
<1>4. x \in LinkRecord
  BY DEF LinkRecord
<1>5. LinkOK(x) /\ x.pc = "upgrade"
  BY <1>1, <1>2, <1>4, HandshakeKeeps DEF LinkRecord
<1> HIDE DEF x
<1> QED
  BY <1>3, <1>4, <1>5, ReturnKeeps DEF LinkIInv

\* The end of kws_close returns to the owner, to kws_destroy, or into the
\* handshake that refused the request.
LEMMA CloseSocketKeeps ==
    ASSUME LinkIInv, CloseSocket PROVE LinkIInv'
<1>1. PICK k \in LinkRecord : k = lnk /\ LinkOK(k)
  BY OneLink
<1>2. k.pc = "closing" /\ k.down = 1
  BY <1>1 DEF CloseSocket, LinkOK, Descriptor, Closing
<1>3. PICK d \in FdKinds : d = IF k.c.close_sock /\ k.sock THEN "closed" ELSE k.fd
  BY DEF LinkRecord, FdKinds
<1>4. lnk' = IF Head(k.stack) = "refused"
             THEN Return([k EXCEPT !.sock = FALSE, !.nonblock = FALSE, !.stack = Tail(k.stack),
                                   !.pc = Head(k.stack), !.fd = d], -1)
             ELSE [k EXCEPT !.sock = FALSE, !.nonblock = FALSE, !.stack = Tail(k.stack),
                            !.pc = Head(k.stack), !.fd = d]
  BY <1>1, <1>3 DEF CloseSocket
<1>5. k.stack \in {<<"user">>, <<"destroy", "user">>, <<"destroy", "failed">>,
                   <<"refused", "init">>, <<"refused", "read">>}
  BY <1>1, <1>2 DEF LinkOK, Called, Closing
<1>6. k.c.close_sock => d # "open"
  BY <1>1, <1>3 DEF LinkOK, Descriptor
<1>7. CASE k.stack = <<"user">>
  <2> DEFINE x == [k EXCEPT !.sock = FALSE, !.nonblock = FALSE, !.stack = <<>>, !.pc = "user", !.fd = d]
  <2>1. lnk' = x
    BY <1>4, <1>7, Stacks
  <2>2. <<>> \in LinkStacks /\ "user" \in LinkSteps
    BY DEF LinkStacks, LinkSteps
  <2>3. x \in LinkRecord
    BY <2>2 DEF LinkRecord
  <2>4. Called(x)
    BY DEF LinkRecord, Called, Closing
  <2>5. Owner(x)
    BY <1>1, <1>2, <1>7, StackKinds DEF LinkRecord, LinkOK, Owner
  <2>6. Descriptor(x) /\ Farewell(x) /\ Counted(x)
    BY <1>1, <1>2, <1>6 DEF LinkRecord, LinkOK, Descriptor, Farewell, Counted, Closing
  <2> QED
    BY <2>1, <2>3, <2>4, <2>5, <2>6 DEF LinkIInv, LinkOK
<1>8. CASE k.stack = <<"destroy", "user">> \/ k.stack = <<"destroy", "failed">>
  <2> DEFINE s == Tail(k.stack)
  <2>1. /\ \/ k.stack = <<"destroy", "user">> /\ s = <<"user">>
           \/ k.stack = <<"destroy", "failed">> /\ s = <<"failed">>
        /\ lnk' = [k EXCEPT !.sock = FALSE, !.nonblock = FALSE, !.stack = s, !.pc = "destroy", !.fd = d]
    <3>1. \/ k.stack = <<"destroy", "user">> /\ s = <<"user">>
          \/ k.stack = <<"destroy", "failed">> /\ s = <<"failed">>
      BY <1>8, Stacks
    <3>2. Head(k.stack) = "destroy"
      BY <1>8, Stacks
    <3> HIDE DEF s
    <3>3. lnk' = [k EXCEPT !.sock = FALSE, !.nonblock = FALSE, !.stack = s, !.pc = "destroy", !.fd = d]
      BY <1>4, <3>2 DEF s
    <3> QED
      BY <3>1, <3>3
  <2> HIDE DEF s
  <2> DEFINE x == [k EXCEPT !.sock = FALSE, !.nonblock = FALSE, !.stack = s, !.pc = "destroy", !.fd = d]
  <2>2. s \in LinkStacks /\ "destroy" \in LinkSteps
    BY <2>1 DEF LinkStacks, InitStacks, UserStacks, LinkSteps
  <2>3. x \in LinkRecord
    BY <2>2 DEF LinkRecord
  <2>4. Called(x)
    BY <2>1 DEF LinkRecord, Called, Closing
  <2>5. Owner(x)
    <3>1. \/ s \in InitStacks /\ s \notin UserStacks /\ k.stack \in InitStacks
          \/ s \in UserStacks /\ s \notin InitStacks /\ k.stack \in UserStacks
      <4>1. CASE k.stack = <<"destroy", "user">> /\ s = <<"user">>
        BY <4>1, Sides, Zenon
      <4>2. CASE k.stack = <<"destroy", "failed">> /\ s = <<"failed">>
        BY <4>2, Sides, Zenon
      <4> QED
        BY <2>1, <4>1, <4>2
    <3> QED
      BY <1>1, <1>2, <3>1 DEF LinkRecord, LinkOK, Owner
  <2>6. Descriptor(x) /\ Farewell(x) /\ Counted(x)
    BY <1>1, <1>2, <1>6 DEF LinkRecord, LinkOK, Descriptor, Farewell, Counted, Closing
  <2> QED
    BY <2>1, <2>3, <2>4, <2>5, <2>6 DEF LinkIInv, LinkOK
<1>9. CASE k.stack = <<"refused", "init">> \/ k.stack = <<"refused", "read">>
  <2> DEFINE s == Tail(k.stack)
  <2>1. /\ \/ k.stack = <<"refused", "init">> /\ s = <<"init">>
           \/ k.stack = <<"refused", "read">> /\ s = <<"read">>
        /\ lnk' = Return([k EXCEPT !.sock = FALSE, !.nonblock = FALSE, !.stack = s, !.pc = "refused", !.fd = d], -1)
    <3>1. \/ k.stack = <<"refused", "init">> /\ s = <<"init">>
          \/ k.stack = <<"refused", "read">> /\ s = <<"read">>
      BY <1>9, Stacks
    <3>2. Head(k.stack) = "refused"
      BY <1>9, Stacks
    <3> HIDE DEF s
    <3>3. lnk' = Return([k EXCEPT !.sock = FALSE, !.nonblock = FALSE, !.stack = s, !.pc = "refused", !.fd = d], -1)
      BY <1>4, <3>2 DEF s
    <3> QED
      BY <3>1, <3>3
  <2> HIDE DEF s
  <2> DEFINE y == [k EXCEPT !.sock = FALSE, !.nonblock = FALSE, !.stack = s, !.pc = "refused", !.fd = d]
             x == [k EXCEPT !.sock = FALSE, !.nonblock = FALSE, !.stack = s, !.pc = "tls", !.fd = d]
  <2>2. s \in LinkStacks /\ "tls" \in LinkSteps
    BY <2>1 DEF LinkStacks, InitStacks, UserStacks, LinkSteps
  <2>3. x \in LinkRecord
    BY <2>2, ZenonT(60) DEF LinkRecord
  <2>4. Called(x)
    BY <2>1 DEF LinkRecord, Called, Closing
  <2>5. Owner(x)
    <3>1. \/ s \in InitStacks /\ s \notin UserStacks /\ k.stack \in InitStacks
          \/ s \in UserStacks /\ s \notin InitStacks /\ k.stack \in UserStacks
      <4>1. CASE k.stack = <<"refused", "init">> /\ s = <<"init">>
        BY <4>1, Sides, Zenon
      <4>2. CASE k.stack = <<"refused", "read">> /\ s = <<"read">>
        BY <4>2, Sides, Zenon
      <4> QED
        BY <2>1, <4>1, <4>2
    <3> QED
      BY <1>1, <1>2, <3>1 DEF LinkRecord, LinkOK, Owner
  <2>6. Descriptor(x) /\ Farewell(x) /\ Counted(x)
    BY <1>1, <1>2, <1>6 DEF LinkRecord, LinkOK, Descriptor, Farewell, Counted, Closing
  <2>7. x.pc = "tls" /\ y = [x EXCEPT !.pc = "refused"]
    BY DEF LinkRecord
  <2>8. Return(y, -1) = Return(x, -1)
    <3> HIDE DEF x, y
    <3>1. /\ y.stack = x.stack /\ y.c = x.c /\ y.elapsed = x.elapsed /\ y.down = x.down /\ y.ctx = x.ctx
          /\ y.nonblock = x.nonblock
      BY <2>3, <2>7 DEF LinkRecord
    <3>a. PICK b : b = StaysNonblock(x)
      OBVIOUS
    <3>b. b = StaysNonblock(y)
      BY <3>1, <3>a DEF StaysNonblock
    <3> DEFINE y1 == [y EXCEPT !.stack = Tail(y.stack), !.block = y.c.block, !.nonblock = b]
               x1 == [x EXCEPT !.stack = Tail(x.stack), !.block = x.c.block, !.nonblock = b]
    <3>2. y1 = [x1 EXCEPT !.pc = "refused"]
      BY <2>3, <2>7, <3>1 DEF LinkRecord
    <3>3. /\ \A p : [y1 EXCEPT !.pc = p] = [x1 EXCEPT !.pc = p]
          /\ \A p, q : [y1 EXCEPT !.pc = p, !.stack = q] = [x1 EXCEPT !.pc = p, !.stack = q]
          /\ \A p, q : [y1 EXCEPT !.pc = p, !.destroy_ssl_ctx = q] = [x1 EXCEPT !.pc = p,
                                  !.destroy_ssl_ctx = q]
          /\ y1.stack = x1.stack
      BY <2>3, <3>2, ZenonT(60) DEF LinkRecord
    <3>4. ASSUME NEW z
          PROVE  Return(z, -1) =
                   LET z1 == [z EXCEPT !.stack = Tail(z.stack), !.block = z.c.block,
                                            !.nonblock = StaysNonblock(z)] IN
                   IF Head(z.stack) = "read" THEN [z1 EXCEPT !.pc = "user"]
                   ELSE IF z.down > 0 \/ TRUE
                   THEN [z1 EXCEPT !.pc = "destroy", !.stack = <<"failed">> \o z1.stack]
                   ELSE [z1 EXCEPT !.pc = "user", !.destroy_ssl_ctx = z.ctx = "own"]
      BY DEF Return, Call
    <3>5. Return(y, -1) = IF Head(y.stack) = "read" THEN [y1 EXCEPT !.pc = "user"]
                          ELSE [y1 EXCEPT !.pc = "destroy", !.stack = <<"failed">> \o y1.stack]
      BY <3>4, <3>b, ZenonT(60)
    <3>6. Return(x, -1) = IF Head(x.stack) = "read" THEN [x1 EXCEPT !.pc = "user"]
                          ELSE [x1 EXCEPT !.pc = "destroy", !.stack = <<"failed">> \o x1.stack]
      BY <3>4, <3>a, ZenonT(60)
    <3> HIDE DEF x1, y1
    <3>7. CASE Head(x.stack) = "read"
      BY <3>1, <3>3, <3>5, <3>6, <3>7, ZenonT(60)
    <3>8. CASE Head(x.stack) # "read"
      <4>1. Return(y, -1) = [y1 EXCEPT !.pc = "destroy", !.stack = <<"failed">> \o x1.stack]
        BY <3>1, <3>3, <3>5, <3>8
      <4>2. Return(x, -1) = [x1 EXCEPT !.pc = "destroy", !.stack = <<"failed">> \o x1.stack]
        BY <3>6, <3>8
      <4> QED
        BY <3>3, <4>1, <4>2, ZenonT(60)
    <3> QED
      BY <3>7, <3>8
  <2> HIDE DEF x
  <2> QED
    BY <2>1, <2>3, <2>4, <2>5, <2>6, <2>7, <2>8, ReturnKeeps DEF LinkIInv, LinkOK
<1> QED
  BY <1>5, <1>7, <1>8, <1>9

\* kws_destroy closes a link that is up; then it frees what the link owns, and
\* kws_connect_ex what it had not handed over.
LEMMA DestroyLinkKeeps ==
    ASSUME LinkIInv, DestroyLink PROVE LinkIInv'
<1>1. PICK k \in LinkRecord : k = lnk /\ LinkOK(k)
  BY OneLink
<1>2. k.pc = "destroy" /\ k.ctx_frees = 0 /\ k.down \in Levels
  BY <1>1 DEF DestroyLink, LinkOK, Owner, LinkRecord
<1>3. k.stack = <<"user">> \/ k.stack = <<"failed">>
  BY <1>1, <1>2 DEF LinkOK, Called
<1>4. CASE k.down = 0
  <2> DEFINE s == <<"destroy">> \o k.stack
  <2>1. /\ \/ k.stack = <<"user">> /\ s = <<"destroy", "user">>
           \/ k.stack = <<"failed">> /\ s = <<"destroy", "failed">>
        /\ lnk' = [k EXCEPT !.pc = "close", !.stack = s]
    <3>1. lnk' = [k EXCEPT !.pc = "close", !.stack = s]
      BY <1>1, <1>4 DEF DestroyLink, Call
    <3>2. \/ k.stack = <<"user">> /\ s = <<"destroy", "user">>
          \/ k.stack = <<"failed">> /\ s = <<"destroy", "failed">>
      BY <1>3, Stacks
    <3> QED
      BY <3>1, <3>2
  <2> HIDE DEF s
  <2> DEFINE x == [k EXCEPT !.pc = "close", !.stack = s]
  <2>2. s \in LinkStacks /\ "close" \in LinkSteps
    BY <2>1 DEF LinkStacks, InitStacks, UserStacks, LinkSteps
  <2>3. x \in LinkRecord
    BY <2>2 DEF LinkRecord
  <2>4. Called(x)
    BY <1>4, <2>1 DEF LinkRecord, Called, Closing
  <2>5. Owner(x)
    <3>1. \/ s \in InitStacks /\ s \notin UserStacks /\ k.stack \in InitStacks
          \/ s \in UserStacks /\ s \notin InitStacks /\ k.stack \in UserStacks
      <4>1. CASE k.stack = <<"user">> /\ s = <<"destroy", "user">>
        BY <4>1, Sides, Zenon
      <4>2. CASE k.stack = <<"failed">> /\ s = <<"destroy", "failed">>
        BY <4>2, Sides, Zenon
      <4> QED
        BY <2>1, <4>1, <4>2
    <3> QED
      BY <1>1, <1>2, <3>1 DEF LinkRecord, LinkOK, Owner
  <2>6. Descriptor(x) /\ Farewell(x) /\ Counted(x)
    BY <1>1, <1>2, <1>4 DEF LinkRecord, LinkOK, Descriptor, Farewell, Counted, Closing
  <2> QED
    BY <2>1, <2>3, <2>4, <2>5, <2>6 DEF LinkIInv, LinkOK
<1>5. CASE k.down # 0
  <2>1. PICK ssl \in SslKinds : ssl = IF k.ssl = "live" THEN "freed" ELSE k.ssl
    BY DEF LinkRecord, SslKinds
  <2>2. PICK f \in Once : f = IF k.destroy_ssl_ctx THEN 1 ELSE 0
    BY DEF Once
  <2>3. PICK g \in Once : g = IF k.ctx = "own" THEN 1 ELSE 0
    BY DEF Once
  <2> DEFINE y == [k EXCEPT !.down = 2, !.freed = TRUE, !.stack = <<>>, !.ssl = ssl,
                            !.ctx_frees = f]
             x == [k EXCEPT !.down = 2, !.freed = TRUE, !.stack = <<>>, !.ssl = ssl,
                            !.ctx_frees = g, !.pc = "gone"]
  <2>4. lnk' = IF k.stack = <<"failed">> THEN ConnectErr(y) ELSE [y EXCEPT !.pc = "gone"]
    <3>1. /\ Tail(k.stack) = <<>>
          /\ (Head(k.stack) = "failed") <=> (k.stack = <<"failed">>)
      BY <1>3, Stacks
    <3> DEFINE z == [k EXCEPT !.down = 2, !.freed = TRUE, !.stack = Tail(k.stack),
                              !.ssl = IF k.ssl = "live" THEN "freed" ELSE k.ssl,
                              !.ctx_frees = IF k.destroy_ssl_ctx THEN k.ctx_frees + 1 ELSE k.ctx_frees]
    <3>2. z = y
      <4>1. ssl = IF k.ssl = "live" THEN "freed" ELSE k.ssl
        BY <2>1
      <4>2. f = IF k.destroy_ssl_ctx THEN k.ctx_frees + 1 ELSE k.ctx_frees
        BY <1>2, <2>2
      <4> QED
        BY <3>1, <4>1, <4>2, Zenon
    <3>3. lnk' = IF Head(k.stack) = "failed" THEN ConnectErr(z) ELSE [z EXCEPT !.pc = "gone"]
      BY <1>1, <1>5 DEF DestroyLink
    <3> HIDE DEF y, z
    <3> QED
      BY <3>1, <3>2, <3>3
  <2>5. lnk' = x
    <3>1. CASE k.stack = <<"failed">>
      <4>1. ~k.destroy_ssl_ctx
        BY <1>1, <3>1, StackKinds DEF LinkOK, Owner
      <4>2. f = 0 /\ y.ctx_frees = 0 /\ y.ctx = k.ctx
        BY <2>2, <4>1 DEF LinkRecord
      <4>3. ConnectErr(y) = [y EXCEPT !.pc = "gone", !.ctx_frees = g]
        <5> HIDE DEF y
        <5> QED
          BY <2>3, <4>2 DEF ConnectErr
      <4>4. [y EXCEPT !.pc = "gone", !.ctx_frees = g] = x
        BY DEF LinkRecord
      <4> QED
        BY <2>4, <3>1, <4>3, <4>4
    <3>2. CASE k.stack = <<"user">>
      <4>1. k.destroy_ssl_ctx <=> k.ctx = "own"
        BY <1>1, <3>2, StackKinds DEF LinkOK, Owner
      <4>2. f = g
        BY <2>2, <2>3, <4>1
      <4>3. [y EXCEPT !.pc = "gone"] = x
        BY <4>2 DEF LinkRecord
      <4>4. <<"user">> # <<"failed">>
        BY Stacks
      <4> QED
        BY <2>4, <3>2, <4>3, <4>4
    <3> QED
      BY <1>3, <3>1, <3>2
  <2>6. 2 \in Levels /\ <<>> \in LinkStacks /\ "gone" \in LinkSteps
    BY DEF Levels, LinkStacks, LinkSteps
  <2>7. x \in LinkRecord
    BY <2>6 DEF LinkRecord
  <2>8. Called(x)
    BY DEF LinkRecord, Called, Closing
  <2>9. Owner(x)
    <3>1. ssl # "live"
      BY <2>1
    <3> QED
      BY <2>3, <3>1, StackKinds DEF LinkRecord, Owner
  <2>10. Descriptor(x)
    <3>1. k.unclosed \/ ~k.sock
      BY <1>1, <1>2, <1>5 DEF LinkOK, Descriptor, Closing, Levels
    <3> QED
      BY <1>1, <3>1 DEF LinkRecord, LinkOK, Descriptor, Closing
  <2>11. Farewell(x) /\ Counted(x)
    BY <1>1 DEF LinkRecord, LinkOK, Farewell, Counted
  <2> QED
    BY <2>5, <2>7, <2>8, <2>9, <2>10, <2>11 DEF LinkIInv, LinkOK
<1> QED
  BY <1>4, <1>5

\* The peer's turns leave the link as it is.
LEMMA PeerTurnsKeeps ==
    ASSUME LinkIInv, PeerTurns PROVE LinkIInv'
<1>1. PICK k \in LinkRecord : k = lnk /\ LinkOK(k)
  BY OneLink
<1>2. PICK p \in Peers : lnk' = [k EXCEPT !.peer = p]
  BY <1>1 DEF PeerTurns, Peers
<1> DEFINE x == [k EXCEPT !.peer = p]
<1>3. x \in LinkRecord
  BY DEF LinkRecord
<1>4. /\ x.c = k.c /\ x.pc = k.pc /\ x.stack = k.stack /\ x.ctx = k.ctx
      /\ x.ctx_frees = k.ctx_frees /\ x.destroy_ssl_ctx = k.destroy_ssl_ctx
      /\ x.ssl = k.ssl /\ x.sock = k.sock /\ x.fd = k.fd /\ x.down = k.down
      /\ x.handshake = k.handshake /\ x.n = k.n /\ x.goodbyes = k.goodbyes
      /\ x.unclosed = k.unclosed
  BY DEF LinkRecord
<1> HIDE DEF x
<1>5. Called(x) /\ Descriptor(x)
  BY <1>1, <1>4 DEF LinkOK, Called, Descriptor
<1>6. Owner(x) /\ Farewell(x) /\ Counted(x)
  BY <1>1, <1>4 DEF LinkOK, Owner, Farewell, Counted
<1> QED
  BY <1>2, <1>3, <1>5, <1>6 DEF LinkIInv, LinkOK, x

-----------------------------------------------------------------------------
(* The theorems                                                            *)

\* A new link satisfies the invariant.
LEMMA LinkInitIInv == LinkInit => LinkIInv
<1> SUFFICES ASSUME LinkInit PROVE LinkIInv
  OBVIOUS
<1>1. PICK c \in LinkCasts : (c.own => c.client /\ c.secure) /\ lnk = NewLink(c)
  BY DEF LinkInit
<1>2. PICK x \in CtxKinds : x = (IF c.secure /\ ~c.own THEN "callers" ELSE "none") /\ x # "own"
  BY DEF CtxKinds
<1>3. /\ "start" \in LinkSteps /\ <<>> \in LinkStacks /\ 0 \in Once /\ "none" \in SslKinds
      /\ "none" \in FdKinds /\ 0 \in Levels /\ 0 \in Tries /\ 0 \in Polls /\ c.block \in BOOLEAN
      /\ 0 \in Clock /\ "answers" \in Peers
  BY LinkConstants DEF Clock, Peers, LinkSteps, LinkStacks, Once, SslKinds, FdKinds, Levels, Tries, Polls,
     LinkCasts
<1>4. lnk \in LinkRecord
  BY <1>1, <1>2, <1>3 DEF NewLink, LinkRecord
<1>5. /\ lnk.pc = "start" /\ lnk.stack = <<>> /\ lnk.ctx # "own" /\ lnk.ctx_frees = 0
      /\ ~lnk.destroy_ssl_ctx /\ lnk.ssl = "none" /\ lnk.fd = "none" /\ lnk.down = 0
      /\ lnk.goodbyes = 0
  BY <1>1, <1>2 DEF NewLink
<1>6. Called(lnk)
  BY <1>5 DEF Called, Closing
<1>7. Owner(lnk)
  BY <1>5, StackKinds DEF Owner
<1>8. Descriptor(lnk) /\ Farewell(lnk) /\ Counted(lnk)
  BY <1>5 DEF Descriptor, Farewell, Counted, Closing
<1> QED
  BY <1>4, <1>6, <1>7, <1>8 DEF LinkIInv, LinkOK

\* Every step keeps the invariant.
LEMMA LinkNextIInv == LinkIInv /\ [LinkNext]_lnk => LinkIInv'
<1>1. ASSUME LinkIInv, UNCHANGED lnk PROVE LinkIInv'
  BY <1>1 DEF LinkIInv
<1> QED
  BY <1>1, ConnectUrlKeeps, ConnectSocketKeeps, AcceptSocketKeeps, InitLinkKeeps,
     TlsHandshakeKeeps, ClientUpgradeKeeps, ServerUpgradeKeeps, UpgradeDoneKeeps,
     UserReadKeeps, UserCloseKeeps, UserDestroyKeeps, ReadOrCloseKeeps, CloseLinkKeeps,
     ShutdownKeeps, DrainKeeps, CloseSocketKeeps, DestroyLinkKeeps, PeerTurnsKeeps
  DEF LinkNext

\* The invariant holds throughout, whatever OpenSSL, the peer and the owner do.
LEMMA LinkInvariant == LinkSpec => []LinkIInv
BY LinkInitIInv, LinkNextIInv, PTL DEF LinkSpec

\* Every field of struct kws_s holds a value of its type, and the calls in
\* progress return to where they were made.
THEOREM LinkTyped == LinkSpec => []LinkTypeOK
<1>1. LinkIInv => LinkTypeOK
  <2> SUFFICES ASSUME LinkIInv PROVE LinkTypeOK
    OBVIOUS
  <2>1. lnk.stack \in Seq({"init", "read", "refused", "user", "destroy", "failed"})
    <3> DEFINE S == {"init", "read", "refused", "user", "destroy", "failed"}
    <3>1. \A a \in S : <<a>> \in Seq(S)
      OBVIOUS
    <3>2. \A a, b \in S : <<a, b>> \in Seq(S)
      OBVIOUS
    <3>3. <<>> \in Seq(S)
      OBVIOUS
    <3>4. lnk.stack \in LinkStacks
      BY DEF LinkIInv, LinkRecord
    <3> QED
      BY <3>1, <3>2, <3>3, <3>4 DEF LinkStacks, InitStacks, UserStacks
  <2>2. /\ lnk.pc \in LinkSteps /\ lnk.down \in Levels /\ lnk.sanity \in Tries
        /\ lnk.ssl \in SslKinds /\ lnk.fd \in FdKinds /\ lnk.n \in Polls
        /\ lnk.elapsed \in Clock /\ lnk.nonblock \in BOOLEAN /\ lnk.peer \in Peers
    BY DEF LinkIInv, LinkRecord
  <2>3. Levels \subseteq 0..2
    BY DEF Levels
  <2> QED
    BY <2>1, <2>2, <2>3 DEF LinkTypeOK, Tries, SslKinds, FdKinds, Polls, Clock
<1> QED
  BY <1>1, LinkInvariant, PTL

\* However a link ends - a url, a name, a socket, a TLS handshake or an upgrade
\* that fails, a refused request, an owner that closes, reads on or destroys -
\* its TLS object is freed, a context that kws_connect_ex made is freed exactly
\* once and the caller's never, the descriptor is closed unless the upgrade
\* failed without kws_close, and good-bye is said at most once and only by a
\* link that was up.
THEOREM LinkAlwaysSound == LinkSpec => []LinkSound
<1>1. LinkIInv => LinkSound
  <2> SUFFICES ASSUME LinkIInv PROVE LinkSound
    OBVIOUS
  <2>1. OneGoodbye
    BY DEF LinkIInv, LinkOK, LinkRecord, Once, Farewell, OneGoodbye
  <2>2. NothingLeaks
    <3> SUFFICES ASSUME lnk.pc = "gone"
                 PROVE  /\ lnk.ssl # "live"
                        /\ lnk.ctx_frees = IF lnk.ctx = "own" THEN 1 ELSE 0
                        /\ lnk.c.close_sock /\ lnk.fd = "open" => lnk.unclosed
      BY DEF NothingLeaks
    <3>1. lnk.ssl # "live" /\ lnk.ctx_frees = IF lnk.ctx = "own" THEN 1 ELSE 0
      BY DEF LinkIInv, LinkOK, Owner
    <3>2. lnk.c.close_sock /\ lnk.fd = "open" => lnk.unclosed
      BY DEF LinkIInv, LinkOK, Descriptor, Closing
    <3> QED
      BY <3>1, <3>2
  <2> QED
    BY <2>1, <2>2 DEF LinkSound
<1> QED
  BY <1>1, LinkInvariant, PTL


-----------------------------------------------------------------------------
(* Frames: the inductive invariant                                         *)

Reasons == {"read", "garbled", "peer", "opcode", "overread", "size"}

KwsRecord ==
    [script : Seq(PeerFrames), block : BOOLEAN, unprocessed : Nat, pos : Nat,
     eof : BOOLEAN, x : Nat, zero_reads : Nat, down : BOOLEAN,
     pc : FrameSteps, start : Nat, frame : Nat, datalen : Int, frag : BOOLEAN,
     body : Seq(Nat), rplen : Nat, bbuflen : Nat, bbuffer : Nat,
     read : Seq(Seq(Nat)), refused : SUBSET Reasons,
     wire : Seq([len : Nat, size : Nat, out : Nat, ret : Int])]

\* Where a read of the frame has the first bytes of its header.
Begun == {"hdr2", "parse", "mask", "ext", "payload", "body"}

\* What was not processed lies ahead in the stream, and is read without a
\* try; the tries of a link that is up are not used up.
Streams(w) ==
    /\ w.pos + w.unprocessed <= Total(w.script)
    /\ w.unprocessed > 0 => w.x = 0
    /\ w.x <= MaxX + 1 /\ (~w.down => w.x < MaxX)
    /\ w.pc # "idle" => ~w.down
    /\ w.pc \in Begun => w.x = 0

\* Where the stream stands in each step of kws_read_frame.
Framed(w) ==
    LET f == w.script[w.frame] IN
    /\ w.frame <= Len(w.script) /\ w.datalen >= -2 /\ w.datalen <= 14
    /\ w.pc \in {"idle", "hdr"} /\ ~w.down => w.pos = EndOf(w.script, w.frame)
    /\ w.pc \in {"hdr2", "parse"} =>
         w.start = EndOf(w.script, w.frame) /\ w.pos = w.start + w.datalen
    /\ w.pc = "hdr2" => w.datalen \in 0..1
    /\ w.pc = "parse" => w.datalen >= 2
    /\ w.pc \in {"mask", "ext", "payload", "body"} =>
         w.frame >= 1 /\ w.start = EndOf(w.script, w.frame - 1)
    /\ w.pc \in {"mask", "ext", "payload"} => w.pos = w.start + w.datalen /\ w.datalen >= 2
    /\ w.pc = "ext" => w.datalen >= 2 + f.mask
    /\ w.pc = "payload" => w.datalen >= HeadSize(f)
    /\ w.pc = "body" =>
         /\ w.rplen <= f.len /\ w.pos = w.start + HeadSize(f) + w.rplen
         /\ Len(w.body) + (f.len - w.rplen) + 1 <= w.bbuffer

\* A message of one frame is never taken for a fragment.
WholeUpTo(w, n) == \A i \in 1..n : w.script[i].fin
Fragments(w) ==
    /\ w.pc # "idle" /\ WholeUpTo(w, w.frame) => ~w.frag
    /\ w.pc = "hdr" /\ ~w.frag => w.body = <<>>

\* NothingSkipped, of a socket w.
Payloads(s, n) == [i \in 1..n |-> Payload(s, i)]
Done(w) == IF w.pc \in {"mask", "ext", "payload", "body"} THEN w.frame - 1 ELSE w.frame
Part(w) == IF w.pc # "body" THEN <<>> ELSE SubSeq(Payload(w.script, w.frame), 1, w.rplen)
InHand(w) == IF w.pc = "idle" THEN <<>> ELSE w.body
AllThere(w) ==
    ~w.down /\ (w.block \/ WholeUpTo(w, w.frame)) =>
        FlattenSeq(w.read) \o InHand(w) = FlattenSeq(Payloads(w.script, Done(w))) \o Part(w)

\* CutFrameTold, of the frames written.
Told(wire) == \A i \in DOMAIN wire :
    wire[i].ret = wire[i].len => wire[i].out = wire[i].size \/ wire[i].out = wire[i].len

\* What holds of a socket in every state.
SocketOK(w) ==
    /\ w \in KwsRecord /\ Streams(w) /\ Framed(w) /\ Fragments(w) /\ AllThere(w)
    /\ "garbled" \notin w.refused /\ Told(w.wire)

FrameIInv == SocketOK(kws)

-----------------------------------------------------------------------------
(* The stream                                                              *)

\* A set of numbers that is not empty has a least one.
LEMMA LeastNumber ==
    ASSUME NEW S, S \subseteq Nat, S # {}
    PROVE  \E x \in S : \A y \in S : x <= y
<1>1. \E x \in S : \A y \in S : ~(<<y, x>> \in OpToRel(<, Nat))
  BY NatLessThanWellFounded, WFMin
<1>2. \A x, y \in Nat : <<y, x>> \in OpToRel(<, Nat) <=> y < x
  BY DEF OpToRel
<1>3. \E R : /\ \E x \in S : \A y \in S : ~(<<y, x>> \in R)
             /\ \A x, y \in Nat : <<y, x>> \in R <=> y < x
  BY <1>1, <1>2, Zenon
<1>4. PICK R : /\ \E x \in S : \A y \in S : ~(<<y, x>> \in R)
               /\ \A x, y \in Nat : <<y, x>> \in R <=> y < x
  BY <1>3
<1>5. PICK x \in S : \A y \in S : ~(<<y, x>> \in R)
  BY <1>4
<1>6. ASSUME NEW y \in S PROVE x <= y
  <2>1. x \in Nat /\ y \in Nat /\ ~(y < x)
    BY <1>4, <1>5
  <2> QED
    BY <2>1
<1> QED
  BY <1>6

\* The ends of the first n frames.
Ends(f, s, n) == f = [i \in 0..n |-> IF i = 0 THEN 0 ELSE f[i - 1] + FrameSize(s[i])]

\* They can be added up.
LEMMA EndsExist ==
    ASSUME NEW s, NEW N \in Nat
    PROVE  \E f : Ends(f, s, N)
<1> DEFINE S == {n \in 0..N : ~\E f : Ends(f, s, n)}
<1>1. S = {}
  <2> SUFFICES ASSUME S # {} PROVE FALSE
    OBVIOUS
  <2>1. S \subseteq Nat
    OBVIOUS
  <2>2. PICK n \in S : \A x \in S : n <= x
    <3> HIDE DEF S
    <3> QED
      BY <2>1, LeastNumber
  <2>3. n \in 0..N /\ ~\E f : Ends(f, s, n)
    OBVIOUS
  <2>4. CASE n = 0
    <3>1. PICK f : f = [j \in 0..0 |-> 0]
      OBVIOUS
    <3>2. f = [j \in 0..0 |-> IF j = 0 THEN 0 ELSE f[j - 1] + FrameSize(s[j])]
      BY <3>1
    <3>3. Ends(f, s, 0)
      BY <3>2 DEF Ends
    <3> QED
      BY <2>3, <2>4, <3>3
  <2>5. CASE n # 0
    <3>1. n \in Nat /\ n - 1 \in 0..N /\ ~(n <= n - 1)
      BY <2>3, <2>5
    <3>2. n - 1 \notin S
      <4> HIDE DEF S
      <4> QED
        BY <2>2, <3>1
    <3>3. PICK f : Ends(f, s, n - 1)
      BY <3>1, <3>2
    <3>4. f = [j \in 0..(n - 1) |-> IF j = 0 THEN 0 ELSE f[j - 1] + FrameSize(s[j])]
      BY <3>3 DEF Ends
    <3>5. PICK g : g = [j \in 0..n |-> IF j = n THEN f[n - 1] + FrameSize(s[n]) ELSE f[j]]
      OBVIOUS
    <3>6. \A j \in 0..(n - 1) : g[j] = f[j] /\ j # n /\ j \in 0..n
      BY <3>1, <3>5
    <3>7. ASSUME NEW j \in 0..n
          PROVE  g[j] = IF j = 0 THEN 0 ELSE g[j - 1] + FrameSize(s[j])
      <4>1. CASE j = n
        <5>1. g[j] = f[n - 1] + FrameSize(s[n]) /\ n - 1 \in 0..(n - 1)
          BY <2>5, <3>1, <3>5, <4>1
        <5> QED
          BY <2>5, <3>6, <4>1, <5>1
      <4>2. CASE j # n
        <5>1. j \in 0..(n - 1) /\ (j # 0 => j - 1 \in 0..(n - 1))
          BY <3>1, <4>2
        <5>2. f[j] = IF j = 0 THEN 0 ELSE f[j - 1] + FrameSize(s[j])
          BY <3>4, <5>1
        <5> QED
          BY <3>6, <5>1, <5>2
      <4> QED
        BY <4>1, <4>2
    <3>8. g = [j \in 0..n |-> g[j]]
      BY <3>5
    <3>9. g = [j \in 0..n |-> IF j = 0 THEN 0 ELSE g[j - 1] + FrameSize(s[j])]
      BY <3>7, <3>8
    <3>10. Ends(g, s, n)
      BY <3>9 DEF Ends
    <3> QED
      BY <2>3, <3>10
  <2> QED
    BY <2>4, <2>5
<1> QED
  BY <1>1

\* A frame of the peer has a header of 2 to 14 bytes.
LEMMA SizeOfFrame ==
    ASSUME NEW f \in PeerFrames
    PROVE  /\ f.mask \in Nat /\ f.ext \in Nat /\ f.len \in Nat /\ f.fin \in BOOLEAN
           /\ HeadSize(f) = 2 + f.mask + f.ext /\ HeadSize(f) \in 2..14
           /\ FrameSize(f) = HeadSize(f) + f.len /\ FrameSize(f) \in Nat /\ FrameSize(f) >= 2
<1>1. f.mask \in {0, 4} /\ f.ext \in {0, 2, 8} /\ f.len \in Nat /\ f.fin \in BOOLEAN
  BY DEF PeerFrames
<1> QED
  BY <1>1 DEF HeadSize, FrameSize

\* Each frame ends its size behind the one before it.
LEMMA EndIs ==
    ASSUME NEW s \in Seq(PeerFrames)
    PROVE  /\ EndOf(s, 0) = 0
           /\ \A n \in 1..Len(s) : EndOf(s, n) = EndOf(s, n - 1) + FrameSize(s[n])
<1> DEFINE f == CHOOSE f : f = [i \in 0..Len(s) |-> IF i = 0 THEN 0 ELSE f[i - 1] + FrameSize(s[i])]
<1>1. \A n : EndOf(s, n) = f[n]
  BY DEF EndOf
<1>2. \E g : g = [i \in 0..Len(s) |-> IF i = 0 THEN 0 ELSE g[i - 1] + FrameSize(s[i])]
  BY EndsExist DEF Ends
<1>3. f = [i \in 0..Len(s) |-> IF i = 0 THEN 0 ELSE f[i - 1] + FrameSize(s[i])]
  BY <1>2
<1> HIDE DEF f
<1>4. f[0] = 0 /\ \A n \in 1..Len(s) : f[n] = f[n - 1] + FrameSize(s[n])
  BY <1>3
<1> QED
  BY <1>1, <1>4

\* The ends are numbers, and grow.
LEMMA EndGrows ==
    ASSUME NEW s \in Seq(PeerFrames)
    PROVE  /\ \A n \in 0..Len(s) : EndOf(s, n) \in Nat
           /\ \A m, n \in 0..Len(s) : m < n => EndOf(s, m) < EndOf(s, n)
<1>1. Len(s) \in Nat /\ \A n \in 1..Len(s) : FrameSize(s[n]) \in Nat /\ FrameSize(s[n]) >= 2
  BY SizeOfFrame
<1>2. /\ EndOf(s, 0) = 0
      /\ \A n \in 1..Len(s) : EndOf(s, n) = EndOf(s, n - 1) + FrameSize(s[n])
  BY EndIs
<1> DEFINE Good(n) == EndOf(s, n) \in Nat /\ \A m \in 0..Len(s) : m < n => EndOf(s, m) < EndOf(s, n)
           S == {n \in 0..Len(s) : ~Good(n)}
<1>3. S = {}
  <2> SUFFICES ASSUME S # {} PROVE FALSE
    OBVIOUS
  <2>1. S \subseteq Nat
    BY <1>1
  <2>2. PICK n \in S : \A x \in S : n <= x
    <3> HIDE DEF S
    <3> QED
      BY <2>1, LeastNumber
  <2>3. n \in 0..Len(s) /\ ~Good(n)
    OBVIOUS
  <2>4. CASE n = 0
    BY <1>2, <2>3, <2>4
  <2>5. CASE n # 0
    <3>1. n - 1 \in 0..Len(s) /\ n \in 1..Len(s) /\ ~(n <= n - 1)
      BY <1>1, <2>3, <2>5
    <3>2. n - 1 \notin S
      <4> HIDE DEF S
      <4> QED
        BY <2>2, <3>1
    <3>3. Good(n - 1)
      BY <3>1, <3>2
    <3>4. EndOf(s, n) = EndOf(s, n - 1) + FrameSize(s[n])
      BY <1>2, <3>1
    <3>5. EndOf(s, n) \in Nat /\ EndOf(s, n - 1) < EndOf(s, n)
      BY <1>1, <3>1, <3>3, <3>4
    <3>6. ASSUME NEW m \in 0..Len(s), m < n PROVE EndOf(s, m) < EndOf(s, n)
      <4>1. CASE m = n - 1
        BY <3>5, <4>1
      <4>2. CASE m # n - 1
        <5>1. m < n - 1
          BY <1>1, <3>1, <3>6, <4>2
        <5>2. EndOf(s, m) < EndOf(s, n - 1)
          BY <3>3, <5>1
        <5>3. EndOf(s, m) \in Nat
          <6>1. ~(n <= m)
            BY <1>1, <3>1, <3>6
          <6>2. m \notin S
            <7> HIDE DEF S
            <7> QED
              BY <2>2, <6>1
          <6> QED
            BY <6>2
        <5> QED
          BY <3>3, <3>5, <5>2, <5>3
      <4> QED
        BY <4>1, <4>2
    <3> QED
      BY <2>3, <3>5, <3>6
  <2> QED
    BY <2>4, <2>5
<1> QED
  BY <1>3

\* The frame that starts where another ends is the next one.
LEMMA FrameAtIs ==
    ASSUME NEW s \in Seq(PeerFrames), NEW n \in 1..Len(s)
    PROVE  FrameAt(s, EndOf(s, n - 1)) = n
<1>1. DOMAIN s = 1..Len(s) /\ Len(s) \in Nat
  OBVIOUS
<1>2. ASSUME NEW m \in 1..Len(s), EndOf(s, m - 1) = EndOf(s, n - 1) PROVE m = n
  <2>1. /\ m - 1 \in 0..Len(s) /\ n - 1 \in 0..Len(s)
        /\ EndOf(s, m - 1) \in Nat /\ EndOf(s, n - 1) \in Nat
    BY <1>1, EndGrows
  <2>2. ~(m - 1 < n - 1) /\ ~(n - 1 < m - 1)
    BY <1>2, <2>1, EndGrows, SMTT(30)
  <2> QED
    BY <1>1, <2>2
<1>3. {m \in DOMAIN s : EndOf(s, m - 1) = EndOf(s, n - 1)} = {n}
  BY <1>1, <1>2
<1>4. Min({n}) = n
  BY <1>1 DEF Min
<1> QED
  BY <1>3, <1>4 DEF FrameAt

-----------------------------------------------------------------------------
(* Bytes                                                                   *)

\* Numbers in a row.
LEMMA BytesAre ==
    ASSUME NEW a \in Nat, NEW n \in Nat
    PROVE  /\ Bytes(a, n) \in Seq(Nat) /\ Len(Bytes(a, n)) = n
           /\ \A i \in 1..n : Bytes(a, n)[i] = a + i - 1
BY DEF Bytes

\* The beginning of a row.
LEMMA BytesCut ==
    ASSUME NEW a \in Nat, NEW n \in Nat, NEW m \in 0..n
    PROVE  SubSeq(Bytes(a, n), 1, m) = Bytes(a, m)
<1>1. \A i \in 1..m : Bytes(a, n)[i] \in Nat /\ Bytes(a, n)[i] = a + i - 1
  <2>1. \A i \in 1..m : i \in 1..n /\ a + i - 1 \in Nat
    OBVIOUS
  <2> QED
    BY <2>1, BytesAre
<1>2. /\ SubSeq(Bytes(a, n), 1, m) \in Seq(Nat) /\ Len(SubSeq(Bytes(a, n), 1, m)) = m
      /\ \A i \in 1..m : SubSeq(Bytes(a, n), 1, m)[i] = Bytes(a, n)[i]
  BY <1>1, SubSeqProperties
<1>3. /\ Bytes(a, m) \in Seq(Nat) /\ Len(Bytes(a, m)) = m
      /\ \A i \in 1..m : Bytes(a, m)[i] = a + i - 1
  BY BytesAre
<1> QED
  BY <1>1, <1>2, <1>3, SeqEqual

\* A row behind a row.
LEMMA BytesJoin ==
    ASSUME NEW a \in Nat, NEW n \in Nat, NEW m \in Nat
    PROVE  Bytes(a, n) \o Bytes(a + n, m) = Bytes(a, n + m)
<1>0. a + n \in Nat /\ n + m \in Nat
  OBVIOUS
<1>1. /\ Bytes(a, n) \in Seq(Nat) /\ Len(Bytes(a, n)) = n
      /\ \A i \in 1..n : Bytes(a, n)[i] = a + i - 1
  BY BytesAre
<1>2. /\ Bytes(a + n, m) \in Seq(Nat) /\ Len(Bytes(a + n, m)) = m
      /\ \A i \in 1..m : Bytes(a + n, m)[i] = a + n + i - 1
  BY <1>0, BytesAre
<1>3. /\ Bytes(a, n + m) \in Seq(Nat) /\ Len(Bytes(a, n + m)) = n + m
      /\ \A i \in 1..(n + m) : Bytes(a, n + m)[i] = a + i - 1
  BY <1>0, BytesAre
<1>4. /\ Bytes(a, n) \o Bytes(a + n, m) \in Seq(Nat) /\ Len(Bytes(a, n) \o Bytes(a + n, m)) = n + m
      /\ \A i \in 1..(n + m) : (Bytes(a, n) \o Bytes(a + n, m))[i] =
            IF i <= n THEN Bytes(a, n)[i] ELSE Bytes(a + n, m)[i - n]
  <2> HIDE DEF Bytes
  <2>1. PICK r \in Seq(Nat), q \in Seq(Nat) : r = Bytes(a, n) /\ q = Bytes(a + n, m)
    BY <1>1, <1>2
  <2>2. /\ r \o q \in Seq(Nat) /\ Len(r \o q) = Len(r) + Len(q)
        /\ \A i \in 1..(Len(r) + Len(q)) : (r \o q)[i] = IF i <= Len(r) THEN r[i] ELSE q[i - Len(r)]
    BY ConcatProperties
  <2> QED
    BY <1>1, <1>2, <2>1, <2>2
<1>5. ASSUME NEW i \in 1..(n + m)
      PROVE  (Bytes(a, n) \o Bytes(a + n, m))[i] = Bytes(a, n + m)[i]
  <2>1. CASE i <= n
    BY <1>1, <1>3, <1>4, <2>1
  <2>2. CASE ~(i <= n)
    <3>1. i - n \in 1..m
      BY <2>2
    <3>2. Bytes(a + n, m)[i - n] = a + n + (i - n) - 1
      BY <1>2, <3>1
    <3>3. (Bytes(a, n) \o Bytes(a + n, m))[i] = Bytes(a + n, m)[i - n]
      BY <1>4, <2>2
    <3>4. a + n + (i - n) - 1 = a + i - 1
      OBVIOUS
    <3>5. Bytes(a, n + m)[i] = a + i - 1
      BY <1>3
    <3> HIDE DEF Bytes
    <3> QED
      BY <3>2, <3>3, <3>4, <3>5
  <2> QED
    BY <2>1, <2>2
<1> QED
  BY <1>3, <1>4, <1>5, SeqEqual

-----------------------------------------------------------------------------
(* Messages in a row                                                       *)

\* The first n sequences of ss, joined.
Flats(f, ss, n) == f = [i \in 1..n |-> IF i = 1 THEN ss[i] ELSE f[i - 1] \o ss[i]]

\* They can be joined.
LEMMA FlatsExist ==
    ASSUME NEW ss, NEW N \in Nat
    PROVE  \E f : Flats(f, ss, N)
<1> DEFINE S == {n \in 0..N : ~\E f : Flats(f, ss, n)}
<1>1. S = {}
  <2> SUFFICES ASSUME S # {} PROVE FALSE
    OBVIOUS
  <2>1. S \subseteq Nat
    OBVIOUS
  <2>2. PICK n \in S : \A x \in S : n <= x
    <3> HIDE DEF S
    <3> QED
      BY <2>1, LeastNumber
  <2>3. n \in 0..N /\ ~\E f : Flats(f, ss, n)
    OBVIOUS
  <2>4. CASE n = 0
    <3>1. PICK f : f = [j \in 1..0 |-> 0]
      OBVIOUS
    <3>2. f = [j \in 1..0 |-> IF j = 1 THEN ss[j] ELSE f[j - 1] \o ss[j]]
      BY <3>1
    <3>3. Flats(f, ss, 0)
      BY <3>2 DEF Flats
    <3> QED
      BY <2>3, <2>4, <3>3
  <2>5. CASE n # 0
    <3>1. n \in Nat /\ n - 1 \in 0..N /\ ~(n <= n - 1)
      BY <2>3, <2>5
    <3>2. n - 1 \notin S
      <4> HIDE DEF S
      <4> QED
        BY <2>2, <3>1
    <3>3. PICK f : Flats(f, ss, n - 1)
      BY <3>1, <3>2
    <3>4. f = [j \in 1..(n - 1) |-> IF j = 1 THEN ss[j] ELSE f[j - 1] \o ss[j]]
      BY <3>3 DEF Flats
    <3>5. PICK e : e = IF n = 1 THEN ss[n] ELSE f[n - 1] \o ss[n]
      OBVIOUS
    <3>6. PICK g : g = [j \in 1..n |-> IF j = n THEN e ELSE f[j]]
      OBVIOUS
    <3>7. \A j \in 1..(n - 1) : g[j] = f[j] /\ j # n /\ j \in 1..n
      BY <3>1, <3>6
    <3>8. ASSUME NEW j \in 1..n
          PROVE  g[j] = IF j = 1 THEN ss[j] ELSE g[j - 1] \o ss[j]
      <4>1. CASE j = n
        <5>1. g[j] = e /\ (n # 1 => n - 1 \in 1..(n - 1))
          BY <2>5, <3>1, <3>6, <4>1
        <5> QED
          BY <3>5, <3>7, <4>1, <5>1
      <4>2. CASE j # n
        <5>1. j \in 1..(n - 1) /\ (j # 1 => j - 1 \in 1..(n - 1))
          BY <3>1, <4>2
        <5>2. f[j] = IF j = 1 THEN ss[j] ELSE f[j - 1] \o ss[j]
          BY <3>4, <5>1
        <5> QED
          BY <3>7, <5>1, <5>2
      <4> QED
        BY <4>1, <4>2
    <3>9. g = [j \in 1..n |-> g[j]]
      BY <3>6
    <3>10. g = [j \in 1..n |-> IF j = 1 THEN ss[j] ELSE g[j - 1] \o ss[j]]
      BY <3>8, <3>9
    <3>11. Flats(g, ss, n)
      BY <3>10, Zenon DEF Flats
    <3> QED
      BY <2>3, <3>11
  <2> QED
    BY <2>4, <2>5
<1> QED
  BY <1>1

\* What FlattenSeq makes of sequences of numbers.
LEMMA FlatIs ==
    ASSUME NEW ss, NEW n \in Nat, Len(ss) = n, n # 0
    PROVE  \E f : Flats(f, ss, n) /\ FlattenSeq(ss) = f[n]
<1> DEFINE f == CHOOSE f : f = [i \in 1..Len(ss) |-> IF i = 1 THEN ss[i] ELSE f[i - 1] \o ss[i]]
<1>1. FlattenSeq(ss) = f[Len(ss)]
  BY DEF FlattenSeq
<1>2. \E g : g = [i \in 1..Len(ss) |-> IF i = 1 THEN ss[i] ELSE g[i - 1] \o ss[i]]
  BY FlatsExist, Zenon DEF Flats
<1>3. f = [i \in 1..Len(ss) |-> IF i = 1 THEN ss[i] ELSE f[i - 1] \o ss[i]]
  BY <1>2, Zenon
<1> HIDE DEF f
<1>4. Flats(f, ss, Len(ss))
  BY <1>3 DEF Flats
<1> QED
  BY <1>1, <1>4

\* The first n of two rows that begin alike give the same numbers.
LEMMA FlatsAgree ==
    ASSUME NEW f, NEW g, NEW ss, NEW tt, NEW n \in Nat, NEW m \in Nat, n <= m,
           Flats(f, ss, n), Flats(g, tt, m),
           \A i \in 1..n : ss[i] = tt[i] /\ ss[i] \in Seq(Nat)
    PROVE  \A i \in 1..n : f[i] = g[i] /\ f[i] \in Seq(Nat)
<1>1. f = [i \in 1..n |-> IF i = 1 THEN ss[i] ELSE f[i - 1] \o ss[i]]
  BY DEF Flats
<1>2. g = [i \in 1..m |-> IF i = 1 THEN tt[i] ELSE g[i - 1] \o tt[i]]
  BY DEF Flats
<1> DEFINE S == {i \in 1..n : ~(f[i] = g[i] /\ f[i] \in Seq(Nat))}
<1>3. S = {}
  <2> SUFFICES ASSUME S # {} PROVE FALSE
    OBVIOUS
  <2>1. S \subseteq Nat
    OBVIOUS
  <2>2. PICK i \in S : \A x \in S : i <= x
    <3> HIDE DEF S
    <3> QED
      BY <2>1, LeastNumber
  <2>3. i \in 1..n /\ ~(f[i] = g[i] /\ f[i] \in Seq(Nat))
    OBVIOUS
  <2>4. /\ f[i] = IF i = 1 THEN ss[i] ELSE f[i - 1] \o ss[i]
        /\ g[i] = IF i = 1 THEN tt[i] ELSE g[i - 1] \o tt[i]
    <3>1. i \in 1..m
      BY <2>3
    <3> HIDE DEF S
    <3>2. f[i] = IF i = 1 THEN ss[i] ELSE f[i - 1] \o ss[i]
      BY <1>1, <2>3
    <3>3. g[i] = IF i = 1 THEN tt[i] ELSE g[i - 1] \o tt[i]
      BY <1>2, <3>1
    <3> QED
      BY <3>2, <3>3
  <2>5. CASE i = 1
    BY <2>3, <2>4, <2>5
  <2>6. CASE i # 1
    <3>1. i - 1 \in 1..n /\ ~(i <= i - 1)
      BY <2>3, <2>6
    <3>2. i - 1 \notin S
      <4> HIDE DEF S
      <4> QED
        BY <2>2, <3>1
    <3>3. f[i - 1] = g[i - 1] /\ f[i - 1] \in Seq(Nat)
      BY <3>1, <3>2
    <3>4. f[i] = g[i]
      BY <2>3, <2>4, <2>6, <3>3
    <3>5. f[i] \in Seq(Nat)
      <4>1. ss[i] \in Seq(Nat) /\ f[i] = f[i - 1] \o ss[i]
        BY <2>3, <2>4, <2>6
      <4> QED
        BY <3>3, <4>1, ConcatProperties
    <3> QED
      BY <2>3, <3>4, <3>5
  <2> QED
    BY <2>5, <2>6
<1> QED
  BY <1>3

\* Numbers in a row, again.
LEMMA FlatSeq ==
    ASSUME NEW ss \in Seq(Seq(Nat))
    PROVE  FlattenSeq(ss) \in Seq(Nat)
<1>1. CASE Len(ss) = 0
  <2>1. ss = <<>> /\ FlattenSeq(ss) = ss
    BY <1>1, EmptySeq DEF FlattenSeq
  <2>2. <<>> \in Seq(Nat)
    BY EmptySeq
  <2> QED
    BY <2>1, <2>2, Zenon
<1>2. CASE Len(ss) # 0
  <2>1. PICK f : Flats(f, ss, Len(ss)) /\ FlattenSeq(ss) = f[Len(ss)]
    BY <1>2, FlatIs
  <2>2. \A i \in 1..Len(ss) : ss[i] = ss[i] /\ ss[i] \in Seq(Nat)
    OBVIOUS
  <2>3. Len(ss) \in Nat /\ Len(ss) <= Len(ss) /\ Len(ss) \in 1..Len(ss)
    BY <1>2
  <2>4. \A i \in 1..Len(ss) : f[i] = f[i] /\ f[i] \in Seq(Nat)
    BY <2>1, <2>2, <2>3, FlatsAgree
  <2> QED
    BY <2>1, <2>3, <2>4
<1> QED
  BY <1>1, <1>2

\* One more message comes behind the others.
LEMMA FlatAppend ==
    ASSUME NEW ss \in Seq(Seq(Nat)), NEW x \in Seq(Nat)
    PROVE  FlattenSeq(Append(ss, x)) = FlattenSeq(ss) \o x
<1>1. PICK n \in Nat : n = Len(ss)
  OBVIOUS
<1>2. PICK tt \in Seq(Seq(Nat)) : tt = Append(ss, x)
  BY AppendProperties
<1>3. Len(tt) = n + 1 /\ tt[n + 1] = x /\ \A i \in 1..n : tt[i] = ss[i] /\ ss[i] \in Seq(Nat)
  BY <1>1, <1>2
<1>4. PICK g : Flats(g, tt, n + 1) /\ FlattenSeq(tt) = g[n + 1]
  BY <1>1, <1>3, FlatIs
<1>5. g = [i \in 1..(n + 1) |-> IF i = 1 THEN tt[i] ELSE g[i - 1] \o tt[i]]
  BY <1>4 DEF Flats
<1>6. g[n + 1] = IF n + 1 = 1 THEN tt[n + 1] ELSE g[n + 1 - 1] \o tt[n + 1]
  <2>1. n + 1 \in 1..(n + 1)
    OBVIOUS
  <2>2. \A i \in 1..(n + 1) : g[i] = IF i = 1 THEN tt[i] ELSE g[i - 1] \o tt[i]
    BY <1>5, Zenon
  <2> QED
    BY <2>1, <2>2
<1>7. CASE n = 0
  <2>1. ss = <<>> /\ FlattenSeq(ss) = ss
    BY <1>1, <1>7, EmptySeq DEF FlattenSeq
  <2>2. FlattenSeq(ss) \o x = x
    BY <2>1, ConcatEmptySeq
  <2>3. g[n + 1] = x
    BY <1>3, <1>6, <1>7
  <2> QED
    BY <1>2, <1>4, <2>2, <2>3
<1>8. CASE n # 0
  <2>1. PICK f : Flats(f, ss, n) /\ FlattenSeq(ss) = f[n]
    BY <1>1, <1>8, FlatIs
  <2>2. n <= n + 1 /\ n + 1 \in Nat /\ n \in 1..n /\ n + 1 - 1 = n /\ n + 1 # 1
    BY <1>8
  <2>3. \A i \in 1..n : ss[i] = tt[i] /\ ss[i] \in Seq(Nat)
    BY <1>3
  <2>4. \A i \in 1..n : f[i] = g[i] /\ f[i] \in Seq(Nat)
    BY <1>4, <2>1, <2>2, <2>3, FlatsAgree
  <2>5. f[n] = g[n]
    BY <2>2, <2>4
  <2>6. g[n + 1] = g[n] \o x
    BY <1>3, <1>6, <2>2
  <2> QED
    BY <1>2, <1>4, <2>1, <2>5, <2>6
<1> QED
  BY <1>7, <1>8

\* A payload is a row of numbers.
LEMMA PayloadIs ==
    ASSUME NEW s \in Seq(PeerFrames), NEW n \in 1..Len(s)
    PROVE  /\ EndOf(s, n - 1) \in Nat /\ HeadSize(s[n]) \in Nat /\ s[n].len \in Nat
           /\ Payload(s, n) = Bytes(EndOf(s, n - 1) + HeadSize(s[n]), s[n].len)
           /\ Payload(s, n) \in Seq(Nat)
<1>1. EndOf(s, n - 1) \in Nat
  <2>1. n - 1 \in 0..Len(s)
    OBVIOUS
  <2> QED
    BY <2>1, EndGrows
<1>2. HeadSize(s[n]) \in Nat /\ s[n].len \in Nat
  <2>1. s[n] \in PeerFrames
    OBVIOUS
  <2> QED
    BY <2>1, SizeOfFrame, SMTT(30)
<1>3. EndOf(s, n - 1) + HeadSize(s[n]) \in Nat
  BY <1>1, <1>2
<1>4. Payload(s, n) = Bytes(EndOf(s, n - 1) + HeadSize(s[n]), s[n].len)
  BY DEF Payload
<1> QED
  BY <1>1, <1>2, <1>3, <1>4, BytesAre

\* The next frame adds its payload.
LEMMA PayloadsGrow ==
    ASSUME NEW s \in Seq(PeerFrames), NEW n \in 1..Len(s)
    PROVE  /\ Payloads(s, n - 1) \in Seq(Seq(Nat))
           /\ FlattenSeq(Payloads(s, n)) = FlattenSeq(Payloads(s, n - 1)) \o Payload(s, n)
<1>1. \A i \in 1..n : Payload(s, i) \in Seq(Nat)
  <2>1. \A i \in 1..n : i \in 1..Len(s)
    OBVIOUS
  <2> QED
    BY <2>1, PayloadIs
<1>2. n - 1 \in Nat /\ n \in Nat /\ \A i \in 1..(n - 1) : i \in 1..n
  OBVIOUS
<1>3. Payloads(s, n - 1) \in Seq(Seq(Nat)) /\ Len(Payloads(s, n - 1)) = n - 1
  BY <1>1, <1>2 DEF Payloads
<1>4. Payloads(s, n) \in Seq(Seq(Nat)) /\ Len(Payloads(s, n)) = n
  BY <1>1, <1>2 DEF Payloads
<1>5. /\ Append(Payloads(s, n - 1), Payload(s, n)) \in Seq(Seq(Nat))
      /\ Len(Append(Payloads(s, n - 1), Payload(s, n))) = n
      /\ \A i \in 1..(n - 1) : Append(Payloads(s, n - 1), Payload(s, n))[i] = Payloads(s, n - 1)[i]
      /\ Append(Payloads(s, n - 1), Payload(s, n))[n] = Payload(s, n)
  <2>1. PICK p \in Seq(Seq(Nat)), q \in Seq(Nat) : p = Payloads(s, n - 1) /\ q = Payload(s, n)
    BY <1>1, <1>2, <1>3
  <2>2. Len(p) = n - 1
    BY <1>3, <2>1
  <2>3. /\ Append(p, q) \in Seq(Seq(Nat)) /\ Len(Append(p, q)) = n
        /\ \A i \in 1..(n - 1) : Append(p, q)[i] = p[i]
        /\ Append(p, q)[n] = q
    BY <2>2
  <2> QED
    BY <2>1, <2>3
<1>6. ASSUME NEW i \in 1..n
      PROVE  Append(Payloads(s, n - 1), Payload(s, n))[i] = Payloads(s, n)[i]
  <2>1. Payloads(s, n)[i] = Payload(s, i)
    BY DEF Payloads
  <2>2. CASE i = n
    BY <1>5, <2>1, <2>2
  <2>3. CASE i # n
    <3>1. i \in 1..(n - 1)
      BY <2>3
    <3>2. Payloads(s, n - 1)[i] = Payload(s, i)
      BY <3>1 DEF Payloads
    <3> QED
      BY <1>5, <2>1, <3>1, <3>2
  <2> QED
    BY <2>2, <2>3
<1>7. Payloads(s, n) = Append(Payloads(s, n - 1), Payload(s, n))
  BY <1>4, <1>5, <1>6, SeqEqual
<1> QED
  BY <1>1, <1>2, <1>3, <1>7, FlatAppend

-----------------------------------------------------------------------------
(* Reads                                                                   *)

\* The smaller and the larger of two numbers.
LEMMA OfTwo ==
    ASSUME NEW x \in Int, NEW y \in Int
    PROVE  /\ Min({x, y}) = IF x <= y THEN x ELSE y
           /\ Max({x, y}) = IF x <= y THEN y ELSE x
BY DEF Min, Max

\* The stream ends at a number.
LEMMA TotalIs ==
    ASSUME NEW s \in Seq(PeerFrames)
    PROVE  Total(s) \in Nat /\ Total(s) = EndOf(s, Len(s))
<1>1. Len(s) \in 0..Len(s)
  OBVIOUS
<1> QED
  BY <1>1, EndGrows DEF Total

\* What a read of n bytes may bring: no more than was asked for or is there;
\* a count of bytes is the bytes taken, and clears the tries; "not yet" is
\* only for those who do not block.
ReadOK(o, n, blocking) ==
    /\ o.r \in Int /\ o.take \in Nat /\ o.x \in Nat
    /\ o.take <= n /\ kws.pos + o.take <= Total(kws.script)
    /\ kws.unprocessed > 0 => o.take <= kws.unprocessed /\ o.x = 0
    /\ o.r >= -2 /\ o.x <= MaxX + 1
    /\ o.r >= 0 => o.r = o.take /\ o.x = 0
    /\ o.r = -2 => ~blocking /\ o.take = 0 /\ o.x < MaxX

\* kws_raw_read and kws_string_read.
LEMMA ReadIs ==
    ASSUME kws \in KwsRecord, Streams(kws), kws.x < MaxX,
           NEW n \in Nat, n # 0, NEW blocking \in BOOLEAN,
           NEW size, size = n + 1, NEW o \in StringReads(size, blocking)
    PROVE  ReadOK(o, n, blocking)
<1>1. /\ kws.script \in Seq(PeerFrames) /\ kws.unprocessed \in Nat /\ kws.pos \in Nat
      /\ kws.x \in Nat /\ kws.eof \in BOOLEAN
  BY DEF KwsRecord
<1>2. kws.pos + kws.unprocessed <= Total(kws.script) /\ (kws.unprocessed > 0 => kws.x = 0)
  BY DEF Streams
<1>3. PICK total \in Nat : total = Total(kws.script)
  BY <1>1, TotalIs
<1>4. BlockN \in Nat /\ BlockN # 0 /\ MaxX \in Nat /\ BlockN <= MaxX
  BY FrameConstants
<1>5. o \in RawReads(n, blocking)
  <2>1. size - 1 = n /\ ~(size < 2)
    OBVIOUS
  <2> QED
    BY <2>1 DEF StringReads
<1>6. CASE kws.unprocessed > 0
  <2>1. PICK g \in Nat : g = Min({kws.unprocessed, n}) /\ g <= kws.unprocessed /\ g <= n
    BY <1>1, OfTwo
  <2>2. o = [r |-> g, take |-> g, x |-> kws.x]
    BY <1>5, <1>6, <2>1 DEF RawReads
  <2>3. o.r = g /\ o.take = g /\ o.x = 0
    BY <1>2, <1>6, <2>2
  <2> QED
    BY <1>1, <1>2, <1>3, <1>4, <1>6, <2>1, <2>3 DEF ReadOK
<1>7. CASE ~(kws.unprocessed > 0)
  <2> DEFINE left == Total(kws.script) - kws.pos
             limit(y) == y >= MaxX \/ (blocking /\ y >= BlockN)
             tries == {kws.x + 1} \cup (IF blocking THEN (kws.x + 2)..(BlockN - 1) ELSE {})
             some == IF kws.eof THEN {0} ELSE 0..Min({n, left})
             nothing == IF blocking THEN Max({kws.x + 2, BlockN}) ELSE kws.x + 1
  <2>1. o \in {[r |-> IF limit(y) THEN -1 ELSE d, take |-> d, x |-> IF limit(y) THEN y ELSE 0] :
                  y \in tries, d \in some}
             \cup {[r |-> IF limit(nothing) THEN -1 ELSE -2, take |-> 0, x |-> nothing],
                   [r |-> -1, take |-> 0, x |-> nothing]}
    BY <1>5, <1>7 DEF RawReads
  <2>2. \A y \in tries : y \in Nat /\ y <= MaxX
    BY <1>1, <1>4
  <2>3. \A d \in some : d \in Nat /\ d <= n /\ kws.pos + d <= Total(kws.script)
    <3>1. left \in Nat
      BY <1>1, <1>2, <1>3
    <3>2. Min({n, left}) = IF n <= left THEN n ELSE left
      BY <3>1, OfTwo
    <3> QED
      BY <1>1, <1>2, <1>3, <3>1, <3>2
  <2>4. nothing \in Nat /\ nothing <= MaxX + 1 /\ (blocking => nothing >= BlockN)
    <3>0. kws.x + 2 \in Int /\ BlockN \in Int
      BY <1>1, <1>4
    <3>1. Max({kws.x + 2, BlockN}) = IF kws.x + 2 <= BlockN THEN BlockN ELSE kws.x + 2
      BY <3>0, OfTwo, Zenon
    <3> QED
      BY <1>1, <1>4, <3>1
  <2> HIDE DEF tries, some, nothing
  <2>5. CASE \E y \in tries, d \in some :
                o = [r |-> IF limit(y) THEN -1 ELSE d, take |-> d, x |-> IF limit(y) THEN y ELSE 0]
    <3>1. PICK y \in tries, d \in some :
                o = [r |-> IF limit(y) THEN -1 ELSE d, take |-> d, x |-> IF limit(y) THEN y ELSE 0]
      BY <2>5
    <3>2. /\ o.r = (IF limit(y) THEN -1 ELSE d) /\ o.take = d
          /\ o.x = IF limit(y) THEN y ELSE 0
      BY <3>1
    <3>3. y \in Nat /\ y <= MaxX /\ d \in Nat /\ d <= n /\ kws.pos + d <= Total(kws.script)
      BY <2>2, <2>3
    <3>4. CASE limit(y)
      <4>1. o.r = -1 /\ o.take = d /\ o.x = y
        BY <3>2, <3>4
      <4> HIDE DEF limit
      <4> QED
        BY <1>4, <1>7, <3>3, <4>1 DEF ReadOK
    <3>5. CASE ~limit(y)
      <4>1. o.r = d /\ o.take = d /\ o.x = 0
        BY <3>2, <3>5
      <4> HIDE DEF limit
      <4> QED
        BY <1>4, <1>7, <3>3, <4>1 DEF ReadOK
    <3> QED
      BY <3>4, <3>5
  <2>6. CASE o = [r |-> IF limit(nothing) THEN -1 ELSE -2, take |-> 0, x |-> nothing]
    <3>1. o.r = (IF limit(nothing) THEN -1 ELSE -2) /\ o.take = 0 /\ o.x = nothing
      BY <2>6
    <3>2. o.r \in {-1, -2} /\ (o.r = -2 => ~blocking /\ o.x < MaxX)
      BY <1>4, <2>4, <3>1
    <3>3. kws.pos + 0 <= Total(kws.script)
      BY <1>1, <1>2, <1>3
    <3> HIDE DEF limit
    <3> QED
      BY <1>4, <1>7, <2>4, <3>1, <3>2, <3>3 DEF ReadOK
  <2>7. CASE o = [r |-> -1, take |-> 0, x |-> nothing]
    <3>1. o.r = -1 /\ o.take = 0 /\ o.x = nothing
      BY <2>7
    <3>2. kws.pos + 0 <= Total(kws.script)
      BY <1>1, <1>2, <1>3
    <3> QED
      BY <1>4, <1>7, <2>4, <3>1, <3>2 DEF ReadOK
  <2> HIDE DEF limit
  <2> QED
    BY <2>1, <2>5, <2>6, <2>7
<1> QED
  BY <1>6, <1>7

\* What a read changes.
Moved(k, o) ==
    /\ k \in KwsRecord /\ k.pos = kws.pos + o.take /\ k.x = o.x
    /\ k.pos + k.unprocessed <= Total(kws.script) /\ (k.unprocessed > 0 => k.x = 0)
    /\ k.script = kws.script /\ k.block = kws.block /\ k.zero_reads = kws.zero_reads
    /\ k.down = kws.down /\ k.pc = kws.pc /\ k.start = kws.start /\ k.frame = kws.frame
    /\ k.datalen = kws.datalen /\ k.frag = kws.frag /\ k.body = kws.body
    /\ k.rplen = kws.rplen /\ k.bbuflen = kws.bbuflen /\ k.bbuffer = kws.bbuffer
    /\ k.read = kws.read /\ k.refused = kws.refused /\ k.wire = kws.wire

\* The socket after a read.
LEMMA AfterReadIs ==
    ASSUME kws \in KwsRecord, Streams(kws), NEW n \in Nat, NEW blocking \in BOOLEAN,
           NEW o, ReadOK(o, n, blocking)
    PROVE  Moved(AfterRead(o), o)
<1>1. /\ kws.script \in Seq(PeerFrames) /\ kws.unprocessed \in Nat /\ kws.pos \in Nat
      /\ kws.x \in Nat /\ kws.eof \in BOOLEAN
  BY DEF KwsRecord
<1>2. kws.pos + kws.unprocessed <= Total(kws.script)
  BY DEF Streams
<1>3. PICK total \in Nat : total = Total(kws.script)
  BY <1>1, TotalIs
<1>4. /\ o.take \in Nat /\ o.x \in Nat /\ kws.pos + o.take <= Total(kws.script)
      /\ kws.unprocessed > 0 => o.take <= kws.unprocessed /\ o.x = 0
  BY DEF ReadOK
<1>5. PICK u \in Nat : /\ u = Max({0, kws.unprocessed - o.take})
                       /\ u = IF kws.unprocessed > 0 THEN kws.unprocessed - o.take ELSE 0
  <2>0. 0 \in Int /\ kws.unprocessed - o.take \in Int
    BY <1>1, <1>4
  <2>1. Max({0, kws.unprocessed - o.take})
          = IF 0 <= kws.unprocessed - o.take THEN kws.unprocessed - o.take ELSE 0
    BY <2>0, OfTwo, Zenon
  <2>2. CASE kws.unprocessed > 0
    <3>1. kws.unprocessed - o.take \in Nat
      BY <1>1, <1>4, <2>2
    <3> QED
      BY <2>1, <2>2, <3>1
  <2>3. CASE ~(kws.unprocessed > 0)
    <3>1. kws.unprocessed = 0 /\ (0 <= kws.unprocessed - o.take => kws.unprocessed - o.take = 0)
      BY <1>1, <1>4, <2>3
    <3> QED
      BY <2>1, <2>3, <3>1
  <2> QED
    BY <2>2, <2>3
<1>6. PICK e \in BOOLEAN : e = (kws.eof \/ (o.r = 0 /\ kws.unprocessed = 0))
  BY <1>1
<1>7. PICK p \in Nat : p = kws.pos + o.take
  BY <1>1, <1>4
<1>8. AfterRead(o) = [kws EXCEPT !.pos = p, !.x = o.x, !.unprocessed = u, !.eof = e]
  BY <1>5, <1>6, <1>7 DEF AfterRead, KwsRecord
<1>9. PICK k : k = AfterRead(o)
  OBVIOUS
<1>10. k = [kws EXCEPT !.pos = p, !.x = o.x, !.unprocessed = u, !.eof = e]
  BY <1>8, <1>9
<1>11. k \in KwsRecord
  BY <1>4, <1>10 DEF KwsRecord
<1>12. /\ k.pos = p /\ k.x = o.x /\ k.unprocessed = u
       /\ k.script = kws.script /\ k.block = kws.block /\ k.zero_reads = kws.zero_reads
       /\ k.down = kws.down /\ k.pc = kws.pc /\ k.start = kws.start /\ k.frame = kws.frame
       /\ k.datalen = kws.datalen /\ k.frag = kws.frag /\ k.body = kws.body
       /\ k.rplen = kws.rplen /\ k.bbuflen = kws.bbuflen /\ k.bbuffer = kws.bbuffer
       /\ k.read = kws.read /\ k.refused = kws.refused /\ k.wire = kws.wire
  BY <1>10 DEF KwsRecord
<1>13. p + u <= total /\ (u > 0 => o.x = 0)
  BY <1>1, <1>2, <1>3, <1>4, <1>5, <1>7
<1>14. Moved(k, o)
  BY <1>3, <1>7, <1>11, <1>12, <1>13 DEF Moved
<1> QED
  BY <1>9, <1>14

\* What a socket that is closed must have left.
Leaving(k) ==
    /\ k \in KwsRecord
    /\ k.pos + k.unprocessed <= Total(k.script) /\ (k.unprocessed > 0 => k.x = 0)
    /\ k.x <= MaxX + 1 /\ k.frame <= Len(k.script) /\ k.datalen >= -2 /\ k.datalen <= 14
    /\ "garbled" \notin k.refused /\ Told(k.wire)

\* kws_close.
LEMMA ClosedOK ==
    ASSUME NEW k, Leaving(k), NEW why \in Reasons, why # "garbled"
    PROVE  SocketOK(Closed(k, why))
<1>1. k \in KwsRecord
  BY DEF Leaving
<1>2. k.refused \cup {why} \in SUBSET Reasons /\ "garbled" \notin k.refused \cup {why}
  BY <1>1 DEF KwsRecord, Leaving
<1>3. PICK w : w = Closed(k, why)
  OBVIOUS
<1>4. w = [k EXCEPT !.down = TRUE, !.pc = "idle", !.refused = k.refused \cup {why}]
  BY <1>1, <1>3 DEF Closed, KwsRecord
<1>5. w \in KwsRecord
  BY <1>1, <1>2, <1>4 DEF KwsRecord, FrameSteps
<1>6. /\ w.down = TRUE /\ w.pc = "idle" /\ w.refused = k.refused \cup {why}
      /\ w.script = k.script /\ w.pos = k.pos /\ w.unprocessed = k.unprocessed /\ w.x = k.x
      /\ w.frame = k.frame /\ w.datalen = k.datalen /\ w.wire = k.wire
  BY <1>1, <1>4 DEF KwsRecord
<1>7. Streams(w)
  BY <1>6 DEF Streams, Leaving, Begun
<1>8. Framed(w)
  BY <1>6 DEF Framed, Leaving
<1>9. Fragments(w) /\ AllThere(w)
  BY <1>6 DEF Fragments, AllThere
<1>10. "garbled" \notin w.refused /\ Told(w.wire)
  BY <1>2, <1>6 DEF Leaving
<1> QED
  BY <1>3, <1>5, <1>7, <1>8, <1>9, <1>10 DEF SocketOK

\* A socket that is sound may be closed after a read.
LEMMA MovedLeaves ==
    ASSUME SocketOK(kws), NEW n \in Nat, NEW blocking \in BOOLEAN,
           NEW o, ReadOK(o, n, blocking), NEW k, Moved(k, o)
    PROVE  Leaving(k)
<1>1. k \in KwsRecord /\ o.x <= MaxX + 1
  BY DEF Moved, ReadOK
<1>2. /\ k.pos + k.unprocessed <= Total(k.script) /\ (k.unprocessed > 0 => k.x = 0)
      /\ k.x <= MaxX + 1
  BY <1>1 DEF Moved
<1>3. /\ k.frame <= Len(k.script) /\ k.datalen >= -2 /\ k.datalen <= 14
  BY DEF Moved, SocketOK, Framed
<1>4. "garbled" \notin k.refused /\ Told(k.wire)
  BY DEF Moved, SocketOK
<1> QED
  BY <1>1, <1>2, <1>3, <1>4 DEF Leaving

-----------------------------------------------------------------------------
(* The actions                                                             *)

\* The fields of a socket.
LEMMA KwsFields ==
    ASSUME NEW w \in KwsRecord
    PROVE  /\ w.script \in Seq(PeerFrames) /\ w.block \in BOOLEAN /\ w.unprocessed \in Nat
           /\ w.pos \in Nat /\ w.x \in Nat /\ w.zero_reads \in Nat /\ w.down \in BOOLEAN
           /\ w.pc \in FrameSteps /\ w.start \in Nat /\ w.frame \in Nat /\ w.datalen \in Int
           /\ w.frag \in BOOLEAN /\ w.body \in Seq(Nat) /\ w.rplen \in Nat
           /\ w.bbuflen \in Nat /\ w.bbuffer \in Nat /\ w.read \in Seq(Seq(Nat))
           /\ w.refused \in SUBSET Reasons
BY DEF KwsRecord

\* In a call of kws_read_frame the link is up and has tries left.
LEMMA Reading ==
    ASSUME SocketOK(kws), kws.pc # "idle"
    PROVE  /\ kws \in KwsRecord /\ ~kws.down /\ kws.x < MaxX
           /\ kws.pc \in Begun => kws.x = 0
BY DEF SocketOK, Streams

\* The frame that is being read.
LEMMA FrameIs ==
    ASSUME NEW w, SocketOK(w), w.pc \in {"mask", "ext", "payload", "body"}
    PROVE  /\ w.frame \in 1..Len(w.script) /\ w.script[w.frame] \in PeerFrames
           /\ w.start = EndOf(w.script, w.frame - 1)
<1>1. w.frame \in Nat /\ w.script \in Seq(PeerFrames)
  BY KwsFields DEF SocketOK
<1>2. w.frame <= Len(w.script) /\ w.frame >= 1 /\ w.start = EndOf(w.script, w.frame - 1)
  BY DEF SocketOK, Framed
<1>3. w.frame \in 1..Len(w.script)
  BY <1>1, <1>2
<1> QED
  BY <1>1, <1>2, <1>3

\* The call of kws_read_frame.
LEMMA ReadFrameKeeps ==
    ASSUME SocketOK(kws), ReadFrame
    PROVE  SocketOK(kws')
<1>1. kws \in KwsRecord /\ kws.pc = "idle" /\ ~kws.down
  BY DEF SocketOK, ReadFrame
<1>2. PICK w : w = kws'
  OBVIOUS
<1>3. w = [kws EXCEPT !.pc = "hdr", !.frag = FALSE, !.body = <<>>]
  BY <1>2 DEF ReadFrame
<1>4. w \in KwsRecord
  <2>1. <<>> \in Seq(Nat) /\ "hdr" \in FrameSteps /\ FALSE \in BOOLEAN
    BY DEF FrameSteps
  <2> QED
    BY <1>1, <1>3, <2>1 DEF KwsRecord
<1>5. /\ w.pc = "hdr" /\ w.frag = FALSE /\ w.body = <<>> /\ w.down = kws.down
      /\ w.script = kws.script /\ w.block = kws.block /\ w.unprocessed = kws.unprocessed
      /\ w.pos = kws.pos /\ w.x = kws.x /\ w.frame = kws.frame /\ w.datalen = kws.datalen
      /\ w.read = kws.read /\ w.refused = kws.refused /\ w.wire = kws.wire
  BY <1>1, <1>3 DEF KwsRecord
<1>6. Streams(w)
  BY <1>1, <1>5 DEF SocketOK, Streams, Begun
<1>7. Framed(w)
  BY <1>1, <1>5 DEF SocketOK, Framed
<1>8. Fragments(w)
  BY <1>5 DEF Fragments
<1>9. AllThere(w)
  <2>1. WholeUpTo(w, w.frame) <=> WholeUpTo(kws, kws.frame)
    BY <1>5 DEF WholeUpTo
  <2>2. InHand(w) = InHand(kws) /\ Done(w) = Done(kws) /\ Part(w) = Part(kws)
    BY <1>1, <1>5 DEF InHand, Done, Part
  <2> QED
    BY <1>5, <2>1, <2>2 DEF SocketOK, AllThere
<1>10. "garbled" \notin w.refused /\ Told(w.wire)
  BY <1>5 DEF SocketOK
<1> QED
  BY <1>2, <1>4, <1>6, <1>7, <1>8, <1>9, <1>10 DEF SocketOK

\* The first read of a header.
LEMMA ReadHeaderKeeps ==
    ASSUME SocketOK(kws), ReadHeader
    PROVE  SocketOK(kws')
<1>1. kws \in KwsRecord /\ kws.pc = "hdr" /\ ~kws.down /\ kws.x < MaxX /\ Streams(kws)
  BY Reading DEF SocketOK, ReadHeader
<1>2. PICK o \in StringReads(9 + 1, kws.block) :
          LET k == [AfterRead(o) EXCEPT !.start = kws.pos, !.datalen = o.r] IN
          kws' = CASE o.r = -2 -> [k EXCEPT !.pc = "idle"]
                   [] o.r = -1 -> Closed(k, "read")
                   [] o.r \in 0..1 -> [k EXCEPT !.pc = "hdr2"]
                   [] OTHER -> [k EXCEPT !.pc = "parse"]
  BY DEF ReadHeader
<1>3. kws.block \in BOOLEAN /\ 9 \in Nat /\ 9 # 0 /\ kws.pos \in Nat /\ kws.frame \in Nat
  BY <1>1, KwsFields
<1>4. ReadOK(o, 9, kws.block)
  BY <1>1, <1>2, <1>3, ReadIs
<1>5. PICK a : a = AfterRead(o)
  OBVIOUS
<1>6. Moved(a, o)
  BY <1>1, <1>3, <1>4, <1>5, AfterReadIs
<1>7. /\ o.r \in Int /\ o.r >= -2 /\ o.take \in Nat /\ o.take <= 9 /\ o.x \in Nat
      /\ o.r >= 0 => o.r = o.take /\ o.x = 0
      /\ o.r = -2 => ~kws.block /\ o.take = 0 /\ o.x < MaxX
  BY <1>4 DEF ReadOK
<1>8. PICK k : k = [a EXCEPT !.start = kws.pos, !.datalen = o.r]
  OBVIOUS
<1>9. k \in KwsRecord
  BY <1>3, <1>6, <1>7, <1>8 DEF Moved, KwsRecord
<1>10. /\ k.start = kws.pos /\ k.datalen = o.r /\ k.pos = kws.pos + o.take /\ k.x = o.x
       /\ k.pos + k.unprocessed <= Total(kws.script) /\ (k.unprocessed > 0 => k.x = 0)
       /\ k.script = kws.script /\ k.block = kws.block /\ k.down = kws.down /\ k.pc = "hdr"
       /\ k.frame = kws.frame /\ k.frag = kws.frag /\ k.body = kws.body /\ k.read = kws.read
       /\ k.refused = kws.refused /\ k.wire = kws.wire
  BY <1>1, <1>6, <1>8 DEF Moved, KwsRecord
<1>11. /\ kws.pos = EndOf(kws.script, kws.frame) /\ kws.frame <= Len(kws.script)
       /\ "garbled" \notin k.refused /\ Told(k.wire)
  BY <1>1, <1>10 DEF SocketOK, Framed
<1>12. WholeUpTo(kws, kws.frame) => ~kws.frag /\ kws.body = <<>>
  BY <1>1 DEF SocketOK, Fragments
<1>13. /\ kws.block \/ WholeUpTo(kws, kws.frame) =>
            FlattenSeq(kws.read) \o kws.body = FlattenSeq(Payloads(kws.script, kws.frame)) \o <<>>
  BY <1>1 DEF SocketOK, AllThere, InHand, Done, Part
<1>14. CASE o.r = -1
  <2>1. kws' = Closed(k, "read")
    BY <1>2, <1>5, <1>8, <1>14
  <2>2. o.x <= MaxX + 1
    BY <1>4 DEF ReadOK
  <2>3. Leaving(k)
    BY <1>7, <1>9, <1>10, <1>11, <1>14, <2>2 DEF Leaving
  <2> QED
    BY <2>1, <2>3, ClosedOK DEF Reasons
<1>15. CASE o.r # -1
  <2>1. PICK p : /\ p = IF o.r = -2 THEN "idle" ELSE IF o.r \in 0..1 THEN "hdr2" ELSE "parse"
                 /\ kws' = [k EXCEPT !.pc = p]
    <3>1. CASE o.r = -2
      <4>1. o.r # -1 /\ o.r \notin 0..1
        BY <3>1
      <4>2. kws' = [k EXCEPT !.pc = "idle"]
        BY <1>2, <1>5, <1>8, <3>1, <4>1
      <4> QED
        BY <3>1, <4>2
    <3>2. CASE o.r \in 0..1
      <4>1. o.r # -2 /\ o.r # -1
        BY <3>2
      <4> QED
        BY <1>2, <1>5, <1>8, <3>2, <4>1
    <3>3. CASE o.r # -2 /\ o.r \notin 0..1
      BY <1>2, <1>5, <1>8, <1>15, <3>3
    <3> QED
      BY <3>1, <3>2, <3>3
  <2>2. PICK w : w = kws'
    OBVIOUS
  <2>3. w = [k EXCEPT !.pc = p] /\ p \in FrameSteps
    BY <2>1, <2>2 DEF FrameSteps
  <2>4. w \in KwsRecord
    BY <1>9, <2>3 DEF KwsRecord
  <2>5. /\ w.pc = p /\ w.start = kws.pos /\ w.datalen = o.r /\ w.pos = kws.pos + o.take
        /\ w.x = o.x
        /\ w.pos + w.unprocessed <= Total(kws.script) /\ (w.unprocessed > 0 => w.x = 0)
        /\ w.script = kws.script /\ w.block = kws.block /\ w.down = kws.down
        /\ w.frame = kws.frame /\ w.frag = kws.frag /\ w.body = kws.body /\ w.read = kws.read
        /\ w.refused = kws.refused /\ w.wire = kws.wire
    BY <1>9, <1>10, <2>3 DEF KwsRecord
  <2>6. o.x < MaxX /\ (o.r # -2 => o.x = 0 /\ o.r = o.take /\ o.r \in Nat)
    BY <1>7, <1>15, FrameConstants
  <2>7. MaxX \in Nat
    BY FrameConstants
  <2>8. Streams(w)
    BY <1>1, <1>7, <2>1, <2>5, <2>6, <2>7 DEF Streams, Begun
  <2>9. Framed(w)
    <3>1. CASE o.r = -2
      <4>1. w.pc = "idle" /\ w.pos = kws.pos /\ w.datalen = -2
        BY <1>3, <1>7, <2>1, <2>5, <3>1
      <4> QED
        BY <1>11, <2>5, <4>1 DEF Framed
    <3>2. CASE o.r # -2
      <4>1. /\ w.pc \in {"hdr2", "parse"} /\ w.pos = w.start + w.datalen
            /\ w.datalen <= 14 /\ w.datalen >= -2
            /\ w.pc = "hdr2" => w.datalen \in 0..1
            /\ w.pc = "parse" => w.datalen >= 2
        BY <1>3, <1>7, <2>1, <2>5, <2>6, <3>2
      <4> QED
        BY <1>11, <2>5, <4>1 DEF Framed
    <3> QED
      BY <3>1, <3>2
  <2>10. WholeUpTo(w, w.frame) <=> WholeUpTo(kws, kws.frame)
    BY <2>5 DEF WholeUpTo
  <2>11. Fragments(w)
    BY <1>12, <2>1, <2>5, <2>10 DEF Fragments
  <2>12. AllThere(w)
    <3>1. Done(w) = kws.frame /\ Part(w) = <<>>
      BY <2>1, <2>5 DEF Done, Part
    <3>2. kws.block \/ WholeUpTo(kws, kws.frame) => InHand(w) = kws.body
      BY <1>7, <1>12, <2>1, <2>5 DEF InHand
    <3> QED
      BY <1>13, <2>5, <2>10, <3>1, <3>2 DEF AllThere
  <2>13. "garbled" \notin w.refused /\ Told(w.wire)
    BY <1>10, <1>11, <2>5
  <2> QED
    BY <2>2, <2>4, <2>8, <2>9, <2>11, <2>12, <2>13 DEF SocketOK
<1> QED
  BY <1>14, <1>15

\* The second read of a header.
LEMMA ReadHeaderAgainKeeps ==
    ASSUME SocketOK(kws), ReadHeaderAgain
    PROVE  SocketOK(kws')
<1>1. kws \in KwsRecord /\ kws.pc = "hdr2" /\ ~kws.down /\ kws.x < MaxX /\ Streams(kws)
  BY Reading DEF SocketOK, ReadHeaderAgain
<1>2. /\ kws.datalen \in 0..1 /\ kws.start = EndOf(kws.script, kws.frame)
      /\ kws.pos = kws.start + kws.datalen /\ kws.frame <= Len(kws.script)
  BY <1>1 DEF SocketOK, Framed
<1>3. PICK o \in StringReads(9 - kws.datalen, TRUE) :
          LET k == AfterRead(o) IN
          kws' = IF o.r < 0 \/ kws.datalen + o.r < 2
                 THEN Closed(k, "read")
                 ELSE [k EXCEPT !.datalen = @ + o.r, !.pc = "parse"]
  BY DEF ReadHeaderAgain
<1>4. PICK n \in Nat : n = 8 - kws.datalen /\ n # 0 /\ n <= 8 /\ 9 - kws.datalen = n + 1
  BY <1>2
<1>5. ReadOK(o, n, TRUE)
  BY <1>1, <1>3, <1>4, ReadIs
<1>6. PICK a : a = AfterRead(o)
  OBVIOUS
<1>7. Moved(a, o)
  BY <1>1, <1>5, <1>6, AfterReadIs
<1>8. /\ o.r \in Int /\ o.take \in Nat /\ o.take <= 8 /\ (o.r >= 0 => o.r = o.take /\ o.x = 0)
  BY <1>4, <1>5 DEF ReadOK
<1>9. CASE o.r < 0 \/ kws.datalen + o.r < 2
  <2>1. kws' = Closed(a, "read")
    BY <1>3, <1>6, <1>9
  <2>2. Leaving(a)
    BY <1>5, <1>7, MovedLeaves
  <2> QED
    BY <2>1, <2>2, ClosedOK DEF Reasons
<1>10. CASE ~(o.r < 0 \/ kws.datalen + o.r < 2)
  <2>1. PICK w : w = kws'
    OBVIOUS
  <2>2. PICK d \in Nat : d = kws.datalen + o.r /\ d >= 2 /\ d <= 14 /\ o.r = o.take /\ o.x = 0
    BY <1>2, <1>8, <1>10
  <2>3. w = [a EXCEPT !.datalen = d, !.pc = "parse"]
    BY <1>3, <1>6, <1>7, <1>10, <2>1, <2>2 DEF Moved, KwsRecord
  <2>4. w \in KwsRecord
    <3>1. a \in KwsRecord /\ d \in Int /\ "parse" \in FrameSteps
      BY <1>7 DEF Moved, FrameSteps
    <3> QED
      BY <2>3, <3>1 DEF KwsRecord
  <2>5. /\ w.pc = "parse" /\ w.datalen = d /\ w.pos = kws.pos + o.take /\ w.x = 0
        /\ w.pos + w.unprocessed <= Total(kws.script) /\ w.start = kws.start
        /\ w.script = kws.script /\ w.block = kws.block /\ w.down = kws.down
        /\ w.frame = kws.frame /\ w.frag = kws.frag /\ w.body = kws.body /\ w.read = kws.read
        /\ w.refused = kws.refused /\ w.wire = kws.wire
    BY <1>7, <2>2, <2>3 DEF Moved, KwsRecord
  <2>6. MaxX \in Nat /\ MaxX # 0
    BY FrameConstants
  <2>7. Streams(w)
    BY <1>1, <2>5, <2>6 DEF Streams
  <2>8. Framed(w)
    <3>1. w.pos = w.start + w.datalen
      <4>1. kws.start \in Nat /\ kws.datalen \in Int
        BY <1>1, KwsFields
      <4> QED
        BY <1>2, <1>8, <2>2, <2>5, <4>1
    <3> QED
      BY <1>2, <2>2, <2>5, <3>1 DEF Framed
  <2>9. WholeUpTo(w, w.frame) <=> WholeUpTo(kws, kws.frame)
    BY <2>5 DEF WholeUpTo
  <2>10. Fragments(w)
    BY <1>1, <2>5, <2>9 DEF SocketOK, Fragments
  <2>11. AllThere(w)
    <3>1. Done(w) = Done(kws) /\ Part(w) = Part(kws) /\ InHand(w) = InHand(kws)
      BY <1>1, <2>5 DEF Done, Part, InHand
    <3> QED
      BY <2>5, <2>9, <3>1 DEF SocketOK, AllThere
  <2>12. "garbled" \notin w.refused /\ Told(w.wire)
    BY <2>5 DEF SocketOK
  <2> QED
    BY <2>1, <2>4, <2>7, <2>8, <2>10, <2>11, <2>12 DEF SocketOK
<1> QED
  BY <1>9, <1>10

\* A header is looked for where the next frame starts.
LEMMA HeaderFound ==
    ASSUME SocketOK(kws), kws.pc = "parse"
    PROVE  /\ kws.frame + 1 \in 1..Len(kws.script)
           /\ FrameAt(kws.script, kws.start) = kws.frame + 1
           /\ kws.start = EndOf(kws.script, kws.frame)
<1>1. kws.script \in Seq(PeerFrames) /\ kws.frame \in Nat /\ kws.unprocessed \in Nat
  BY KwsFields DEF SocketOK
<1>2. /\ kws.start = EndOf(kws.script, kws.frame) /\ kws.pos = kws.start + kws.datalen
      /\ kws.datalen >= 2 /\ kws.frame <= Len(kws.script)
      /\ kws.pos + kws.unprocessed <= Total(kws.script)
  BY DEF SocketOK, Framed, Streams
<1>3. kws.start \in Nat /\ kws.datalen \in Int /\ kws.pos \in Nat
  BY KwsFields DEF SocketOK
<1>4. Total(kws.script) = EndOf(kws.script, Len(kws.script)) /\ Total(kws.script) \in Nat
  BY <1>1, TotalIs
<1>5. kws.start < Total(kws.script)
  BY <1>1, <1>2, <1>3, <1>4
<1>6. kws.frame # Len(kws.script)
  BY <1>2, <1>3, <1>4, <1>5
<1>7. Len(kws.script) \in Nat
  BY <1>1
<1>8. kws.frame + 1 \in 1..Len(kws.script) /\ kws.frame + 1 - 1 = kws.frame
  BY <1>1, <1>2, <1>6, <1>7
<1>9. FrameAt(kws.script, EndOf(kws.script, kws.frame + 1 - 1)) = kws.frame + 1
  BY <1>1, <1>8, FrameAtIs
<1> QED
  BY <1>2, <1>8, <1>9

\* Opcode, fin and mask.
LEMMA ParseHeaderKeeps ==
    ASSUME SocketOK(kws), ParseHeader
    PROVE  SocketOK(kws')
<1>1. kws \in KwsRecord /\ kws.pc = "parse" /\ ~kws.down /\ kws.x < MaxX /\ kws.x = 0
  BY Reading DEF ParseHeader, Begun
<1>2. PICK n : n = kws.frame + 1
  OBVIOUS
<1>3. /\ n \in 1..Len(kws.script) /\ FrameAt(kws.script, kws.start) = n
      /\ kws.start = EndOf(kws.script, kws.frame)
  BY <1>1, <1>2, HeaderFound
<1>4. kws.frame \in Nat /\ kws.script \in Seq(PeerFrames) /\ kws.frag \in BOOLEAN
  BY <1>1, KwsFields
<1>5. n \in Nat /\ n # 0 /\ n - 1 = kws.frame /\ n <= Len(kws.script) /\ n >= 1
  BY <1>2, <1>3, <1>4
<1>6. PICK f \in PeerFrames : f = kws.script[n]
  BY <1>3, <1>4
<1>7. PICK k : k = [kws EXCEPT !.frame = n]
  OBVIOUS
<1>8. k \in KwsRecord
  BY <1>1, <1>5, <1>7 DEF KwsRecord
<1>9. /\ k.frame = n /\ k.script = kws.script /\ k.pos = kws.pos /\ k.x = kws.x
      /\ k.unprocessed = kws.unprocessed /\ k.datalen = kws.datalen /\ k.start = kws.start
      /\ k.refused = kws.refused /\ k.wire = kws.wire /\ k.block = kws.block
      /\ k.down = kws.down /\ k.frag = kws.frag /\ k.body = kws.body /\ k.read = kws.read
  BY <1>1, <1>7 DEF KwsRecord
<1>10. Leaving(k)
  BY <1>5, <1>8, <1>9 DEF Leaving, SocketOK, Streams, Framed
<1>11. kws' = CASE n = 0 -> Closed(k, "garbled")
                [] n # 0 /\ f.op = "CLOSE" -> Closed(k, "peer")
                [] n # 0 /\ f.op = "RESERVED" -> Closed(k, "opcode")
                [] OTHER ->
                     [k EXCEPT !.pc = "mask", !.zero_reads = 0,
                               !.frag = IF f.fin THEN @ /\ f.op # "CONTINUATION"
                                                 ELSE @ \/ f.op # "CONTINUATION"]
  BY <1>3, <1>6, <1>7 DEF ParseHeader
<1>12. CASE f.op = "CLOSE"
  <2>1. kws' = Closed(k, "peer")
    BY <1>5, <1>11, <1>12
  <2> QED
    BY <1>10, <2>1, ClosedOK DEF Reasons
<1>13. CASE f.op = "RESERVED"
  <2>1. kws' = Closed(k, "opcode")
    BY <1>5, <1>11, <1>13
  <2> QED
    BY <1>10, <2>1, ClosedOK DEF Reasons
<1>14. CASE f.op # "CLOSE" /\ f.op # "RESERVED"
  <2>1. PICK g \in BOOLEAN : g = IF f.fin THEN kws.frag /\ f.op # "CONTINUATION"
                                          ELSE kws.frag \/ f.op # "CONTINUATION"
    BY <1>4
  <2>2. PICK w : w = kws'
    OBVIOUS
  <2>3. w = [k EXCEPT !.pc = "mask", !.zero_reads = 0, !.frag = g]
    <3>1. w = [k EXCEPT !.pc = "mask", !.zero_reads = 0,
                               !.frag = IF f.fin THEN @ /\ f.op # "CONTINUATION"
                                                 ELSE @ \/ f.op # "CONTINUATION"]
      BY <1>5, <1>11, <1>14, <2>2
    <3> QED
      BY <1>8, <1>9, <2>1, <3>1 DEF KwsRecord
  <2>4. w \in KwsRecord
    <3>1. "mask" \in FrameSteps /\ 0 \in Nat
      BY DEF FrameSteps
    <3> QED
      BY <1>8, <2>3, <3>1 DEF KwsRecord
  <2>5. /\ w.pc = "mask" /\ w.frag = g /\ w.frame = n
        /\ w.script = kws.script /\ w.pos = kws.pos /\ w.x = 0
        /\ w.unprocessed = kws.unprocessed /\ w.datalen = kws.datalen /\ w.start = kws.start
        /\ w.refused = kws.refused /\ w.wire = kws.wire /\ w.block = kws.block
        /\ w.down = kws.down /\ w.body = kws.body /\ w.read = kws.read
    BY <1>1, <1>8, <1>9, <2>3 DEF KwsRecord
  <2>6. Streams(w)
    BY <1>1, <2>5 DEF SocketOK, Streams
  <2>7. Framed(w)
    <3>1. /\ kws.pos = kws.start + kws.datalen /\ kws.datalen >= 2
          /\ kws.datalen >= -2 /\ kws.datalen <= 14
      BY <1>1 DEF SocketOK, Framed
    <3> QED
      BY <1>3, <1>5, <2>5, <3>1 DEF Framed
  <2>8. WholeUpTo(w, n) => WholeUpTo(kws, kws.frame) /\ f.fin
    <3>1. \A i \in 1..kws.frame : i \in 1..n
      BY <1>2, <1>4
    <3>2. n \in 1..n
      BY <1>5
    <3> QED
      BY <1>6, <2>5, <3>1, <3>2 DEF WholeUpTo
  <2>9. Fragments(w)
    <3>1. WholeUpTo(kws, kws.frame) => ~kws.frag
      BY <1>1 DEF SocketOK, Fragments
    <3> QED
      BY <2>1, <2>5, <2>8, <3>1 DEF Fragments
  <2>10. AllThere(w)
    <3>1. Done(w) = Done(kws) /\ Part(w) = Part(kws) /\ InHand(w) = InHand(kws)
      BY <1>1, <1>5, <2>5 DEF Done, Part, InHand
    <3> QED
      BY <2>5, <2>8, <3>1, SMTT(30) DEF SocketOK, AllThere
  <2>11. "garbled" \notin w.refused /\ Told(w.wire)
    BY <2>5 DEF SocketOK
  <2> QED
    BY <2>2, <2>4, <2>6, <2>7, <2>9, <2>10, <2>11 DEF SocketOK
<1> QED
  BY <1>12, <1>13, <1>14

\* The header is complete, or more of it is read.
LEMMA FillHeaderKeeps ==
    ASSUME SocketOK(kws), FillHeader
    PROVE  SocketOK(kws')
<1>1. /\ kws \in KwsRecord /\ kws.pc \in {"mask", "ext"} /\ ~kws.down /\ kws.x < MaxX
      /\ kws.x = 0 /\ Streams(kws)
  BY Reading DEF SocketOK, FillHeader, Begun
<1>2. /\ kws.frame \in 1..Len(kws.script) /\ kws.script[kws.frame] \in PeerFrames
      /\ kws.start = EndOf(kws.script, kws.frame - 1)
  BY <1>1, FrameIs
<1>3. PICK f \in PeerFrames : f = kws.script[kws.frame]
  BY <1>2
<1>4. f.mask \in Nat /\ f.ext \in Nat /\ HeadSize(f) = 2 + f.mask + f.ext /\ HeadSize(f) <= 14
  BY SizeOfFrame
<1>5. PICK need \in Nat : /\ need = 2 + f.mask + (IF kws.pc = "ext" THEN f.ext ELSE 0)
                          /\ need <= 14
  BY <1>4
<1>6. PICK next : next = IF kws.pc = "mask" THEN "ext" ELSE "payload"
  OBVIOUS
<1>7. /\ kws.pos = kws.start + kws.datalen /\ kws.datalen >= 2 /\ kws.datalen <= 14
      /\ kws.frame <= Len(kws.script) /\ kws.frame >= 1
      /\ kws.pc = "ext" => kws.datalen >= 2 + f.mask
  BY <1>1, <1>3, SMTT(40) DEF SocketOK, Framed
<1>8. kws.start \in Nat /\ kws.datalen \in Int /\ kws.pos \in Nat /\ kws.zero_reads \in Nat
  BY <1>1, KwsFields, SMTT(40)
<1>9. IF need <= kws.datalen
      THEN kws' = [kws EXCEPT !.pc = next, !.zero_reads = 0]
      ELSE \E o \in StringReads(need - kws.datalen + 1, TRUE) :
               LET k == AfterRead(o) IN
               kws' = CASE o.r < 0 -> Closed(k, "read")
                        [] o.r = 0 -> IF kws.zero_reads + 1 = MaxZero
                                      THEN Closed(k, "read")
                                      ELSE [k EXCEPT !.zero_reads = @ + 1]
                        [] OTHER -> [k EXCEPT !.datalen = @ + o.r, !.zero_reads = 0]
  BY <1>3, <1>5, <1>6, Zenon DEF FillHeader
<1>10. CASE need <= kws.datalen
  <2>1. PICK w : w = kws'
    OBVIOUS
  <2>2. w = [kws EXCEPT !.pc = next, !.zero_reads = 0]
    BY <1>9, <1>10, <2>1
  <2>3. w \in KwsRecord
    <3>1. next \in FrameSteps /\ 0 \in Nat
      BY <1>6 DEF FrameSteps
    <3> QED
      BY <1>1, <2>2, <3>1 DEF KwsRecord
  <2>4. /\ w.pc = next /\ w.frag = kws.frag /\ w.frame = kws.frame
        /\ w.script = kws.script /\ w.pos = kws.pos /\ w.x = kws.x
        /\ w.unprocessed = kws.unprocessed /\ w.datalen = kws.datalen /\ w.start = kws.start
        /\ w.refused = kws.refused /\ w.wire = kws.wire /\ w.block = kws.block
        /\ w.down = kws.down /\ w.body = kws.body /\ w.read = kws.read
    BY <1>1, <2>2 DEF KwsRecord
  <2>5. Streams(w)
    BY <1>1, <2>4 DEF Streams
  <2>6. Framed(w)
    <3>1. /\ next = "ext" => kws.datalen >= 2 + f.mask
          /\ next = "payload" => kws.datalen >= HeadSize(f)
          /\ next \in {"ext", "payload"} /\ kws.datalen >= -2
      BY <1>1, <1>4, <1>5, <1>6, <1>7, <1>8, <1>10, SMTT(30)
    <3> QED
      BY <1>2, <1>3, <1>7, <2>4, <3>1 DEF Framed
  <2>7. WholeUpTo(w, w.frame) <=> WholeUpTo(kws, kws.frame)
    BY <2>4 DEF WholeUpTo
  <2>8. next \in {"ext", "payload"}
    BY <1>6
  <2>9. Fragments(w)
    BY <1>1, <2>4, <2>7, <2>8 DEF SocketOK, Fragments
  <2>10. AllThere(w)
    <3>1. Done(w) = Done(kws) /\ Part(w) = Part(kws) /\ InHand(w) = InHand(kws)
      BY <1>1, <2>4, <2>8 DEF Done, Part, InHand
    <3> QED
      BY <2>4, <2>7, <3>1 DEF SocketOK, AllThere
  <2>11. "garbled" \notin w.refused /\ Told(w.wire)
    BY <2>4 DEF SocketOK
  <2> QED
    BY <2>1, <2>3, <2>5, <2>6, <2>9, <2>10, <2>11 DEF SocketOK
<1>11. CASE ~(need <= kws.datalen)
  <2>1. PICK o \in StringReads(need - kws.datalen + 1, TRUE) :
            LET k == AfterRead(o) IN
            kws' = CASE o.r < 0 -> Closed(k, "read")
                     [] o.r = 0 -> IF kws.zero_reads + 1 = MaxZero
                                   THEN Closed(k, "read")
                                   ELSE [k EXCEPT !.zero_reads = @ + 1]
                     [] OTHER -> [k EXCEPT !.datalen = @ + o.r, !.zero_reads = 0]
    BY <1>9, <1>11
  <2>2. PICK n \in Nat : n = need - kws.datalen /\ n # 0 /\ need - kws.datalen + 1 = n + 1
    BY <1>5, <1>7, <1>8, <1>11
  <2>3. ReadOK(o, n, TRUE)
    BY <1>1, <2>1, <2>2, ReadIs
  <2>4. PICK a : a = AfterRead(o)
    OBVIOUS
  <2>5. Moved(a, o)
    BY <1>1, <2>3, <2>4, AfterReadIs
  <2>6. /\ o.r \in Int /\ o.take \in Nat /\ o.take <= n /\ (o.r >= 0 => o.r = o.take /\ o.x = 0)
    BY <2>3 DEF ReadOK
  <2>7. kws' = CASE o.r < 0 -> Closed(a, "read")
                 [] o.r = 0 -> IF kws.zero_reads + 1 = MaxZero
                               THEN Closed(a, "read")
                               ELSE [a EXCEPT !.zero_reads = @ + 1]
                 [] OTHER -> [a EXCEPT !.datalen = @ + o.r, !.zero_reads = 0]
    BY <2>1, <2>4
  <2>8. CASE kws' = Closed(a, "read")
    <3>1. Leaving(a)
      BY <2>3, <2>5, MovedLeaves
    <3> QED
      BY <2>8, <3>1, ClosedOK DEF Reasons
  <2>9. CASE kws' # Closed(a, "read")
    <3>1. PICK w : w = kws'
      OBVIOUS
    <3>2. o.r \in Nat /\ o.r = o.take /\ o.x = 0
      <4>1. ~(o.r < 0)
        BY <2>7, <2>9
      <4> QED
        BY <2>6, <4>1
    <3>3. PICK z \in Nat, d \in Nat :
              w = [a EXCEPT !.datalen = d, !.zero_reads = z] /\ d = kws.datalen + o.r
      <4>1. a \in KwsRecord /\ a.datalen = kws.datalen /\ a.zero_reads = kws.zero_reads
        BY <2>5 DEF Moved
      <4>2. kws.datalen + o.r \in Nat /\ kws.zero_reads + 1 \in Nat
        BY <1>7, <1>8, <3>2
      <4>3. CASE o.r = 0
        <5>1. w = [a EXCEPT !.zero_reads = kws.zero_reads + 1]
          <6>1. ~(o.r < 0)
            BY <4>3
          <6>2. w = [a EXCEPT !.zero_reads = @ + 1]
            BY <2>7, <2>9, <3>1, <4>3, <6>1
          <6> QED
            BY <4>1, <6>2 DEF KwsRecord
        <5>2. kws.datalen + o.r = a.datalen
          BY <1>8, <4>1, <4>3
        <5>3. w = [a EXCEPT !.datalen = kws.datalen + o.r, !.zero_reads = kws.zero_reads + 1]
          BY <4>1, <5>1, <5>2 DEF KwsRecord
        <5> QED
          BY <4>2, <5>3
      <4>4. CASE o.r # 0
        <5>1. ~(o.r < 0)
          BY <3>2
        <5>2. w = [a EXCEPT !.datalen = @ + o.r, !.zero_reads = 0]
          BY <2>7, <3>1, <4>4, <5>1
        <5>3. w = [a EXCEPT !.datalen = kws.datalen + o.r, !.zero_reads = 0]
          BY <4>1, <5>2 DEF KwsRecord
        <5> QED
          BY <4>2, <5>3
      <4> QED
        BY <4>3, <4>4
    <3>4. a \in KwsRecord
      BY <2>5 DEF Moved
    <3>5. w \in KwsRecord
      <4>1. w = [a EXCEPT !.datalen = d, !.zero_reads = z] /\ d \in Int /\ z \in Nat
        BY <3>3
      <4> QED
        BY <3>4, <4>1 DEF KwsRecord
    <3>6. /\ w.pc = kws.pc /\ w.datalen = d /\ w.pos = kws.pos + o.take /\ w.x = 0
          /\ w.pos + w.unprocessed <= Total(kws.script) /\ w.start = kws.start
          /\ w.script = kws.script /\ w.block = kws.block /\ w.down = kws.down
          /\ w.frame = kws.frame /\ w.frag = kws.frag /\ w.body = kws.body /\ w.read = kws.read
          /\ w.refused = kws.refused /\ w.wire = kws.wire
      <4>1. /\ a.pc = kws.pc /\ a.pos = kws.pos + o.take /\ a.x = 0
            /\ a.pos + a.unprocessed <= Total(kws.script) /\ a.start = kws.start
            /\ a.script = kws.script /\ a.block = kws.block /\ a.down = kws.down
            /\ a.frame = kws.frame /\ a.frag = kws.frag /\ a.body = kws.body
            /\ a.read = kws.read /\ a.refused = kws.refused /\ a.wire = kws.wire
        BY <2>5, <3>2 DEF Moved
      <4> QED
        BY <3>3, <3>4, <4>1 DEF KwsRecord
    <3>7. MaxX \in Nat /\ MaxX # 0
      BY FrameConstants
    <3>8. Streams(w)
      BY <1>1, <3>6, <3>7 DEF Streams
    <3>9. Framed(w)
      <4>1. /\ w.pos = w.start + w.datalen /\ d >= 2 /\ d <= 14
            /\ kws.datalen >= 2 + f.mask => d >= 2 + f.mask
        <5>1. d = kws.datalen + o.take /\ o.take <= need - kws.datalen
          BY <2>2, <2>6, <3>2, <3>3
        <5>2. d >= kws.datalen /\ d <= need
          BY <1>5, <1>8, <2>6, <5>1
        <5>3. d >= 2 /\ d <= 14 /\ (kws.datalen >= 2 + f.mask => d >= 2 + f.mask)
          BY <1>4, <1>5, <1>7, <1>8, <5>2
        <5>4. w.pos = kws.start + kws.datalen + o.take
          BY <1>7, <3>6
        <5>5. w.pos = kws.start + d
          BY <1>8, <2>6, <5>1, <5>4
        <5> QED
          BY <3>6, <5>3, <5>5
      <4> QED
        BY <1>1, <1>2, <1>3, <1>7, <3>6, <4>1 DEF Framed
    <3>10. WholeUpTo(w, w.frame) <=> WholeUpTo(kws, kws.frame)
      BY <3>6 DEF WholeUpTo
    <3>11. Fragments(w)
      BY <1>1, <3>6, <3>10 DEF SocketOK, Fragments
    <3>12. AllThere(w)
      <4>1. Done(w) = Done(kws) /\ Part(w) = Part(kws) /\ InHand(w) = InHand(kws)
        BY <1>1, <3>6 DEF Done, Part, InHand
      <4> QED
        BY <3>6, <3>10, <4>1 DEF SocketOK, AllThere
    <3>13. "garbled" \notin w.refused /\ Told(w.wire)
      BY <3>6 DEF SocketOK
    <3> QED
      BY <3>1, <3>5, <3>8, <3>9, <3>11, <3>12, <3>13 DEF SocketOK
  <2> QED
    BY <2>8, <2>9
<1> QED
  BY <1>10, <1>11, SMTT(40)

\* It does not matter which of three rows are joined first.
LEMMA JoinTwice ==
    ASSUME NEW x \in Seq(Nat), NEW b \in Seq(Nat), NEW q \in Seq(Nat)
    PROVE  (x \o b) \o q = x \o (b \o q)
BY ConcatAssociative, SMTT(40)

\* Two rows in two pieces each.
Alike(x, b, y, p) == x \o b = y \o p

\* Behind what was assembled comes the payload that is there.
LEMMA JoinBehind ==
    ASSUME NEW x \in Seq(Nat), NEW y \in Seq(Nat), NEW b \in Seq(Nat), NEW p \in Seq(Nat),
           NEW q \in Seq(Nat), Alike(x, b, y, p)
    PROVE  Alike(x, b \o q, y, p \o q)
<1>1. (x \o b) \o q = x \o (b \o q)
  BY JoinTwice, ZenonT(60)
<1>2. (y \o p) \o q = y \o (p \o q)
  BY JoinTwice, ZenonT(60)
<1> QED
  BY <1>1, <1>2 DEF Alike

\* Two rows of numbers, one behind the other.
LEMMA JoinIs ==
    ASSUME NEW x \in Seq(Nat), NEW y \in Seq(Nat)
    PROVE  x \o y \in Seq(Nat) /\ Len(x \o y) = Len(x) + Len(y)
BY ConcatProperties

\* The payload begins.
LEMMA BeginPayloadKeeps ==
    ASSUME SocketOK(kws), BeginPayload
    PROVE  SocketOK(kws')
<1>1. /\ kws \in KwsRecord /\ kws.pc = "payload" /\ ~kws.down /\ kws.x < MaxX
      /\ kws.x = 0 /\ Streams(kws)
  BY Reading DEF SocketOK, BeginPayload, Begun
<1>2. /\ kws.frame \in 1..Len(kws.script) /\ kws.script[kws.frame] \in PeerFrames
      /\ kws.start = EndOf(kws.script, kws.frame - 1)
  BY <1>1, FrameIs
<1>3. PICK f \in PeerFrames : f = kws.script[kws.frame]
  BY <1>2
<1>4. f.len \in Nat /\ HeadSize(f) \in Nat
  BY SizeOfFrame
<1>5. /\ kws.pos = kws.start + kws.datalen /\ kws.datalen >= HeadSize(f) /\ kws.datalen <= 14
      /\ kws.frame <= Len(kws.script) /\ kws.frame >= 1 /\ kws.datalen >= -2
  BY <1>1, <1>3 DEF SocketOK, Framed
<1>6. /\ kws.start \in Nat /\ kws.datalen \in Int /\ kws.body \in Seq(Nat) /\ kws.bbuflen \in Nat
      /\ kws.read \in Seq(Seq(Nat)) /\ kws.script \in Seq(PeerFrames)
  BY <1>1, KwsFields
<1>7. PICK came \in Nat : came = kws.datalen - HeadSize(f)
  BY <1>4, <1>5, <1>6
<1>8. PICK k : k = GrowBody(kws, f.len)
  OBVIOUS
<1>9. PICK size \in Nat : /\ k = [kws EXCEPT !.bbuflen = size]
                          /\ Len(kws.body) + f.len < size
  <2>1. Len(kws.body) \in Nat
    BY <1>6
  <2>2. CASE Len(kws.body) + f.len >= kws.bbuflen
    <3>1. k = [kws EXCEPT !.bbuflen = Len(kws.body) + f.len + 1]
      BY <1>8, <2>2 DEF GrowBody
    <3>2. Len(kws.body) + f.len + 1 \in Nat /\ Len(kws.body) + f.len < Len(kws.body) + f.len + 1
      BY <1>4, <2>1
    <3> QED
      BY <3>1, <3>2
  <2>3. CASE ~(Len(kws.body) + f.len >= kws.bbuflen)
    <3>1. k = kws
      BY <1>8, <2>3 DEF GrowBody
    <3>2. kws = [kws EXCEPT !.bbuflen = kws.bbuflen]
      BY <1>1 DEF KwsRecord
    <3>3. Len(kws.body) + f.len < kws.bbuflen
      BY <1>4, <1>6, <2>1, <2>3
    <3> QED
      BY <1>6, <3>1, <3>2, <3>3
  <2> QED
    BY <2>2, <2>3
<1>10. k \in KwsRecord
  BY <1>1, <1>9 DEF KwsRecord
<1>11. /\ k.bbuflen = size /\ k.script = kws.script /\ k.pos = kws.pos /\ k.x = kws.x
       /\ k.unprocessed = kws.unprocessed /\ k.datalen = kws.datalen /\ k.frame = kws.frame
       /\ k.refused = kws.refused /\ k.wire = kws.wire /\ k.body = kws.body
       /\ k.start = kws.start /\ k.block = kws.block /\ k.down = kws.down /\ k.frag = kws.frag
       /\ k.read = kws.read
  BY <1>1, <1>9 DEF KwsRecord
<1>12. Leaving(kws)
  BY <1>1, <1>5 DEF Leaving, SocketOK, Streams
<1>13. Leaving(k)
  BY <1>10, <1>11, <1>12 DEF Leaving
<1>14. kws' = CASE came > f.len -> Closed(kws, "overread")
                [] /\ came <= f.len /\ k.bbuflen # kws.bbuflen
                   /\ PayloadMax # 0 /\ k.bbuflen > PayloadMax -> Closed(k, "size")
                [] OTHER ->
                     [k EXCEPT !.bbuffer = k.bbuflen, !.rplen = came, !.pc = "body",
                               !.body = @ \o Bytes(kws.start + HeadSize(f), came)]
  BY <1>3, <1>7, <1>8 DEF BeginPayload
<1>15. CASE came > f.len
  <2>1. ~(came <= f.len)
    BY <1>4, <1>15
  <2>2. kws' = Closed(kws, "overread")
    BY <1>14, <1>15, <2>1
  <2> QED
    BY <1>12, <2>2, ClosedOK DEF Reasons
<1>16. CASE /\ came <= f.len /\ k.bbuflen # kws.bbuflen
            /\ PayloadMax # 0 /\ k.bbuflen > PayloadMax
  <2>1. ~(came > f.len)
    BY <1>4, <1>16
  <2>2. kws' = Closed(k, "size")
    BY <1>14, <1>16, <2>1
  <2> QED
    BY <1>13, <2>2, ClosedOK DEF Reasons
<1>17. CASE /\ came <= f.len
            /\ ~(k.bbuflen # kws.bbuflen /\ PayloadMax # 0 /\ k.bbuflen > PayloadMax)
  <2>1. PICK q \in Seq(Nat) : q = Bytes(kws.start + HeadSize(f), came) /\ Len(q) = came
    <3>1. kws.start + HeadSize(f) \in Nat
      BY <1>4, <1>6
    <3> QED
      BY <3>1, BytesAre
  <2>2. PICK b \in Seq(Nat) : b = kws.body \o q /\ Len(b) = Len(kws.body) + came
    <3>1. kws.body \o q \in Seq(Nat) /\ Len(kws.body \o q) = Len(kws.body) + Len(q)
      BY <1>6, JoinIs
    <3> QED
      BY <2>1, <3>1, Zenon
  <2>3. PICK w : w = kws'
    OBVIOUS
  <2>4. w = [k EXCEPT !.bbuffer = size, !.rplen = came, !.pc = "body", !.body = b]
    <3>1. ~(came > f.len)
      BY <1>4, <1>17
    <3>2. w = [k EXCEPT !.bbuffer = k.bbuflen, !.rplen = came, !.pc = "body",
                        !.body = @ \o Bytes(kws.start + HeadSize(f), came)]
      BY <1>14, <1>17, <2>3, <3>1
    <3> QED
      BY <1>10, <1>11, <2>1, <2>2, <3>2 DEF KwsRecord
  <2>5. w \in KwsRecord
    <3>1. "body" \in FrameSteps
      BY DEF FrameSteps
    <3> QED
      BY <1>10, <2>4, <3>1 DEF KwsRecord
  <2>6. /\ w.pc = "body" /\ w.rplen = came /\ w.bbuffer = size /\ w.body = b
        /\ w.script = kws.script /\ w.pos = kws.pos /\ w.x = kws.x
        /\ w.unprocessed = kws.unprocessed /\ w.datalen = kws.datalen /\ w.start = kws.start
        /\ w.refused = kws.refused /\ w.wire = kws.wire /\ w.block = kws.block
        /\ w.down = kws.down /\ w.frag = kws.frag /\ w.read = kws.read /\ w.frame = kws.frame
    BY <1>10, <1>11, <2>4 DEF KwsRecord
  <2>7. Streams(w)
    BY <1>1, <2>6 DEF Streams
  <2>8. Framed(w)
    <3>1. kws.pos = kws.start + HeadSize(f) + came
      <4>1. kws.datalen = HeadSize(f) + came
        BY <1>4, <1>6, <1>7
      <4>2. kws.pos = kws.start + (HeadSize(f) + came)
        BY <1>5, <4>1
      <4> QED
        BY <1>4, <1>6, <4>2
    <3>2. Len(b) + (f.len - came) + 1 <= size
      <4>1. Len(kws.body) \in Nat
        BY <1>6
      <4> QED
        BY <1>4, <1>9, <2>2, <4>1
    <3> QED
      BY <1>2, <1>3, <1>5, <1>17, <2>6, <3>1, <3>2 DEF Framed
  <2>9. WholeUpTo(w, w.frame) <=> WholeUpTo(kws, kws.frame)
    BY <2>6 DEF WholeUpTo
  <2>10. Fragments(w)
    BY <1>1, <2>6, <2>9 DEF SocketOK, Fragments
  <2>11. AllThere(w)
    <3>1. SUFFICES ASSUME w.block \/ WholeUpTo(w, w.frame)
                   PROVE  FlattenSeq(w.read) \o InHand(w)
                            = FlattenSeq(Payloads(w.script, Done(w))) \o Part(w)
      BY DEF AllThere
    <3>2. FlattenSeq(kws.read) \o InHand(kws)
            = FlattenSeq(Payloads(kws.script, Done(kws))) \o Part(kws)
      BY <1>1, <2>6, <2>9, <3>1 DEF SocketOK, AllThere
    <3>3. /\ Done(kws) = kws.frame - 1 /\ Part(kws) = <<>> /\ InHand(kws) = kws.body
          /\ Done(w) = kws.frame - 1 /\ InHand(w) = b
          /\ Part(w) = SubSeq(Payload(kws.script, kws.frame), 1, came)
      BY <1>1, <2>6 DEF Done, Part, InHand
    <3>4. Part(w) = q
      <4>1. PICK h \in Nat : h = kws.start + HeadSize(f)
        BY <1>4, <1>6
      <4>2. Payload(kws.script, kws.frame) = Bytes(h, f.len)
        BY <1>2, <1>3, <1>6, <4>1, PayloadIs
      <4>3. came \in 0..f.len
        BY <1>4, <1>17
      <4>4. SubSeq(Bytes(h, f.len), 1, came) = Bytes(h, came)
        BY <1>4, <4>3, BytesCut, Zenon
      <4> QED
        BY <2>1, <3>3, <4>1, <4>2, <4>4
    <3>5. PICK x \in Seq(Nat), y \in Seq(Nat) :
              x = FlattenSeq(kws.read) /\ y = FlattenSeq(Payloads(kws.script, kws.frame - 1))
      <4>1. Payloads(kws.script, kws.frame - 1) \in Seq(Seq(Nat))
        BY <1>2, <1>6, PayloadsGrow
      <4> QED
        BY <1>6, <4>1, FlatSeq
    <3>6. x \o kws.body = y \o <<>> /\ <<>> \in Seq(Nat) /\ <<>> \o q = q
      <4>1. x \o kws.body = y \o <<>>
        BY <3>2, <3>3, <3>5
      <4>2. <<>> \o q = q
        BY ConcatEmptySeq, Zenon
      <4> QED
        BY <4>1, <4>2
    <3>7. x \o (kws.body \o q) = y \o (<<>> \o q)
      <4>1. Alike(x, kws.body, y, <<>>)
        BY <3>6 DEF Alike
      <4>2. Alike(x, kws.body \o q, y, <<>> \o q)
        BY <1>6, <3>6, <4>1, JoinBehind
      <4> QED
        BY <4>2 DEF Alike
    <3> QED
      BY <2>2, <2>6, <3>3, <3>4, <3>5, <3>6, <3>7
  <2>12. "garbled" \notin w.refused /\ Told(w.wire)
    BY <2>6 DEF SocketOK
  <2> QED
    BY <2>3, <2>5, <2>7, <2>8, <2>10, <2>11, <2>12 DEF SocketOK
<1> QED
  BY <1>4, <1>15, <1>16, <1>17

\* More of the payload is read.
LEMMA ReadPayloadKeeps ==
    ASSUME SocketOK(kws), ReadPayload
    PROVE  SocketOK(kws')
<1>1. /\ kws \in KwsRecord /\ kws.pc = "body" /\ ~kws.down /\ kws.x < MaxX
      /\ kws.x = 0 /\ Streams(kws)
  BY Reading DEF SocketOK, ReadPayload, Begun
<1>2. /\ kws.frame \in 1..Len(kws.script) /\ kws.script[kws.frame] \in PeerFrames
      /\ kws.start = EndOf(kws.script, kws.frame - 1)
  BY <1>1, FrameIs
<1>3. PICK f \in PeerFrames : f = kws.script[kws.frame]
  BY <1>2
<1>4. f.len \in Nat /\ HeadSize(f) \in Nat
  BY SizeOfFrame
<1>5. /\ kws.rplen <= f.len /\ kws.pos = kws.start + HeadSize(f) + kws.rplen
      /\ Len(kws.body) + (f.len - kws.rplen) + 1 <= kws.bbuffer
      /\ kws.datalen <= 14 /\ kws.frame <= Len(kws.script) /\ kws.frame >= 1 /\ kws.datalen >= -2
  BY <1>1, <1>3 DEF SocketOK, Framed
<1>6. /\ kws.start \in Nat /\ kws.rplen \in Nat /\ kws.body \in Seq(Nat) /\ kws.bbuffer \in Nat
      /\ kws.read \in Seq(Seq(Nat)) /\ kws.script \in Seq(PeerFrames) /\ kws.pos \in Nat
  BY <1>1, KwsFields
<1>7. PICK n \in Nat : n = f.len - kws.rplen /\ n # 0
  BY <1>3, <1>4, <1>6, SMTT(40) DEF ReadPayload
<1>8. PICK o \in StringReads(n + 1, TRUE) :
          LET k == AfterRead(o) IN
          kws' = IF o.r < 1
                 THEN Closed(k, "read")
                 ELSE [k EXCEPT !.rplen = @ + o.r,
                                !.body = @ \o Bytes(kws.pos, o.r)]
  BY <1>3, <1>7 DEF ReadPayload
<1>9. ReadOK(o, n, TRUE)
  BY <1>1, <1>7, <1>8, ReadIs
<1>10. PICK a : a = AfterRead(o)
  OBVIOUS
<1>11. Moved(a, o)
  BY <1>1, <1>9, <1>10, AfterReadIs
<1>12. /\ o.r \in Int /\ o.take \in Nat /\ o.take <= n /\ (o.r >= 0 => o.r = o.take /\ o.x = 0)
  BY <1>9 DEF ReadOK
<1>13. CASE o.r < 1
  <2>1. kws' = Closed(a, "read")
    BY <1>8, <1>10, <1>13
  <2>2. Leaving(a)
    BY <1>9, <1>11, MovedLeaves
  <2> QED
    BY <2>1, <2>2, ClosedOK DEF Reasons
<1>14. CASE ~(o.r < 1)
  <2>0. PICK r \in Nat : r = o.r /\ r = o.take /\ o.x = 0 /\ r <= n
    BY <1>12, <1>14
  <2>1. PICK q \in Seq(Nat) : q = Bytes(kws.pos, r) /\ Len(q) = r
    BY <1>6, BytesAre
  <2>2. PICK b \in Seq(Nat) : b = kws.body \o q /\ Len(b) = Len(kws.body) + r
    <3>1. kws.body \o q \in Seq(Nat) /\ Len(kws.body \o q) = Len(kws.body) + Len(q)
      BY <1>6, JoinIs
    <3> QED
      BY <2>1, <3>1, Zenon
  <2>3. PICK w : w = kws'
    OBVIOUS
  <2>4. PICK m \in Nat : m = kws.rplen + r
    BY <1>6
  <2>5. a \in KwsRecord /\ a.rplen = kws.rplen /\ a.body = kws.body
    BY <1>11 DEF Moved
  <2>6. w = [a EXCEPT !.rplen = m, !.body = b]
    <3>1. w = [a EXCEPT !.rplen = @ + o.r, !.body = @ \o Bytes(kws.pos, o.r)]
      BY <1>8, <1>10, <1>14, <2>3
    <3> QED
      BY <2>0, <2>1, <2>2, <2>4, <2>5, <3>1 DEF KwsRecord
  <2>7. w \in KwsRecord
    BY <2>5, <2>6 DEF KwsRecord
  <2>8. /\ w.pc = "body" /\ w.rplen = m /\ w.body = b /\ w.pos = kws.pos + r /\ w.x = 0
        /\ w.pos + w.unprocessed <= Total(kws.script) /\ w.start = kws.start
        /\ w.script = kws.script /\ w.block = kws.block /\ w.down = kws.down
        /\ w.frame = kws.frame /\ w.frag = kws.frag /\ w.read = kws.read
        /\ w.refused = kws.refused /\ w.wire = kws.wire /\ w.bbuffer = kws.bbuffer
        /\ w.datalen = kws.datalen
    <3>1. /\ a.pc = "body" /\ a.pos = kws.pos + r /\ a.x = 0
          /\ a.pos + a.unprocessed <= Total(kws.script) /\ a.start = kws.start
          /\ a.script = kws.script /\ a.block = kws.block /\ a.down = kws.down
          /\ a.frame = kws.frame /\ a.frag = kws.frag /\ a.read = kws.read
          /\ a.refused = kws.refused /\ a.wire = kws.wire /\ a.bbuffer = kws.bbuffer
          /\ a.datalen = kws.datalen
      BY <1>1, <1>11, <2>0 DEF Moved
    <3> QED
      BY <2>5, <2>6, <3>1 DEF KwsRecord
  <2>9. MaxX \in Nat /\ MaxX # 0
    BY FrameConstants
  <2>10. Streams(w)
    BY <1>1, <2>8, <2>9 DEF Streams
  <2>11. Framed(w)
    <3>1. m <= f.len /\ kws.pos + r = kws.start + HeadSize(f) + m
      <4>1. r <= f.len - kws.rplen
        BY <1>7, <2>0
      <4>2. m <= f.len
        BY <1>4, <1>6, <2>4, <4>1, SMTT(30)
      <4>3. kws.pos + r = kws.start + HeadSize(f) + kws.rplen + r
        BY <1>5
      <4> QED
        BY <1>4, <1>6, <2>4, <4>2, <4>3, SMTT(30)
    <3>2. Len(b) + (f.len - m) + 1 <= kws.bbuffer
      <4>1. Len(kws.body) \in Nat
        BY <1>6
      <4>2. Len(b) + (f.len - m) = Len(kws.body) + (f.len - kws.rplen)
        <5>1. Len(b) = Len(kws.body) + r /\ m = kws.rplen + r
          BY <2>2, <2>4
        <5>2. f.len \in Nat /\ kws.rplen \in Nat
          BY <1>4, <1>6
        <5> QED
          BY <4>1, <5>1, <5>2
      <4> QED
        BY <1>5, <4>2
    <3> QED
      BY <1>2, <1>3, <1>5, <2>8, <3>1, <3>2 DEF Framed
  <2>12. WholeUpTo(w, w.frame) <=> WholeUpTo(kws, kws.frame)
    BY <2>8 DEF WholeUpTo
  <2>13. Fragments(w)
    BY <1>1, <2>8, <2>12 DEF SocketOK, Fragments
  <2>14. AllThere(w)
    <3>1. SUFFICES ASSUME w.block \/ WholeUpTo(w, w.frame)
                   PROVE  FlattenSeq(w.read) \o InHand(w)
                            = FlattenSeq(Payloads(w.script, Done(w))) \o Part(w)
      BY DEF AllThere
    <3>2. FlattenSeq(kws.read) \o InHand(kws)
            = FlattenSeq(Payloads(kws.script, Done(kws))) \o Part(kws)
      BY <1>1, <2>8, <2>12, <3>1 DEF SocketOK, AllThere
    <3>3. /\ Done(kws) = kws.frame - 1 /\ InHand(kws) = kws.body
          /\ Part(kws) = SubSeq(Payload(kws.script, kws.frame), 1, kws.rplen)
          /\ Done(w) = kws.frame - 1 /\ InHand(w) = b
          /\ Part(w) = SubSeq(Payload(kws.script, kws.frame), 1, m)
      BY <1>1, <2>8 DEF Done, Part, InHand
    <3>4. PICK h \in Nat : h = kws.start + HeadSize(f)
      BY <1>4, <1>6
    <3>5. Payload(kws.script, kws.frame) = Bytes(h, f.len)
      BY <1>2, <1>3, <1>6, <3>4, PayloadIs
    <3>6. Part(kws) = Bytes(h, kws.rplen) /\ Part(w) = Bytes(h, m)
      <4>1. kws.rplen \in 0..f.len
        BY <1>4, <1>5, <1>6
      <4>2. m <= f.len
        BY <2>8, <2>11, <1>3 DEF Framed
      <4>3. m \in 0..f.len
        BY <1>4, <4>2
      <4>4. SubSeq(Bytes(h, f.len), 1, kws.rplen) = Bytes(h, kws.rplen)
        BY <1>4, <4>1, BytesCut, Zenon
      <4>5. SubSeq(Bytes(h, f.len), 1, m) = Bytes(h, m)
        BY <1>4, <4>3, BytesCut, Zenon
      <4> QED
        BY <3>3, <3>5, <4>4, <4>5
    <3>7. Bytes(h, m) = Bytes(h, kws.rplen) \o q
      <4>1. kws.pos = h + kws.rplen
        BY <1>5, <3>4
      <4>2. Bytes(h, kws.rplen) \o Bytes(h + kws.rplen, r) = Bytes(h, kws.rplen + r)
        BY <1>6, BytesJoin, ZenonT(60)
      <4> QED
        BY <2>1, <2>4, <4>1, <4>2
    <3>8. PICK x \in Seq(Nat), y \in Seq(Nat), p \in Seq(Nat) :
              /\ x = FlattenSeq(kws.read) /\ y = FlattenSeq(Payloads(kws.script, kws.frame - 1))
              /\ p = Bytes(h, kws.rplen)
      <4>1. Payloads(kws.script, kws.frame - 1) \in Seq(Seq(Nat))
        BY <1>2, <1>6, PayloadsGrow
      <4>2. Bytes(h, kws.rplen) \in Seq(Nat)
        BY <1>6, BytesAre
      <4> QED
        BY <1>6, <4>1, <4>2, FlatSeq
    <3>9. x \o kws.body = y \o p
      BY <3>2, <3>3, <3>6, <3>8
    <3>10. x \o (kws.body \o q) = y \o (p \o q)
      <4>1. Alike(x, kws.body, y, p)
        BY <3>9 DEF Alike
      <4>2. Alike(x, kws.body \o q, y, p \o q)
        BY <1>6, <4>1, JoinBehind
      <4> QED
        BY <4>2 DEF Alike
    <3> QED
      BY <2>2, <2>8, <3>3, <3>6, <3>7, <3>8, <3>10
  <2>15. "garbled" \notin w.refused /\ Told(w.wire)
    BY <2>8 DEF SocketOK
  <2> QED
    BY <2>3, <2>7, <2>10, <2>11, <2>13, <2>14, <2>15 DEF SocketOK
<1> QED
  BY <1>13, <1>14

\* The frame is complete.
LEMMA EndFrameKeeps ==
    ASSUME SocketOK(kws), EndFrame
    PROVE  SocketOK(kws')
<1>1. /\ kws \in KwsRecord /\ kws.pc = "body" /\ ~kws.down /\ kws.x < MaxX
      /\ kws.x = 0 /\ Streams(kws)
  BY Reading DEF SocketOK, EndFrame, Begun
<1>2. /\ kws.frame \in 1..Len(kws.script) /\ kws.script[kws.frame] \in PeerFrames
      /\ kws.start = EndOf(kws.script, kws.frame - 1)
  BY <1>1, FrameIs
<1>3. PICK f \in PeerFrames : f = kws.script[kws.frame]
  BY <1>2
<1>4. f.len \in Nat /\ HeadSize(f) \in Nat /\ FrameSize(f) = HeadSize(f) + f.len
  BY SizeOfFrame
<1>5. /\ kws.pos = kws.start + HeadSize(f) + kws.rplen /\ kws.rplen = f.len
      /\ kws.datalen <= 14 /\ kws.frame <= Len(kws.script) /\ kws.datalen >= -2
  BY <1>1, <1>3 DEF SocketOK, Framed, EndFrame
<1>6. /\ kws.start \in Nat /\ kws.body \in Seq(Nat) /\ kws.frag \in BOOLEAN
      /\ kws.read \in Seq(Seq(Nat)) /\ kws.script \in Seq(PeerFrames)
  BY <1>1, KwsFields
<1>7. kws.pos = EndOf(kws.script, kws.frame)
  <2>1. EndOf(kws.script, kws.frame) = kws.start + FrameSize(f)
    BY <1>2, <1>3, <1>6, EndIs
  <2> QED
    BY <1>4, <1>5, <1>6, <2>1
<1>8. kws.block \/ WholeUpTo(kws, kws.frame) =>
          FlattenSeq(kws.read) \o kws.body
            = FlattenSeq(Payloads(kws.script, kws.frame)) \o <<>>
  <2> SUFFICES ASSUME kws.block \/ WholeUpTo(kws, kws.frame)
               PROVE  FlattenSeq(kws.read) \o kws.body
                        = FlattenSeq(Payloads(kws.script, kws.frame)) \o <<>>
    OBVIOUS
  <2>1. FlattenSeq(kws.read) \o kws.body
          = FlattenSeq(Payloads(kws.script, kws.frame - 1))
              \o SubSeq(Payload(kws.script, kws.frame), 1, kws.rplen)
    BY <1>1 DEF SocketOK, AllThere, Done, Part, InHand
  <2>2. SubSeq(Payload(kws.script, kws.frame), 1, kws.rplen) = Payload(kws.script, kws.frame)
    <3>1. PICK h \in Nat : h = kws.start + HeadSize(f)
      BY <1>4, <1>6
    <3>2. Payload(kws.script, kws.frame) = Bytes(h, f.len)
      BY <1>2, <1>3, <1>6, <3>1, PayloadIs
    <3>3. f.len \in 0..f.len
      BY <1>4
    <3>4. SubSeq(Bytes(h, f.len), 1, f.len) = Bytes(h, f.len)
      BY <1>4, <3>3, BytesCut
    <3> QED
      BY <1>5, <3>2, <3>4
  <2>3. FlattenSeq(Payloads(kws.script, kws.frame))
          = FlattenSeq(Payloads(kws.script, kws.frame - 1)) \o Payload(kws.script, kws.frame)
    BY <1>2, <1>6, PayloadsGrow
  <2>4. FlattenSeq(Payloads(kws.script, kws.frame)) \in Seq(Nat)
    <3>1. Payload(kws.script, kws.frame) \in Seq(Nat)
      BY <1>2, <1>6, PayloadIs
    <3>2. FlattenSeq(Payloads(kws.script, kws.frame - 1)) \in Seq(Nat)
      BY <1>2, <1>6, PayloadsGrow, FlatSeq
    <3> QED
      BY <2>3, <3>1, <3>2, JoinIs
  <2>5. PICK y \in Seq(Nat) : y = FlattenSeq(Payloads(kws.script, kws.frame))
    BY <2>4
  <2>6. y \o <<>> = y
    BY ConcatEmptySeq
  <2> QED
    BY <2>1, <2>2, <2>3, <2>5, <2>6
<1>9. PICK w : w = kws'
  OBVIOUS
<1>10. CASE kws.frag
  <2>1. w = [kws EXCEPT !.pc = "hdr"]
    BY <1>9, <1>10 DEF EndFrame
  <2>2. w \in KwsRecord
    <3>1. "hdr" \in FrameSteps
      BY DEF FrameSteps
    <3> QED
      BY <1>1, <2>1, <3>1 DEF KwsRecord
  <2>3. /\ w.pc = "hdr" /\ w.frag = kws.frag /\ w.body = kws.body /\ w.down = kws.down
        /\ w.script = kws.script /\ w.block = kws.block /\ w.unprocessed = kws.unprocessed
        /\ w.pos = kws.pos /\ w.x = kws.x /\ w.frame = kws.frame /\ w.datalen = kws.datalen
        /\ w.read = kws.read /\ w.refused = kws.refused /\ w.wire = kws.wire
    BY <1>1, <2>1 DEF KwsRecord
  <2>4. Streams(w)
    BY <1>1, <2>3 DEF Streams, Begun
  <2>5. Framed(w)
    BY <1>5, <1>7, <2>3 DEF Framed
  <2>6. WholeUpTo(w, w.frame) <=> WholeUpTo(kws, kws.frame)
    BY <2>3 DEF WholeUpTo
  <2>7. Fragments(w)
    BY <1>1, <1>10, <2>3, <2>6 DEF SocketOK, Fragments
  <2>8. AllThere(w)
    <3>1. InHand(w) = kws.body /\ Done(w) = kws.frame /\ Part(w) = <<>>
      BY <2>3 DEF InHand, Done, Part
    <3> QED
      BY <1>8, <2>3, <2>6, <3>1 DEF AllThere
  <2>9. "garbled" \notin w.refused /\ Told(w.wire)
    BY <2>3 DEF SocketOK
  <2> QED
    BY <1>9, <2>2, <2>4, <2>5, <2>7, <2>8, <2>9 DEF SocketOK
<1>11. CASE ~kws.frag
  <2>1. PICK ss \in Seq(Seq(Nat)) : ss = Append(kws.read, kws.body)
    BY <1>6, AppendProperties
  <2>2. w = [kws EXCEPT !.pc = "idle", !.read = ss]
    BY <1>1, <1>9, <1>11, <2>1 DEF EndFrame, KwsRecord
  <2>3. w \in KwsRecord
    <3>1. "idle" \in FrameSteps
      BY DEF FrameSteps
    <3> QED
      BY <1>1, <2>2, <3>1 DEF KwsRecord
  <2>4. /\ w.pc = "idle" /\ w.frag = kws.frag /\ w.down = kws.down /\ w.read = ss
        /\ w.script = kws.script /\ w.block = kws.block /\ w.unprocessed = kws.unprocessed
        /\ w.pos = kws.pos /\ w.x = kws.x /\ w.frame = kws.frame /\ w.datalen = kws.datalen
        /\ w.refused = kws.refused /\ w.wire = kws.wire
    BY <1>1, <2>2 DEF KwsRecord
  <2>5. Streams(w)
    BY <1>1, <2>4 DEF Streams, Begun
  <2>6. Framed(w)
    BY <1>5, <1>7, <2>4 DEF Framed
  <2>7. WholeUpTo(w, w.frame) <=> WholeUpTo(kws, kws.frame)
    BY <2>4 DEF WholeUpTo
  <2>8. Fragments(w)
    BY <2>4 DEF Fragments
  <2>9. AllThere(w)
    <3>1. InHand(w) = <<>> /\ Done(w) = kws.frame /\ Part(w) = <<>>
      BY <2>4 DEF InHand, Done, Part
    <3>2. FlattenSeq(ss) = FlattenSeq(kws.read) \o kws.body
      BY <1>6, <2>1, FlatAppend
    <3>3. FlattenSeq(ss) \in Seq(Nat)
      BY FlatSeq
    <3>4. PICK z \in Seq(Nat) : z = FlattenSeq(ss)
      BY <3>3
    <3>5. z \o <<>> = z
      BY ConcatEmptySeq
    <3> QED
      BY <1>8, <2>4, <2>7, <3>1, <3>2, <3>4, <3>5 DEF AllThere
  <2>10. "garbled" \notin w.refused /\ Told(w.wire)
    BY <2>4 DEF SocketOK
  <2> QED
    BY <1>9, <2>3, <2>5, <2>6, <2>8, <2>9, <2>10 DEF SocketOK
<1> QED
  BY <1>10, <1>11

\* kws_write_frame.
LEMMA WriteFrameKeeps ==
    ASSUME SocketOK(kws), WriteFrame
    PROVE  SocketOK(kws')
<1>1. kws \in KwsRecord /\ kws.pc = "idle" /\ ~kws.down
  BY DEF SocketOK, WriteFrame
<1>2. PICK len \in WriteLens, mask \in {0, 4} :
          LET size == WriteHead(len, mask) + len IN
          \E o \in RawWrites(size) :
             kws' = [kws EXCEPT !.wire = Append(@,
                        [len |-> len, size |-> size, out |-> o.out,
                         ret |-> WriteResult(o.r, size, len)])]
  BY DEF WriteFrame
<1>3. len \in Nat
  BY FrameConstants
<1>4. PICK size \in Nat : size = WriteHead(len, mask) + len /\ size # 0
  BY <1>3 DEF WriteHead
<1>5. PICK o \in RawWrites(size) :
          kws' = [kws EXCEPT !.wire = Append(@,
                     [len |-> len, size |-> size, out |-> o.out,
                      ret |-> WriteResult(o.r, size, len)])]
  BY <1>2, <1>4
<1>6. /\ o.out \in Nat /\ o.r \in Int
      /\ o.out = size \/ o.r = -1 \/ (o.r = o.out /\ o.r < size)
  BY <1>4 DEF RawWrites
<1>7. PICK e : e = [len |-> len, size |-> size, out |-> o.out, ret |-> WriteResult(o.r, size, len)]
  OBVIOUS
<1>8. /\ e \in [len : Nat, size : Nat, out : Nat, ret : Int]
      /\ e.ret = e.len => e.out = e.size \/ e.out = e.len
  <2>1. WriteResult(o.r, size, len) \in Int
    BY <1>3, <1>6 DEF WriteResult
  <2>2. WriteResult(o.r, size, len) = len => o.out = size \/ o.out = len
    BY <1>3, <1>4, <1>6 DEF WriteResult
  <2>3. e.ret = WriteResult(o.r, size, len) /\ e.len = len /\ e.size = size /\ e.out = o.out
    BY <1>7
  <2>4. e \in [len : Nat, size : Nat, out : Nat, ret : Int]
    BY <1>3, <1>6, <1>7, <2>1
  <2> QED
    BY <2>2, <2>3, <2>4
<1>9. PICK w : w = kws'
  OBVIOUS
<1>10. kws.wire \in Seq([len : Nat, size : Nat, out : Nat, ret : Int])
  BY <1>1 DEF KwsRecord
<1>11. PICK v \in Seq([len : Nat, size : Nat, out : Nat, ret : Int]) : v = Append(kws.wire, e)
  BY <1>8, <1>10, AppendProperties
<1>12. w = [kws EXCEPT !.wire = v]
  BY <1>1, <1>5, <1>7, <1>9, <1>11 DEF KwsRecord
<1>13. w \in KwsRecord
  BY <1>1, <1>11, <1>12 DEF KwsRecord
<1>14. /\ w.pc = "idle" /\ w.frag = kws.frag /\ w.down = kws.down /\ w.read = kws.read
       /\ w.script = kws.script /\ w.block = kws.block /\ w.unprocessed = kws.unprocessed
       /\ w.pos = kws.pos /\ w.x = kws.x /\ w.frame = kws.frame /\ w.datalen = kws.datalen
       /\ w.refused = kws.refused /\ w.wire = v
  BY <1>1, <1>12 DEF KwsRecord
<1>15. Streams(w)
  BY <1>1, <1>14 DEF SocketOK, Streams, Begun
<1>16. Framed(w)
  BY <1>1, <1>14 DEF SocketOK, Framed
<1>17. Fragments(w)
  BY <1>14 DEF Fragments
<1>18. AllThere(w)
  <2>1. WholeUpTo(w, w.frame) <=> WholeUpTo(kws, kws.frame)
    BY <1>14 DEF WholeUpTo
  <2>2. InHand(w) = InHand(kws) /\ Done(w) = Done(kws) /\ Part(w) = Part(kws)
    BY <1>1, <1>14 DEF InHand, Done, Part
  <2> QED
    BY <1>14, <2>1, <2>2 DEF SocketOK, AllThere
<1>19. Told(w.wire)
  <2>1. Told(kws.wire)
    BY DEF SocketOK
  <2>2. PICK n \in Nat : n = Len(kws.wire)
    BY <1>10
  <2>3. DOMAIN v = 1..(n + 1) /\ v[n + 1] = e /\ \A i \in 1..n : v[i] = kws.wire[i]
    BY <1>8, <1>10, <1>11, <2>2, AppendProperties
  <2>4. \A i \in DOMAIN v : i = n + 1 \/ (i \in 1..n /\ i \in DOMAIN kws.wire)
    <3>1. DOMAIN kws.wire = 1..n
      BY <1>10, <2>2
    <3>2. \A i \in 1..(n + 1) : i = n + 1 \/ i \in 1..n
      OBVIOUS
    <3> QED
      BY <2>3, <3>1, <3>2
  <2> QED
    BY <1>8, <1>14, <2>1, <2>3, <2>4, ZenonT(60) DEF Told
<1>20. "garbled" \notin w.refused
  BY <1>14 DEF SocketOK
<1> QED
  BY <1>9, <1>13, <1>15, <1>16, <1>17, <1>18, <1>19, <1>20 DEF SocketOK

\* A new socket.
LEMMA NewSocketOK ==
    ASSUME FrameInit
    PROVE  SocketOK(kws)
<1>1. PICK s \in Scripts, blocking \in BOOLEAN :
          \E n \in {u \in Unread : u <= Total(s)} : kws = NewKws(s, blocking, n)
  BY DEF FrameInit
<1>2. PICK n \in Unread : n <= Total(s) /\ kws = NewKws(s, blocking, n)
  BY <1>1
<1>3. s \in Seq(PeerFrames) /\ n \in Nat /\ BodyLen \in Nat /\ MaxX \in Nat /\ MaxX # 0
  BY FrameConstants, PeerSendsFrames
<1>4. Total(s) \in Nat
  BY <1>3, TotalIs
<1>5. <<>> \in Seq(Nat) /\ <<>> \in Seq(Seq(Nat)) /\ "idle" \in FrameSteps
      /\ <<>> \in Seq([len : Nat, size : Nat, out : Nat, ret : Int]) /\ {} \in SUBSET Reasons
  BY DEF FrameSteps
<1>6. kws \in KwsRecord
  BY <1>2, <1>3, <1>5 DEF NewKws, KwsRecord
<1>7. /\ kws.script = s /\ kws.block = blocking /\ kws.unprocessed = n /\ kws.pos = 0
      /\ kws.x = 0 /\ kws.down = FALSE /\ kws.pc = "idle" /\ kws.frame = 0 /\ kws.datalen = 0
      /\ kws.read = <<>> /\ kws.refused = {} /\ kws.wire = <<>>
  BY <1>2 DEF NewKws
<1>8. Streams(kws)
  BY <1>2, <1>3, <1>4, <1>7 DEF Streams, Begun
<1>9. Framed(kws)
  <2>1. EndOf(s, 0) = 0 /\ Len(s) \in Nat
    BY <1>3, EndIs
  <2> QED
    BY <1>7, <2>1 DEF Framed
<1>10. Fragments(kws)
  BY <1>7 DEF Fragments
<1>11. AllThere(kws)
  <2>1. InHand(kws) = <<>> /\ Done(kws) = 0 /\ Part(kws) = <<>>
    BY <1>7 DEF InHand, Done, Part
  <2>2. Payloads(s, 0) = <<>>
    BY DEF Payloads
  <2> QED
    BY <1>7, <2>1, <2>2 DEF AllThere
<1>12. "garbled" \notin kws.refused /\ Told(kws.wire)
  BY <1>7 DEF Told
<1> QED
  BY <1>6, <1>8, <1>9, <1>10, <1>11, <1>12 DEF SocketOK

\* What the invariant is for.
LEMMA SocketOKMeans ==
    ASSUME SocketOK(kws)
    PROVE  FrameTypeOK /\ FramesSound
<1>1. kws \in KwsRecord /\ Streams(kws) /\ Framed(kws)
  BY DEF SocketOK
<1>2. /\ kws.script \in Seq(PeerFrames) /\ kws.unprocessed \in Nat /\ kws.pos \in Nat
      /\ kws.x \in Nat /\ kws.pc \in FrameSteps /\ kws.frame \in Nat /\ kws.datalen \in Int
      /\ kws.rplen \in Nat
  BY <1>1, KwsFields
<1>3. Total(kws.script) \in Nat /\ MaxX \in Nat /\ Len(kws.script) \in Nat
  BY <1>2, TotalIs, FrameConstants
<1>4. FrameTypeOK
  <2>1. /\ kws.pos + kws.unprocessed <= Total(kws.script) /\ kws.x <= MaxX + 1
        /\ kws.frame <= Len(kws.script) /\ kws.datalen >= -2 /\ kws.datalen <= 14
    BY <1>1 DEF Streams, Framed
  <2>2. kws.pos \in 0..Total(kws.script)
    <3>1. PICK total \in Nat : total = Total(kws.script)
      BY <1>3
    <3>2. kws.pos + kws.unprocessed <= total
      BY <2>1, <3>1
    <3>3. kws.pos <= total
      BY <1>2, <3>2
    <3> QED
      BY <1>2, <3>1, <3>3
  <2>3. kws.x \in 0..(MaxX + 1) /\ kws.datalen \in -2..14
    <3>1. kws.x \in Nat /\ kws.x <= MaxX + 1 /\ MaxX \in Nat
      BY <1>2, <1>3, <2>1
    <3>2. kws.datalen \in Int /\ kws.datalen >= -2 /\ kws.datalen <= 14
      BY <1>2, <2>1
    <3> QED
      BY <3>1, <3>2
  <2>4. kws.frame \in 0..Len(kws.script)
    <3>1. PICK m \in Nat : m = Len(kws.script)
      BY <1>3
    <3>2. kws.frame \in Nat /\ kws.frame <= m
      BY <1>2, <2>1, <3>1
    <3> QED
      BY <3>1, <3>2
  <2> QED
    BY <1>2, <2>2, <2>3, <2>4 DEF FrameTypeOK
<1>5. NothingSkipped
  BY DEF SocketOK, NothingSkipped, AllThere, InHand, Done, Part, Payloads, WholeUpTo
<1>6. HeadersFound /\ CutFrameTold
  BY DEF SocketOK, HeadersFound, CutFrameTold, Told
<1>7. BodyFits
  BY <1>1 DEF Framed, BodyFits
<1>8. FullPatience
  BY <1>1 DEF Streams, FullPatience, Begun
<1> QED
  BY <1>4, <1>5, <1>6, <1>7, <1>8 DEF FramesSound

\* kws_read_frame and kws_write_frame, for every script of the peer, every way
\* the stream is cut, every limit of tries and every size of the buffers: while
\* the link is up, what is handed to the application is what the peer sent, byte
\* by byte and with the payload of control frames where it came, on a link that
\* may block, and on one that may not up to the first fragmented message (there
\* a header that is late throws the fragments away, kws.c:1371); no header is
\* misread, no buffer overrun and no read cut short by an earlier one's retries;
\* and a frame that was cut is reported as written only if it is short by
\* exactly the length of its header.
THEOREM FramesAlwaysSound == FrameSpec => [](FrameTypeOK /\ FramesSound)
<1>1. FrameInit => SocketOK(kws)
  BY NewSocketOK
<1>2. SocketOK(kws) /\ [FrameNext]_kws => SocketOK(kws)'
  <2> SUFFICES ASSUME SocketOK(kws), [FrameNext]_kws PROVE SocketOK(kws')
    OBVIOUS
  <2>1. CASE ReadFrame
    BY <2>1, ReadFrameKeeps
  <2>2. CASE ReadHeader
    BY <2>2, ReadHeaderKeeps
  <2>3. CASE ReadHeaderAgain
    BY <2>3, ReadHeaderAgainKeeps
  <2>4. CASE ParseHeader
    BY <2>4, ParseHeaderKeeps
  <2>5. CASE FillHeader
    BY <2>5, FillHeaderKeeps
  <2>6. CASE BeginPayload
    BY <2>6, BeginPayloadKeeps
  <2>7. CASE ReadPayload
    BY <2>7, ReadPayloadKeeps
  <2>8. CASE EndFrame
    BY <2>8, EndFrameKeeps
  <2>9. CASE WriteFrame
    BY <2>9, WriteFrameKeeps
  <2>10. CASE UNCHANGED kws
    BY <2>10
  <2> QED
    BY <2>1, <2>2, <2>3, <2>4, <2>5, <2>6, <2>7, <2>8, <2>9, <2>10 DEF FrameNext
<1>3. SocketOK(kws) => FrameTypeOK /\ FramesSound
  BY SocketOKMeans
<1> QED
  BY <1>1, <1>2, <1>3, PTL DEF FrameSpec
=============================================================================
