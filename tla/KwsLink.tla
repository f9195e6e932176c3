------------------------------ MODULE KwsLink -------------------------------
(***************************************************************************)
(* The life of a web socket (src/kws.c): kws_connect_ex, kws_init_ex with  *)
(* the TLS and the upgrade handshake, kws_close with the TLS shutdown,     *)
(* kws_destroy, and the reads in between that drive an unfinished          *)
(* handshake.  Reading and writing frames is KwsFrame.                     *)
(*                                                                         *)
(* OpenSSL and the socket are external: each call gives one of its         *)
(* results.  One tick of `elapsed` is one poll interval (10 ms in a        *)
(* blocking read); a read that may block waits up to PatienceN of them.    *)
(* That holds on a socket that does not block (O_NONBLOCK, `nonblock`); on *)
(* one that does, recv and SSL_read wait for the peer itself.              *)
(***************************************************************************)
EXTENDS Integers, Sequences

CONSTANTS InitSanity,   \* WS_INIT_SANITY: TLS tries (5000)
          PatienceN,    \* WS_BLOCK / 10: polls of a blocking read (1000)
          SoftN,        \* WS_SOFT_BLOCK / 10: polls of the TLS shutdown (100)
          Deadline      \* ws_handshake_timeout_ms, in polls

ASSUME LinkConstants ==
    /\ InitSanity \in Nat \ {0} /\ PatienceN \in Nat \ {0} /\ SoftN \in Nat \ {0}
    /\ Deadline \in Nat

VARIABLE lnk            \* struct kws_s, the calls in progress and who owns what

LinkSteps == {"start", "resolve", "init", "tls", "upgrade", "user", "reading",
              "close", "shutdown", "drain", "closing", "destroy", "gone"}

(* The peer answers and stops in time, or falls silent, or sends on and on   *)
(* what does not end the call in progress.                                   *)
Peers == {"answers", "silent", "floods"}

(* c: how the caller set it up.  stack: where the calls in progress return. *)
NewLink(c) ==
    [c |-> c, pc |-> "start", stack |-> <<>>,
     ctx |-> IF c.secure /\ ~c.own THEN "callers" ELSE "none", ctx_frees |-> 0,
     destroy_ssl_ctx |-> FALSE, ssl |-> "none", sock |-> FALSE, fd |-> "none",
     down |-> 0, sanity |-> 0, block |-> c.block, secure_established |-> FALSE,
     ssl_io_error |-> FALSE, received_shutdown |-> FALSE, handshake |-> FALSE,
     logical_established |-> FALSE, n |-> 0, elapsed |-> 0,
     goodbyes |-> 0, freed |-> FALSE, unclosed |-> FALSE,
     nonblock |-> FALSE, peer |-> "answers"]

LinkCasts == [client : BOOLEAN, secure : BOOLEAN, own : BOOLEAN, block : BOOLEAN,
              close_sock : BOOLEAN, stay_open : BOOLEAN, http : BOOLEAN, timed : BOOLEAN]

(* own: kws_connect_ex makes the SSL_CTX; http and stay_open are a server's. *)
LinkInit == \E c \in LinkCasts :
    /\ c.own => c.client /\ c.secure
    /\ c.client => ~c.stay_open /\ ~c.http
    /\ lnk = NewLink(c)

Call(k, callee, cont) == [k EXCEPT !.pc = callee, !.stack = <<cont>> \o @]

-----------------------------------------------------------------------------
(* kws_connect_ex: a wss url without a context makes one; a bad url fails. *)
ConnectUrl ==
    /\ lnk.pc = "start" /\ lnk.c.client
    /\ \/ lnk' = [lnk EXCEPT !.pc = "resolve", !.ctx = IF lnk.c.own THEN "own" ELSE @]
       \/ lnk' = [lnk EXCEPT !.pc = "gone"]

(* A failed connect frees the context it made. *)
ConnectErr(k) == [k EXCEPT !.pc = "gone",
                           !.ctx_frees = IF k.ctx = "own" THEN @ + 1 ELSE @]

(* ks_addr_getbyname may fail; a failure of ks_socket_connect_ex shows only  *)
(* as an invalid socket.                                                     *)
ConnectSocket ==
    /\ lnk.pc = "resolve"
    /\ \/ lnk' = ConnectErr(lnk)
       \/ \E ok \in BOOLEAN :
             lnk' = [lnk EXCEPT !.pc = "init", !.sock = ok,
                                !.fd = IF ok THEN "open" ELSE "none"]

(* A server is given a connected socket. *)
AcceptSocket ==
    /\ lnk.pc = "start" /\ ~lnk.c.client
    /\ lnk' = [lnk EXCEPT !.pc = "init", !.sock = TRUE, !.fd = "open"]

(* kws_init_ex up to establish_logical_layer: ks_socket_common_setup makes   *)
(* the socket one that does not block, and with a handshake timeout the      *)
(* layer works without blocking too.                                         *)
InitLink ==
    /\ lnk.pc = "init"
    /\ lnk' = [Call(lnk, "tls", "init") EXCEPT !.sanity = InitSanity,
                                               !.block = @ /\ ~lnk.c.timed,
                                               !.nonblock = lnk.sock]

(* After a handshake with a timeout the socket is made to block again.       *)
StaysNonblock(k) == k.nonblock /\ ~k.c.timed

(* Mutant: the context is the link's own also when kws_init_ex fails. *)
ReturnOwnerEarly(k, r) ==
    LET k1 == [k EXCEPT !.stack = Tail(@), !.block = k.c.block,
                        !.nonblock = StaysNonblock(k),
                        !.destroy_ssl_ctx = k.ctx = "own"] IN
    IF Head(k.stack) = "read" THEN [k1 EXCEPT !.pc = IF r < 0 THEN "user" ELSE "reading"]
    ELSE IF k.c.timed /\ r = -2 /\ k.elapsed < Deadline THEN [k EXCEPT !.pc = "tls"]
    ELSE IF r = -1 \/ k.down > 0 \/ (k.c.timed /\ r = -2) THEN Call(k1, "destroy", "failed")
    ELSE [k1 EXCEPT !.pc = "user"]

(* establish_logical_layer returns r.  kws_init_ex goes on trying until the  *)
(* deadline if there is one, and takes anything but -1 for success; then     *)
(* kws_connect_ex hands the context over.  kws_read_frame returns what is    *)
(* negative.                                                                 *)
Return(k, r) ==
    LET k1 == [k EXCEPT !.stack = Tail(@), !.block = k.c.block,
                        !.nonblock = StaysNonblock(k)] IN
    IF Head(k.stack) = "read" THEN [k1 EXCEPT !.pc = IF r < 0 THEN "user" ELSE "reading"]
    ELSE IF k.c.timed /\ r = -2 /\ k.elapsed < Deadline THEN [k EXCEPT !.pc = "tls"]
    ELSE IF r = -1 \/ k.down > 0 \/ (k.c.timed /\ r = -2) THEN Call(k1, "destroy", "failed")
    ELSE [k1 EXCEPT !.pc = "user", !.destroy_ssl_ctx = k.ctx = "own"]

(* Time counts for the deadline of kws_init_ex only, and only up to it. *)
Waited(k, t) == [k EXCEPT !.elapsed =
                    IF k.c.timed /\ Head(k.stack) = "init"
                    THEN IF @ + t < Deadline THEN @ + t ELSE Deadline
                    ELSE @]

(* A read comes back: at once or after its polls if the socket does not      *)
(* block or is none, otherwise only if the peer is not silent.               *)
Comes == lnk.nonblock \/ ~lnk.sock \/ lnk.peer # "silent"

(* The TLS part: SSL_new once, then SSL_connect or SSL_accept until it is    *)
(* done, fails, or the tries are used up.                                    *)
TlsHandshake ==
    /\ lnk.pc = "tls"
    /\ IF lnk.sanity = 0 THEN lnk' = Return(lnk, -1)
       ELSE IF lnk.logical_established THEN lnk' = Return(lnk, 0)
       ELSE IF ~lnk.c.secure \/ lnk.secure_established
       THEN lnk' = [lnk EXCEPT !.pc = "upgrade"]
       ELSE LET k == [lnk EXCEPT !.ssl = "live"]
                less == Waited([k EXCEPT !.sanity = @ - 1], 1)
            IN  \/ lnk.ssl = "none" /\ lnk' = Return(lnk, -1)
                \/ /\ lnk.peer # "silent"
                   /\ lnk' = [k EXCEPT !.secure_established = TRUE, !.pc = "upgrade"]
                \/ lnk.peer # "silent" /\ lnk' = Return(k, -1)
                \/ /\ Comes
                   /\ lnk' = IF ~k.block THEN Return(less, -2)
                             ELSE IF less.sanity = 0 THEN Return(less, -1) ELSE less

-----------------------------------------------------------------------------
(* What one read of the server's answer brings: nothing, or an error; some   *)
(* of it without the end of the header; the end without the accept key that  *)
(* belongs to our nonce; or both.                                            *)
Answers == {"nothing", "part", "end", "accepted"}

(* ws_client_handshake, and what establish_client_logical_layer makes of it. *)
(* Its reads wait up to WS_BLOCK each, whatever kws->block says, and there   *)
(* may be any number of them: every one reads to the same place, so that     *)
(* only what came with the last is looked at.  The deadline is not.          *)
ClientUpgrade ==
    /\ lnk.pc = "upgrade" /\ lnk.c.client /\ lnk.down = 0 /\ ~lnk.handshake /\ Comes
    /\ \E got \in Answers, time \in {1, PatienceN} :
          /\ got = "nothing" => time = PatienceN
          /\ lnk.peer = "silent" => got = "nothing"
          /\ lnk.peer = "floods" /\ lnk.sock => got = "part"
          /\ LET k == Waited(lnk, time) IN
             lnk' = IF ~lnk.sock \/ got \in {"nothing", "end"}
                    THEN Return([k EXCEPT !.down = 1, !.unclosed = lnk.sock], -1)
                    ELSE [k EXCEPT !.handshake = got = "accepted"]

(* ws_server_handshake.  A request that it cannot use is answered and the    *)
(* link closed, or kept open (KWS_STAY_OPEN), for HTTP or for nothing.  Its  *)
(* buffer bounds what it reads.                                              *)
ServerUpgrade ==
    /\ lnk.pc = "upgrade" /\ ~lnk.c.client /\ lnk.down = 0 /\ ~lnk.handshake /\ Comes
    /\ \E good \in BOOLEAN :
          /\ good => lnk.peer # "silent"
          /\ lnk' = IF good \/ (lnk.c.stay_open /\ lnk.c.http)
                    THEN [lnk EXCEPT !.handshake = TRUE]
                    ELSE IF lnk.c.stay_open
                    THEN Return([lnk EXCEPT !.down = 1, !.unclosed = lnk.sock], -1)
                    ELSE Call(lnk, "close", "refused")

(* The layer is established; a client that validates certificates may then   *)
(* be told that the server's is no good.                                     *)
UpgradeDone ==
    /\ lnk.pc = "upgrade" /\ (lnk.down > 0 \/ lnk.handshake)
    /\ LET k == [lnk EXCEPT !.logical_established = TRUE] IN
       \/ lnk' = Return(k, 0)
       \/ lnk.c.client /\ lnk.ssl = "live" /\ lnk' = Return(k, -1)

-----------------------------------------------------------------------------
(* The owner's calls.  A read drives the handshake first. *)
UserRead == lnk.pc = "user" /\ lnk' = Call(lnk, "tls", "read")
UserClose == lnk.pc = "user" /\ lnk' = Call(lnk, "close", "user")
UserDestroy == lnk.pc = "user" /\ lnk' = Call(lnk, "destroy", "user")

(* kws_read_frame behind the handshake: it returns, or closes the link on an *)
(* error, at the peer's close frame or at the end of the peer's TLS stream.  *)
(* It goes on as long as control frames and fragments keep coming.           *)
ReadOrClose ==
    /\ lnk.pc = "reading"
    /\ lnk.down = 0 => Comes /\ lnk.peer # "floods"
    /\ \/ lnk' = [lnk EXCEPT !.pc = "user"]
       \/ /\ lnk.down = 0
          /\ \E io, eof \in BOOLEAN :
                lnk' = Call([lnk EXCEPT !.ssl_io_error = @ \/ (io /\ lnk.ssl = "live"),
                                        !.received_shutdown = @ \/ (eof /\ lnk.ssl = "live")],
                            "close", "user")

(* kws_close: only the first call does anything.  The close frame goes out   *)
(* if the link was up, and TLS is shut down if it still can be.              *)
CloseLink ==
    /\ lnk.pc = "close"
    /\ LET k == [lnk EXCEPT !.down = 1,
                            !.goodbyes = IF lnk.handshake /\ lnk.sock THEN @ + 1 ELSE @]
           polite == /\ lnk.ssl = "live" /\ lnk.sock /\ lnk.secure_established
                     /\ ~lnk.ssl_io_error /\ ~lnk.received_shutdown
       IN  lnk' = IF lnk.down > 0 THEN [lnk EXCEPT !.pc = Head(lnk.stack), !.stack = Tail(@)]
                  ELSE [k EXCEPT !.pc = IF polite THEN "shutdown" ELSE "closing", !.n = 0]

(* SSL_shutdown: it wants to read as long as the peer's TLS stream has not   *)
(* ended, or is not done yet, or is done.  On a socket that blocks the first *)
(* call only sends.                                                          *)
Shutdown ==
    /\ lnk.pc = "shutdown"
    /\ lnk.n > 0 /\ ~lnk.received_shutdown => Comes
    /\ \/ /\ ~lnk.received_shutdown /\ (lnk.nonblock \/ lnk.n > 0)
          /\ lnk' = [lnk EXCEPT !.pc = "drain"]
       \/ lnk' = [lnk EXCEPT !.n = @ + 1, !.pc = IF lnk.n + 1 = SoftN THEN "closing" ELSE @]
       \/ lnk' = [lnk EXCEPT !.pc = "closing"]


(* What the peer still sends is read and dropped, as much as that is, until  *)
(* its TLS stream ends, it fails, or nothing came for too many tries.        *)
Drain ==
    /\ lnk.pc = "drain" /\ Comes
    /\ \/ lnk.peer # "silent" /\ UNCHANGED lnk
       \/ lnk.peer = "answers" /\ lnk' = [lnk EXCEPT !.received_shutdown = TRUE, !.pc = "shutdown"]
       \/ /\ lnk.peer # "floods"
          /\ lnk' = [lnk EXCEPT !.n = @ + 1, !.pc = IF lnk.n + 1 = SoftN THEN "closing" ELSE @]
       \/ lnk.peer = "answers" /\ lnk' = [lnk EXCEPT !.pc = "closing"]

(* The end of kws_close, where restore_socket makes the socket block.        *)
(* ws_server_handshake, which may have called it, fails then.                *)
CloseSocket ==
    /\ lnk.pc = "closing"
    /\ LET k == [lnk EXCEPT !.sock = FALSE, !.nonblock = FALSE,
                            !.stack = Tail(@), !.pc = Head(lnk.stack),
                            !.fd = IF lnk.c.close_sock /\ lnk.sock THEN "closed" ELSE @]
       IN  lnk' = IF Head(lnk.stack) = "refused" THEN Return(k, -1) ELSE k

(* kws_destroy: closes first, then frees. *)
DestroyLink ==
    /\ lnk.pc = "destroy"
    /\ LET k == [lnk EXCEPT !.down = 2, !.freed = TRUE, !.stack = Tail(@),
                            !.ssl = IF @ = "live" THEN "freed" ELSE @,
                            !.ctx_frees = IF lnk.destroy_ssl_ctx THEN @ + 1 ELSE @]
       IN  lnk' = IF lnk.down = 0 THEN Call(lnk, "close", "destroy")
                  ELSE IF Head(lnk.stack) = "failed" THEN ConnectErr(k)
                  ELSE [k EXCEPT !.pc = "gone"]

(* External: from some moment on the peer is silent, or does not stop.       *)
PeerTurns ==
    /\ lnk.peer = "answers" /\ lnk.pc # "gone"
    /\ \E p \in {"silent", "floods"} : lnk' = [lnk EXCEPT !.peer = p]

LinkNext == \/ ConnectUrl \/ ConnectSocket \/ AcceptSocket \/ InitLink \/ TlsHandshake
            \/ ClientUpgrade \/ ServerUpgrade \/ UpgradeDone
            \/ UserRead \/ UserClose \/ UserDestroy \/ ReadOrClose
            \/ CloseLink \/ Shutdown \/ Drain \/ CloseSocket \/ DestroyLink \/ PeerTurns

LinkSpec == LinkInit /\ [][LinkNext]_lnk

(* A call in progress goes on; the owner is not forced to call.              *)
LinkCalls == \/ ConnectUrl \/ ConnectSocket \/ AcceptSocket \/ InitLink \/ TlsHandshake
             \/ ClientUpgrade \/ ServerUpgrade \/ UpgradeDone \/ ReadOrClose
             \/ CloseLink \/ Shutdown \/ Drain \/ CloseSocket \/ DestroyLink

LinkFairSpec == LinkSpec /\ WF_lnk(LinkCalls)

-----------------------------------------------------------------------------
(* Every field holds a value of its type. *)
LinkTypeOK ==
    /\ lnk.pc \in LinkSteps /\ lnk.down \in 0..2 /\ lnk.sanity \in 0..InitSanity
    /\ lnk.ssl \in {"none", "live", "freed"} /\ lnk.fd \in {"none", "open", "closed"}
    /\ lnk.stack \in Seq({"init", "read", "refused", "user", "destroy", "failed"})
    /\ lnk.n \in 0..SoftN /\ lnk.elapsed \in 0..Deadline
    /\ lnk.nonblock \in BOOLEAN /\ lnk.peer \in Peers

(* Whatever step fails, when the link is gone its TLS object is freed, a      *)
(* context that kws_connect_ex made is freed exactly once and the caller's    *)
(* never; and with KWS_CLOSE_SOCK the descriptor is closed unless the upgrade *)
(* failed without kws_close, in which case nobody closes it.                  *)
NothingLeaks == lnk.pc = "gone" =>
    /\ lnk.ssl # "live"
    /\ lnk.ctx_frees = IF lnk.ctx = "own" THEN 1 ELSE 0
    /\ lnk.c.close_sock /\ lnk.fd = "open" => lnk.unclosed

(* The link says good-bye at most once, and never before it was up.           *)
OneGoodbye == lnk.goodbyes <= 1 /\ (lnk.goodbyes = 1 => lnk.handshake)

(* How a link ends, whatever failed before: both of the above.                *)
LinkSound == NothingLeaks /\ OneGoodbye

(* Where the code leaves it to the peer how long a call takes.  Silence      *)
(* holds the calls that read from a socket that blocks, as it does after a    *)
(* handshake with a timeout: kws_read_frame, SSL_shutdown once its own alert  *)
(* is out, SSL_read behind it.  A peer that does not stop holds the loops     *)
(* without a limit: the client's read of the handshake answer, the frames of  *)
(* kws_read_frame, and the reads of kws_close, which count only those that    *)
(* bring nothing.                                                             *)
HeldByPeer ==
    \/ /\ lnk.peer = "silent" /\ lnk.sock /\ ~lnk.nonblock
       /\ \/ lnk.pc = "reading" /\ lnk.down = 0
          \/ lnk.pc = "shutdown" /\ lnk.n > 0 /\ ~lnk.received_shutdown
          \/ lnk.pc = "drain"
    \/ /\ lnk.peer = "floods" /\ lnk.sock
       /\ \/ lnk.pc = "upgrade" /\ lnk.c.client /\ lnk.down = 0 /\ ~lnk.handshake
          \/ lnk.pc = "reading" /\ lnk.down = 0
          \/ lnk.pc = "drain"

(* Whatever OpenSSL answers, every call of the owner returns unless the peer  *)
(* holds it in one of those places; in particular no call hangs on a silent   *)
(* peer while the socket does not block.                                      *)
LinkCallsReturn ==
    (lnk.pc \notin {"user", "gone"}) ~> (lnk.pc \in {"user", "gone"} \/ HeldByPeer)

(* The comment in kws_close (kws.c:1153): it gives up on a dead peer after    *)
(* WS_SOFT_BLOCK.  So it does as long as the socket does not block.           *)
CloseGivesUp ==
    (lnk.pc = "shutdown" /\ lnk.peer = "silent") ~> (lnk.pc \notin {"shutdown", "drain"})
=============================================================================
