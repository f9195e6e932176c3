-------------------------------- MODULE KsTls --------------------------------
(***************************************************************************)
(* TLS sessions (src/ks_tls.c): ks_tls_connect and ks_tls_accept over      *)
(* ks_tls_init, the reads and writes with their retries, the bounded       *)
(* shutdown of ks_tls_close, ks_tls_destroy, and the context that server   *)
(* sessions share.                                                         *)
(*                                                                         *)
(* OpenSSL is external: each call gives one of its results; a context is   *)
(* counted, SSL_new takes a reference and SSL_free drops it.               *)
(***************************************************************************)
EXTENDS Integers, FiniteSets

CONSTANTS TlsSessions,      \* identities of sessions
          InitRetries,      \* init_timeout_ms / KS_TLS_INIT_RETRY_MS
          IoRetries,        \* timeout_ms / KS_TLS_READ_RETRY_MS
          ShutdownRetries   \* KS_TLS_SHUTDOWN_TIMEOUT_MS / KS_TLS_SHUTDOWN_RETRY_MS

ASSUME TlsConstants == /\ IsFiniteSet(TlsSessions) /\ "shared" \notin TlsSessions
                       /\ InitRetries \in Nat /\ IoRetries \in Nat /\ ShutdownRetries \in Nat

VARIABLE tls                \* the sessions and the contexts

TlsSteps == {"start", "init", "establish", "user", "io", "close", "shutdown", "drain",
             "close_end", "destroy", "gone"}

NewSession == [pc |-> "start", type |-> "none", fd |-> "none", closes |-> 0, ssl |-> "none",
               io_error |-> FALSE, established |-> FALSE, sent |-> FALSE, received |-> FALSE,
               down |-> 0, retry |-> 0, timed |-> TRUE, fatal |-> FALSE, rude |-> FALSE]

(* refs: references to the client's own context of each session, and to the  *)
(* shared one (under "shared").                                              *)
NewTls == [s |-> [i \in TlsSessions |-> NewSession],
           refs |-> [c \in TlsSessions \cup {"shared"} |-> 0],
           shared |-> "none", stale |-> FALSE]

TlsInit == tls = NewTls

CtxOf(i) == IF tls.s[i].type = "client" THEN i ELSE "shared"

Step(i, session) == tls' = [tls EXCEPT !.s[i] = session]

-----------------------------------------------------------------------------
(* ks_tls_create_shared_server_ctx, which gives back its block if the SSL    *)
(* context cannot be set up, and ks_tls_destroy_shared_server_ctx: its owner *)
(* calls it when no ks_tls_accept is in progress.                            *)
CreateSharedCtx ==
    /\ tls.shared = "none"
    /\ tls' = [tls EXCEPT !.shared = "live", !.refs["shared"] = 1]

DestroySharedCtx ==
    /\ tls.shared = "live"
    /\ \A i \in TlsSessions : tls.s[i].pc \notin {"init", "establish"}
    /\ tls' = [tls EXCEPT !.shared = "gone", !.refs["shared"] = @ - 1]

(* ks_tls_connect: the name or the connection may fail (ks_tls_init refuses  *)
(* an invalid socket).  ks_tls_accept: refused without a shared context, and *)
(* the peer's socket stays the caller's.                                     *)
TlsConnect(i) ==
    /\ tls.s[i].pc = "start"
    /\ \/ Step(i, [tls.s[i] EXCEPT !.pc = "gone"])
       \/ Step(i, [tls.s[i] EXCEPT !.pc = "init", !.type = "client", !.fd = "open"])

TlsAccept(i) ==
    /\ tls.s[i].pc = "start" /\ tls.shared # "none"
    /\ Step(i, IF tls.shared = "live"
               THEN [tls.s[i] EXCEPT !.pc = "init", !.type = "server", !.fd = "open"]
               ELSE [tls.s[i] EXCEPT !.pc = "gone"])

(* A client makes its own context; ks_socket_common_setup. *)
InitSession(i) ==
    /\ tls.s[i].pc = "init"
    /\ \/ tls.s[i].type = "client" /\ Step(i, [tls.s[i] EXCEPT !.pc = "destroy"])
       \/ tls' = [tls EXCEPT !.s[i].pc = "establish", !.s[i].retry = 0,
                    !.refs[CtxOf(i)] = IF tls.s[i].type = "client" THEN 1 ELSE @]

(* Back to the user: what counted the retries is gone. *)
Returned(s) == [s EXCEPT !.pc = "user", !.retry = 0, !.timed = TRUE]

(* establish_peer_tls: SSL_new once, then SSL_connect or SSL_accept until it *)
(* is done, fails or the retries are used up.  A failure destroys.           *)
Establish(i) ==
    LET s == tls.s[i]
        first == s.ssl = "none"
        live == [s EXCEPT !.ssl = "live"]
        Becomes(x) == tls' = [tls EXCEPT !.s[i] = x, !.stale = @ \/ tls.refs[CtxOf(i)] = 0,
                                 !.refs[CtxOf(i)] = IF first THEN @ + 1 ELSE @]
    IN  /\ s.pc = "establish"
        /\ \/ first /\ Step(i, [s EXCEPT !.pc = "destroy"])
           \/ Becomes(Returned([live EXCEPT !.established = TRUE]))
           \/ Becomes([live EXCEPT !.pc = "destroy"])
           \/ Becomes(IF s.retry + 1 > InitRetries THEN [live EXCEPT !.pc = "destroy"]
                      ELSE [live EXCEPT !.retry = @ + 1])

-----------------------------------------------------------------------------
(* ks_tls_read_timeout and ks_tls_write_timeout: again while OpenSSL wants   *)
(* it, without end if the timeout is 0.                                      *)
CallIo(i) ==
    /\ tls.s[i].pc = "user" /\ ~tls.s[i].fatal
    /\ \E timed \in BOOLEAN : Step(i, [tls.s[i] EXCEPT !.pc = "io", !.retry = 0, !.timed = timed])

(* Mutant: the error is not noted in ssl_io_error. *)
IoFailsUnseen(s) == Returned([s EXCEPT !.fatal = TRUE])

IoFails(s) == Returned([s EXCEPT !.io_error = TRUE, !.fatal = TRUE])

Io(i) ==
    LET s == tls.s[i] IN
    /\ s.pc = "io"
    /\ \/ Step(i, Returned(s))                                               \* SUCCESS
       \/ Step(i, Returned([s EXCEPT !.received = TRUE]))                    \* BREAK
       \/ \E sent \in BOOLEAN : Step(i, IoFails([s EXCEPT !.sent = @ \/ sent]))   \* FAIL
       \/ Step(i, IF s.timed /\ s.retry + 1 > IoRetries                      \* TIMEOUT
                  THEN Returned(s)
                  ELSE [s EXCEPT !.retry = IF s.timed THEN @ + 1 ELSE @])

UserDestroys(i) == tls.s[i].pc = "user" /\ Step(i, [tls.s[i] EXCEPT !.pc = "destroy"])

-----------------------------------------------------------------------------
(* ks_tls_destroy: closes first, then frees the SSL object, and the context  *)
(* of a client.                                                              *)
DestroySession(i) ==
    LET s == tls.s[i] IN
    /\ s.pc = "destroy"
    /\ IF s.down = 0 THEN Step(i, [s EXCEPT !.pc = "close"])
       ELSE tls' = [tls EXCEPT !.s[i].pc = "gone", !.s[i].down = 2,
                      !.s[i].ssl = IF @ = "live" THEN "freed" ELSE @,
                      !.refs[CtxOf(i)] = @ - (IF s.ssl = "live" THEN 1 ELSE 0)
                         - (IF s.type = "client" /\ @ > 0 THEN 1 ELSE 0)]

(* ks_tls_close: no SSL_shutdown if TLS was never up, after a fatal error or *)
(* if it was sent; one if the peer closed; both directions otherwise.        *)
CloseSession(i) ==
    LET s == [tls.s[i] EXCEPT !.down = 1] IN
    /\ s.pc = "close"
    /\ Step(i, IF s.ssl = "none" \/ ~s.established \/ s.io_error \/ s.sent
               THEN [s EXCEPT !.pc = "close_end"]
               ELSE IF s.received
               THEN [s EXCEPT !.pc = "close_end", !.sent = TRUE, !.rude = @ \/ s.fatal]
               ELSE [s EXCEPT !.pc = "shutdown", !.retry = 0])

(* One more try, or enough. *)
Again(s, pc) == IF s.retry + 1 > ShutdownRetries THEN [s EXCEPT !.pc = "close_end"]
                ELSE [s EXCEPT !.retry = @ + 1, !.pc = pc]

(* SSL_shutdown: done, not done yet (read what is left), wants to write, or  *)
(* fails.                                                                    *)
ShutdownSession(i) ==
    LET s == [tls.s[i] EXCEPT !.sent = TRUE, !.rude = @ \/ tls.s[i].fatal] IN
    /\ s.pc = "shutdown"
    /\ \/ s.received /\ Step(i, [s EXCEPT !.pc = "close_end"])
       \/ ~s.received /\ Step(i, [s EXCEPT !.pc = "drain"])
       \/ Step(i, Again(s, "shutdown"))
       \/ Step(i, [s EXCEPT !.pc = "close_end"])

(* SSL_read_ex: data to drop, nothing yet, the end of the stream or a full   *)
(* socket (back to SSL_shutdown, one more try), or an error.  The last try   *)
(* with data leaves the inner loop first; the outer one then ends as well.   *)
DrainSession(i) ==
    LET s == tls.s[i] IN
    /\ s.pc = "drain"
    /\ \/ Step(i, Again(s, "drain"))
       \/ \E end \in BOOLEAN : Step(i, Again([s EXCEPT !.received = @ \/ end], "shutdown"))
       \/ Step(i, [s EXCEPT !.pc = "close_end", !.fatal = TRUE])

(* close_end: the socket is always closed. *)
CloseEnd(i) ==
    /\ tls.s[i].pc = "close_end"
    /\ Step(i, [tls.s[i] EXCEPT !.pc = "destroy", !.fd = "closed", !.closes = @ + 1,
                                   !.retry = 0])

SessionCalls(i) == \/ InitSession(i) \/ Establish(i) \/ Io(i) \/ DestroySession(i)
                   \/ CloseSession(i) \/ ShutdownSession(i) \/ DrainSession(i) \/ CloseEnd(i)

TlsNext == \/ CreateSharedCtx \/ DestroySharedCtx
           \/ \E i \in TlsSessions : TlsConnect(i)
           \/ \E i \in TlsSessions : TlsAccept(i)
           \/ \E i \in TlsSessions : CallIo(i)
           \/ \E i \in TlsSessions : UserDestroys(i)
           \/ \E i \in TlsSessions : SessionCalls(i)

TlsSpec == TlsInit /\ [][TlsNext]_tls

-----------------------------------------------------------------------------
(* Every field holds a value of its type; the references of a context never go
   below zero. *)
TlsTypeOK ==
    /\ \A i \in TlsSessions :
         LET s == tls.s[i] IN
         /\ s.pc \in TlsSteps /\ s.ssl \in {"none", "live", "freed"} /\ s.down \in 0..2
         /\ s.retry \in 0..(InitRetries + IoRetries + ShutdownRetries)
    /\ tls.refs \in [TlsSessions \cup {"shared"} -> 0..(Cardinality(TlsSessions) + 1)]

(* Whatever fails, a session that is gone has freed its SSL object, closed    *)
(* its socket exactly once, and dropped its own context but never the shared  *)
(* one; that one lives exactly as long as its owner or a session needs it,    *)
(* and nobody uses a freed one.                                               *)
SessionsClean ==
    LET using == {i \in TlsSessions : tls.s[i].type = "server" /\ tls.s[i].ssl = "live"} IN
    /\ \A i \in TlsSessions :
         /\ tls.s[i].pc = "gone" => /\ tls.s[i].ssl # "live" /\ tls.refs[i] = 0
                                    /\ tls.s[i].fd # "open"
         /\ tls.s[i].closes <= 1
    /\ tls.refs["shared"] = Cardinality(using) + (IF tls.shared = "live" THEN 1 ELSE 0)
    /\ ~tls.stale

(* "This flag indicates that we should not attempt to shut down the           *)
(* connection with SSL_shutdown": it is never called after a fatal error.     *)
NoShutdownAfterFatal == \A i \in TlsSessions : ~tls.s[i].rude

(* Both of the above. *)
TlsSound == SessionsClean /\ NoShutdownAfterFatal

(* Every call of a session returns, unless it was asked to wait for ever: in  *)
(* particular ks_tls_close ends even if the peer sends without end.           *)
TlsCallsReturn == \A i \in TlsSessions :
    (tls.s[i].pc \notin {"start", "user", "gone"} /\ tls.s[i].timed)
        ~> (tls.s[i].pc \in {"user", "gone"})
=============================================================================
