------------------------------- MODULE KsLib --------------------------------
(***************************************************************************)
(* Start and end of the library (src/ks.c), its global pool, and the       *)
(* default logger (src/ks_log.c) and OpenSSL locks (src/ks_ssl.c) that     *)
(* live between them.  ks_init and ks_shutdown may be nested, by one       *)
(* thread and by several: only the first and the last do anything, under   *)
(* the spinlock g_init_lock.                                               *)
(*                                                                         *)
(* A thread logs and asks for the global pool between its ks_init and its  *)
(* ks_shutdown; with EarlyPool it may also ask for the pool before.        *)
(***************************************************************************)
EXTENDS Integers, Sequences, FiniteSets

CONSTANTS LibThreads,   \* threads that use the library
          Nobody,       \* no thread
          LineLen,      \* bytes of a log line
          EarlyPool,    \* may ks_global_pool be called without ks_init?
          MaxInits,     \* bound: ks_init calls of a behaviour
          MaxLines      \* bound: log lines of a behaviour

ASSUME LibConstants == /\ LineLen \in Nat \ {0} /\ MaxInits \in Nat /\ MaxLines \in Nat
                       /\ IsFiniteSet(LibThreads) /\ Nobody \notin LibThreads /\ EarlyPool \in BOOLEAN

VARIABLE lib

(* at, ret: where each thread is, and where ks_global_pool returns to.       *)
(* nest: the calls of ks_init each thread has not yet shut down.             *)
(* pool: g_pool is null, half open (set, but without its mutex), or open.    *)
(* log, ssl: g_log_mutex and the locks of OpenSSL exist.                     *)
(* out: the bytes on stdout, each the thread that wrote it.                  *)
NewLib == [count |-> 0, nest |-> [t \in LibThreads |-> 0], init_lock |-> Nobody,
           pool_lock |-> Nobody, log_lock |-> Nobody, pool |-> "null", log |-> FALSE, ssl |-> FALSE, blocking |-> TRUE,
           at |-> [t \in LibThreads |-> "out"], ret |-> [t \in LibThreads |-> "out"],
           got |-> [t \in LibThreads |-> "null"],
           written |-> [t \in LibThreads |-> 0], woken |-> [t \in LibThreads |-> FALSE],
           out |-> <<>>, inits |-> 0, lines |-> 0]

LibInit == lib = NewLib

Goes(l, t, to) == [l EXCEPT !.at[t] = to]

-----------------------------------------------------------------------------
(* Mutant: only the first initialiser waits for the lock. *)
InitEarly(t) ==
    /\ lib.at[t] \in {"out", "in"} /\ lib.inits < MaxInits
    /\ lib.count > 0 \/ lib.init_lock = Nobody
    /\ lib' = Goes([lib EXCEPT !.count = @ + 1, !.nest[t] = @ + 1, !.inits = @ + 1,
                               !.init_lock = IF lib.count = 0 THEN t ELSE @],
                   t, IF lib.count = 0 THEN "init_log" ELSE "in")

(* ks_init: a later initialiser, or the same one again, only counts, once    *)
(* the first has let go of the lock.                                         *)
InitLibrary(t) ==
    /\ lib.at[t] \in {"out", "in"} /\ lib.inits < MaxInits
    /\ lib.init_lock = Nobody
    /\ lib' = Goes([lib EXCEPT !.count = @ + 1, !.nest[t] = @ + 1, !.inits = @ + 1,
                               !.init_lock = IF lib.count = 0 THEN t ELSE @],
                   t, IF lib.count = 0 THEN "init_log" ELSE "in")

InitLog(t) ==
    /\ lib.at[t] = "init_log"
    /\ lib' = [Goes(lib, t, "pool_test") EXCEPT !.log = TRUE, !.ret[t] = "init_ssl"]

InitSsl(t) ==
    /\ lib.at[t] = "init_ssl"
    /\ lib' = [Goes(lib, t, "in") EXCEPT !.ssl = TRUE, !.init_lock = Nobody]

(* ks_shutdown: the last one takes everything down under the lock. *)
ShutdownLibrary(t) ==
    /\ lib.at[t] = "in" /\ lib.init_lock = Nobody
    /\ lib' = Goes([lib EXCEPT !.count = @ - 1, !.nest[t] = @ - 1,
                               !.got[t] = IF lib.nest[t] = 1 THEN "null" ELSE @,
                               !.init_lock = IF lib.count = 1 THEN t ELSE @],
                   t, IF lib.count = 1 THEN "down_ssl" ELSE IF lib.nest[t] = 1 THEN "out" ELSE "in")

DestroySsl(t) == lib.at[t] = "down_ssl" /\ lib' = [Goes(lib, t, "down_pool") EXCEPT !.ssl = FALSE]

CloseGlobalPool(t) ==
    lib.at[t] = "down_pool" /\ lib' = [Goes(lib, t, "down_log") EXCEPT !.pool = "null"]

ShutdownLog(t) ==
    /\ lib.at[t] = "down_log"
    /\ lib' = [Goes(lib, t, "out") EXCEPT !.log = FALSE, !.init_lock = Nobody]

-----------------------------------------------------------------------------
(* ks_global_pool: tested without a lock, tested again under it.  The pool   *)
(* is opened in two steps: *poolP is set before the mutex is made.           *)
AskPool(t) ==
    /\ lib.at[t] = "in" \/ (EarlyPool /\ lib.at[t] = "out")
    /\ lib.got[t] = "null"
    /\ lib' = [Goes(lib, t, "pool_test") EXCEPT !.ret[t] = lib.at[t]]

Returns(t) == [Goes(lib, t, lib.ret[t]) EXCEPT !.got[t] = lib.pool]

TestPool(t) ==
    /\ lib.at[t] = "pool_test"
    /\ lib' = IF lib.pool # "null" THEN Returns(t) ELSE Goes(lib, t, "pool_lock")

LockPool(t) ==
    /\ lib.at[t] = "pool_lock" /\ lib.pool_lock = Nobody
    /\ lib' = IF lib.pool # "null" THEN Returns(t)
              ELSE [Goes(lib, t, "pool_open") EXCEPT !.pool_lock = t, !.pool = "half"]

OpenPool(t) ==
    /\ lib.at[t] = "pool_open"
    /\ lib' = [Goes(lib, t, lib.ret[t]) EXCEPT !.pool_lock = Nobody, !.pool = "open",
                                               !.got[t] = "open"]

-----------------------------------------------------------------------------
(* default_logger: stdout does not block while the line is written.          *)
BeginLine(t) ==
    /\ lib.at[t] = "in" /\ lib.log_lock = Nobody /\ lib.lines < MaxLines
    /\ lib' = [Goes(lib, t, "log") EXCEPT !.log_lock = t, !.blocking = FALSE, !.lines = @ + 1,
                                          !.written[t] = 0, !.woken[t] = FALSE]

EndLine(l, t) == [Goes(l, t, "in") EXCEPT !.log_lock = Nobody, !.blocking = TRUE]

WriteLine(t) == \E n \in 1..(LineLen - lib.written[t]) :
    LET l == [lib EXCEPT !.written[t] = @ + n, !.out = @ \o [i \in 1..n |-> t]] IN
    /\ lib.at[t] = "log"
    /\ lib' = IF l.written[t] = LineLen THEN EndLine(l, t) ELSE l

(* stdout takes nothing: wakeup_stdout is tried once, and may fail. *)
StdoutFull(t) == \E wakes \in BOOLEAN :
    /\ lib.at[t] = "log"
    /\ lib' = IF lib.woken[t] \/ ~wakes THEN EndLine(lib, t) ELSE [lib EXCEPT !.woken[t] = TRUE]

LibStep(t) ==
    \/ InitLog(t) \/ InitSsl(t) \/ DestroySsl(t) \/ CloseGlobalPool(t) \/ ShutdownLog(t)
    \/ TestPool(t) \/ LockPool(t) \/ OpenPool(t) \/ WriteLine(t) \/ StdoutFull(t)

LibNext == \E t \in LibThreads :
    InitLibrary(t) \/ ShutdownLibrary(t) \/ AskPool(t) \/ BeginLine(t) \/ LibStep(t)

LibSpec == LibInit /\ [][LibNext]_lib

(* A call that has begun goes on; the spinlocks are held for a few steps.    *)
LibCalls == \A t \in LibThreads : WF_lib(LibStep(t))

-----------------------------------------------------------------------------
LibPlaces == {"out", "in", "init_log", "init_ssl", "down_ssl", "down_pool", "down_log",
              "pool_test", "pool_lock", "pool_open", "log"}

(* Every field holds a value of its type. *)
LibTypeOK ==
    /\ lib.inits \in 0..MaxInits /\ lib.lines \in 0..MaxLines
    /\ lib.count \in 0..lib.inits /\ lib.nest \in [LibThreads -> 0..MaxInits]
    /\ {lib.init_lock, lib.pool_lock, lib.log_lock} \subseteq LibThreads \cup {Nobody}
    /\ lib.pool \in {"null", "half", "open"} /\ {lib.log, lib.ssl, lib.blocking} \subseteq BOOLEAN
    /\ lib.at \in [LibThreads -> LibPlaces] /\ lib.ret \in [LibThreads -> LibPlaces]
    /\ lib.got \in [LibThreads -> {"null", "half", "open"}]
    /\ lib.written \in [LibThreads -> 0..LineLen] /\ lib.out \in Seq(LibThreads)

Inside(t) == lib.at[t] \in {"in", "log"} \/ (lib.at[t] \in {"pool_test", "pool_lock", "pool_open"}
                                             /\ lib.ret[t] = "in")

(* While any thread is between its ks_init and its last ks_shutdown, however *)
(* deep it has nested them and whatever the others do, g_init_count is not 0 *)
(* (ks_shutdown asserts it) and the log mutex, the OpenSSL locks and the     *)
(* open global pool are there; when the last one has left, nothing is.       *)
LayersReady ==
    /\ \A t \in LibThreads : Inside(t) => lib.count > 0 /\ lib.log /\ lib.ssl /\ lib.pool = "open"
    /\ lib.count = 0 /\ lib.init_lock = Nobody /\ ~EarlyPool
       => ~lib.log /\ ~lib.ssl /\ lib.pool = "null"

(* No thread is handed the global pool before its mutex exists. *)
PoolWhole == \A t \in LibThreads : lib.got[t] # "half"

(* The lines on stdout do not run into each other (a line that was given up  *)
(* leaves its beginning), and stdout blocks whenever nobody writes.          *)
LinesApart ==
    /\ lib.log_lock = Nobody => lib.blocking
    /\ \A t \in LibThreads : lib.at[t] = "log" =>
           /\ lib.log_lock = t
           /\ \A i \in 0..(lib.written[t] - 1) : lib.out[Len(lib.out) - i] = t

(* The three above. *)
LibSound == LayersReady /\ PoolWhole /\ LinesApart

(* Every call of the library returns. *)
LibCallsReturn == \A t \in LibThreads : lib.at[t] \notin {"out", "in"} ~> lib.at[t] \in {"out", "in"}
=============================================================================
