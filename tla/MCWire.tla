------------------------------- MODULE MCWire -------------------------------
(***************************************************************************)
(* Small instances of what runs under a connection, one beside the other:  *)
(* the read-write lock, the library's start and end, TLS sessions and the  *)
(* three layers of kws (link, frames, HTTP requests).  A behaviour is one  *)
(* of them, chosen at the start, with the others at rest.                  *)
(***************************************************************************)
EXTENDS KsRwl, KsLib, KsTls, KwsLink, KwsFrame, KwsHttp

CONSTANTS t1, t2, t3

VARIABLE part

wireVars == <<part, rwlVars, lib, tls, lnk, kws, http>>

MCThreads == {t1, t2, t3}

-----------------------------------------------------------------------------
(* What the peers send.                                                    *)

Frame(op, fin, mask, ext, len) == [op |-> op, fin |-> fin, mask |-> mask, ext |-> ext, len |-> len]

\* Whole messages and fragments, masked and not, with lengths of 7, 16 and 64
\* bits, control frames between them, and what must be refused.
First == Frame("TEXT", FALSE, 0, 2, 3)
Second == Frame("CONTINUATION", TRUE, 0, 0, 8)
MCFrames == {First, Second, Frame("TEXT", TRUE, 4, 0, 5), Frame("TEXT", TRUE, 0, 0, 1),
             Frame("CONTINUATION", FALSE, 4, 0, 4), Frame("PING", TRUE, 0, 0, 2),
             Frame("CLOSE", TRUE, 0, 0, 2), Frame("RESERVED", TRUE, 0, 0, 0),
             Frame("TEXT", TRUE, 4, 8, 2)}
MCScripts == SeqOf(MCFrames, 2) \cup {<<First, f, Second>> : f \in MCFrames}

Request(line, uri, qs, headers, body) ==
    [line |-> line, uri |-> uri, qs |-> qs, headers |-> headers, body |-> body]

MCRequests == {Request("1.1", <<"a">>, <<>>, <<"h">>, 0),
               Request("1.1", <<"a">>, <<"var", "bare", "var">>, <<"h", "h">>, 2),
               Request("1.0", <<"">>, <<>>, <<"h">>, 1),
               Request("1.1", <<"a", "b", "..", "..", "..", "b">>, <<>>, <<>>, 0),
               Request("1.1", <<"a">>, <<>>, <<"h", "bad">>, 1),
               Request("bad", <<"a">>, <<>>, <<"h">>, 0),
               Request("1.1", <<"a">>, <<>>, <<"h", "h", "h", "h">>, 1)}

\* One or two requests, and one for every uri of up to three segments.
MCHttpScripts == SeqOf(MCRequests, 2) \cup
    {<<Request("1.1", uri, <<>>, <<"h">>, 1)>> :
        uri \in UNION {[1..n -> {"", ".", "..", "a", "b"}] : n \in 1..3}}

-----------------------------------------------------------------------------
\* No link, which is how one is left that is gone.
NoLink == [NewLink([c \in {"client", "secure", "own", "block", "close_sock", "stay_open",
                           "http", "timed"} |-> FALSE]) EXCEPT !.pc = "gone"]

WireInit ==
    /\ part \in {"rwl", "lib", "tls", "link", "frames", "http"}
    /\ RwlInit /\ LibInit /\ TlsInit
    /\ IF part = "link" THEN LinkInit ELSE lnk = NoLink
    /\ IF part = "frames" THEN FrameInit ELSE kws = NewKws(<<>>, FALSE, 0)
    /\ IF part = "http" THEN HttpInit ELSE http = NewHttp(<<>>, FALSE)

\* Every part but the lock, which can always be asked for, may come to its
\* end: there the behaviour stutters.
WireNext ==
    /\ UNCHANGED part
    /\ \/ part = "rwl" /\ RwlNext /\ UNCHANGED <<lib, tls, lnk, kws, http>>
       \/ part = "lib" /\ LibNext /\ UNCHANGED <<rwlVars, tls, lnk, kws, http>>
       \/ part = "tls" /\ TlsNext /\ UNCHANGED <<rwlVars, lib, lnk, kws, http>>
       \/ part = "link" /\ LinkNext /\ UNCHANGED <<rwlVars, lib, tls, kws, http>>
       \/ part = "frames" /\ FrameNext /\ UNCHANGED <<rwlVars, lib, tls, lnk, http>>
       \/ part = "http" /\ HttpNext /\ UNCHANGED <<rwlVars, lib, tls, lnk, kws>>
       \/ part # "rwl" /\ UNCHANGED <<rwlVars, lib, tls, lnk, kws, http>>

\* A thread inside a call goes on; when calls are made is up to the callers.
WireSpec ==
    /\ WireInit /\ [][WireNext]_wireVars
    /\ WF_kws(FrameReading) /\ WF_lnk(LinkCalls) /\ LibCalls
    /\ \A i \in TlsSessions : WF_tls(SessionCalls(i))

-----------------------------------------------------------------------------
(* Every field of every part holds a value of its type.                    *)
WireTypeOK == /\ RwlTypeOK /\ LibTypeOK  /\ TlsTypeOK
              /\ LinkTypeOK /\ FrameTypeOK /\ HttpTypeOK

=============================================================================
