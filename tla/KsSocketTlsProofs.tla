------------------------- MODULE KsSocketTlsProofs --------------------------
(***************************************************************************)
(* Proofs about KsSocket, for any number of descriptors, and about KsTls,  *)
(* for any number of sessions and any retry limits.                        *)
(***************************************************************************)
EXTENDS KsSocket, KsTls, FiniteSetTheorems, SequenceTheorems, WellFoundedInduction, TLAPS

-----------------------------------------------------------------------------
(* Sockets: the inductive invariant                                        *)

Fds == 1..MaxFd
Slots == 0..MaxFd

ConnectSteps == {"start", "nonblock", "connecting", "waiting", "block", "done", "failed"}
ListenSteps == {"start", "bind", "accept", "callback", "done"}
FindSteps == {"start", "route", "mask", "failed", "done"}
Links == {"none", "pending", "up", "failed"}
Errnos == {"none", "refused", "eintr", "etimedout", "inprogress"}
Results == {"none", "SUCCESS", "DISCONNECTED", "BREAK", "FAIL"}

NetRecord ==
    [owner : [Fds -> Owners], block : [Fds -> BOOLEAN], timed : BOOLEAN, masked : BOOLEAN,
     connect : ConnectSteps, sock : Slots, link : Links, errno : Errnos,
     listen : ListenSteps, server : Slots, client : Slots, shut : BOOLEAN, stopped : BOOLEAN,
     find : FindSteps, tmp : Slots, aux : Slots, strays : Nat, datalen : Nat, status : Results]

\* The descriptors of one owner.
Of(owner, who) == {fd \in Fds : owner[fd] = who}

\* Inside ks_socket_connect_ex, ks_listen_sock and ks_find_local_ip.
Trying == {"nonblock", "connecting", "waiting", "block"}
Listening == {"bind", "accept", "callback"}
Finding == {"route", "mask"}

\* Each call in progress holds the descriptor it remembers, and no other.
Seats(n) ==
    /\ Of(n.owner, "connect") = IF n.connect \in Trying THEN {n.sock} ELSE {}
    /\ Of(n.owner, "caller") = IF n.connect = "done" /\ n.sock # 0 THEN {n.sock} ELSE {}
    /\ Of(n.owner, "listen") = IF n.listen \in Listening THEN {n.server} ELSE {}
    /\ Of(n.owner, "client") = IF n.listen = "callback" THEN {n.client} ELSE {}
    /\ Of(n.owner, "find") = IF n.find \in Finding THEN {n.tmp} ELSE {}
    /\ Of(n.owner, "mask") = IF n.aux # 0 THEN {n.aux} ELSE {}

\* Only an owner that stops a listener which has ended touches what is not its.
Straying(n) == n.strays > 0 => n.stopped /\ ~n.shut

\* Before connect() the socket blocks unless there is a timeout; a connection
\* that was waited for is up.
Dialling(n) ==
    /\ n.connect \in {"nonblock", "waiting", "block"} => n.timed
    /\ n.connect = "connecting" /\ ~n.timed => n.block[n.sock]
    /\ n.connect = "connecting" /\ n.timed => ~n.block[n.sock]
    /\ n.connect = "block" => n.link = "up"
    /\ n.connect = "done" /\ n.sock # 0 =>
         /\ n.block[n.sock]
         /\ n.link # "up" => ~n.timed /\ n.errno \in {"eintr", "etimedout"}

NetOK(n) == Seats(n) /\ Straying(n) /\ Dialling(n)

NetIInv == net \in NetRecord /\ NetOK(net)

-----------------------------------------------------------------------------
(* Descriptors                                                             *)

\* A set of numbers that is not empty has a least one, and Min is it.
LEMMA MinIn ==
    ASSUME NEW S, S \subseteq Nat, S # {}
    PROVE  Min(S) \in S /\ \A y \in S : Min(S) <= y
<1>1. \E x \in S : \A y \in S : ~(<<y, x>> \in OpToRel(<, Nat))
  BY NatLessThanWellFounded, WFMin
<1>2. \A x, y \in Nat : <<y, x>> \in OpToRel(<, Nat) <=> y < x
  BY DEF OpToRel
<1>3. \E R : /\ \E x \in S : \A y \in S : ~(<<y, x>> \in R)
             /\ \A x, y \in Nat : <<y, x>> \in R <=> y < x
  BY <1>1, <1>2, Zenon
<1>4. PICK R : /\ \E x \in S : \A y \in S : ~(<<y, x>> \in R)
               /\ \A x, y \in Nat : <<y, x>> \in R <=> y < x
  BY <1>3
<1>5. PICK x \in S : \A y \in S : ~(<<y, x>> \in R)
  BY <1>4
<1>6. ASSUME NEW y \in S PROVE x <= y
  <2>1. x \in Nat /\ y \in Nat /\ ~(y < x)
    BY <1>4, <1>5
  <2> QED
    BY <2>1
<1>7. \E z \in S : \A y \in S : z <= y
  BY <1>6
<1> QED
  BY <1>7 DEF Min

\* A descriptor that is given out was nobody's.
LEMMA OpenedIs ==
    ASSUME NEW k \in NetRecord, k = net, Free # {}, NEW who
    PROVE  \E f \in Fds :
             /\ f = Min(Free) /\ k.owner[f] = "free"
             /\ Opened(who) = [k EXCEPT !.owner = [k.owner EXCEPT ![f] = who],
                                        !.block = [k.block EXCEPT ![f] = TRUE]]
<1>1. Free \subseteq Nat
  BY DEF Free
<1>2. Min(Free) \in Free
  BY <1>1, MinIn
<1>3. Min(Free) \in Fds /\ k.owner[Min(Free)] = "free"
  BY <1>2 DEF Free, Fds
<1>4. Opened(who) = [k EXCEPT !.owner = [k.owner EXCEPT ![Min(Free)] = who],
                              !.block = [k.block EXCEPT ![Min(Free)] = TRUE]]
  BY DEF Opened
<1> QED
  BY <1>3, <1>4

\* Opening adds a descriptor to its owner's and to nobody else's.
LEMMA OpenOf ==
    ASSUME NEW o \in [Fds -> Owners], NEW f \in Fds, o[f] = "free", NEW who \in Owners
    PROVE  /\ [o EXCEPT ![f] = who] \in [Fds -> Owners]
           /\ Of([o EXCEPT ![f] = who], who) = Of(o, who) \cup {f}
           /\ \A w \in Owners \ {who, "free"} : Of([o EXCEPT ![f] = who], w) = Of(o, w)
BY DEF Of

\* ks_socket_connect_ex hands its descriptor to its caller.
LEMMA HandedOver ==
    ASSUME NEW o \in [Fds -> Owners], NEW f \in Fds, o[f] = "connect"
    PROVE  /\ [o EXCEPT ![f] = "caller"] \in [Fds -> Owners]
           /\ Of([o EXCEPT ![f] = "caller"], "caller") = Of(o, "caller") \cup {f}
           /\ Of([o EXCEPT ![f] = "caller"], "connect") = Of(o, "connect") \ {f}
           /\ \A w \in Owners \ {"caller", "connect"} : Of([o EXCEPT ![f] = "caller"], w) = Of(o, w)
<1>1. "caller" \in Owners
  BY DEF Owners
<1> QED
  BY <1>1 DEF Of

\* ks_socket_close by the owner takes it from the owner, and strays from nothing.
LEMMA CloseOf ==
    ASSUME NEW k \in NetRecord, NEW f \in Fds, NEW who \in Owners \ {"free"}, k.owner[f] = who
    PROVE  /\ CloseFd(k, f, who) = [k EXCEPT !.owner = [k.owner EXCEPT ![f] = "free"]]
           /\ [k.owner EXCEPT ![f] = "free"] \in [Fds -> Owners]
           /\ Of([k.owner EXCEPT ![f] = "free"], who) = Of(k.owner, who) \ {f}
           /\ \A w \in Owners \ {who, "free"} :
                Of([k.owner EXCEPT ![f] = "free"], w) = Of(k.owner, w)
<1>1. k.owner \in [Fds -> Owners] /\ "free" \in Owners
  BY DEF NetRecord, Owners
<1>2. CloseFd(k, f, who) = [k EXCEPT !.owner = [k.owner EXCEPT ![f] = "free"]]
  BY DEF CloseFd, NetRecord
<1>3. [k.owner EXCEPT ![f] = "free"] \in [Fds -> Owners]
  BY <1>1
<1>4. Of([k.owner EXCEPT ![f] = "free"], who) = Of(k.owner, who) \ {f}
  BY <1>1 DEF Of
<1>5. \A w \in Owners \ {who, "free"} : Of([k.owner EXCEPT ![f] = "free"], w) = Of(k.owner, w)
  BY <1>1 DEF Of
<1> QED
  BY <1>2, <1>3, <1>4, <1>5

\* Who is in a call has the descriptor that it remembers.
LEMMA Seated ==
    ASSUME NEW k \in NetRecord, Seats(k)
    PROVE  /\ k.connect \in Trying => k.sock \in Fds /\ k.owner[k.sock] = "connect"
           /\ k.connect = "done" /\ k.sock # 0 => k.sock \in Fds /\ k.owner[k.sock] = "caller"
           /\ k.listen \in Listening => k.server \in Fds /\ k.owner[k.server] = "listen"
           /\ k.listen = "callback" => k.client \in Fds /\ k.owner[k.client] = "client"
           /\ k.find \in Finding => k.tmp \in Fds /\ k.owner[k.tmp] = "find"
           /\ k.aux # 0 => k.aux \in Fds /\ k.owner[k.aux] = "mask"
<1>1. ASSUME NEW who, NEW f, Of(k.owner, who) = {f} PROVE f \in Fds /\ k.owner[f] = who
  BY <1>1 DEF Of
<1> QED
  BY <1>1 DEF Seats

\* The owners.
LEMMA OwnerNames ==
    {"connect", "caller", "listen", "client", "find", "mask", "other", "free"} \subseteq Owners
BY DEF Owners

\* What a step needs to know of the network.
LEMMA OneNet ==
    ASSUME NetIInv PROVE \E k \in NetRecord : k = net /\ NetOK(k)
BY DEF NetIInv

-----------------------------------------------------------------------------
(* Every step keeps the invariant                                          *)

\* A call of ks_socket_connect_ex that fails closes its socket.
LEMMA ConnectFailsKeeps ==
    ASSUME NetIInv, net.connect \in Trying, ConnectFails PROVE NetIInv'
<1>1. PICK k \in NetRecord : k = net /\ NetOK(k)
  BY OneNet
<1>2. k.connect \in Trying
  BY <1>1
<1>3. k.sock \in Fds /\ k.owner[k.sock] = "connect"
  BY <1>1, <1>2, Seated DEF NetOK, Trying, Listening, Finding
<1>4. "connect" \in Owners \ {"free"}
  BY OwnerNames
<1> DEFINE o == [k.owner EXCEPT ![k.sock] = "free"]
<1>5. /\ o \in [Fds -> Owners]
      /\ Of(o, "connect") = Of(k.owner, "connect") \ {k.sock}
      /\ \A w \in Owners \ {"free", "connect"} : Of(o, w) = Of(k.owner, w)
  BY <1>3, <1>4, CloseOf
<1> HIDE DEF o
<1>6. /\ o \in [Fds -> Owners]
      /\ Of(o, "connect") = Of(k.owner, "connect") \ {k.sock}
      /\ Of(o, "caller") = Of(k.owner, "caller")
      /\ Of(o, "listen") = Of(k.owner, "listen")
      /\ Of(o, "client") = Of(k.owner, "client")
      /\ Of(o, "find") = Of(k.owner, "find")
      /\ Of(o, "mask") = Of(k.owner, "mask")
  BY <1>5, OwnerNames
<1>7. CloseFd(k, k.sock, "connect") = [k EXCEPT !.owner = o]
  BY <1>3, <1>4, CloseOf DEF o
<1>8. net' = [k EXCEPT !.owner = o, !.connect = "failed", !.sock = 0]
  BY <1>1, <1>2, <1>7 DEF NetRecord, ConnectFails
<1> DEFINE x == [k EXCEPT !.owner = o, !.connect = "failed", !.sock = 0]
<1>9. o \in [Fds -> Owners] /\ "failed" \in ConnectSteps /\ 0 \in Slots
  BY <1>1, <1>2, <1>8, <1>6, SocketConstants DEF NetRecord, ConnectSteps, Slots, Fds
<1>10. x \in NetRecord
  BY <1>9 DEF NetRecord
<1>11. Seats(x)
  BY <1>1, <1>2, <1>6, SocketConstants DEF NetRecord, Fds, NetOK, Seats, Trying, Listening, Finding
<1>12. Straying(x) /\ Dialling(x)
  BY <1>1, <1>2 DEF NetRecord, NetOK, Straying, Dialling
<1> QED
  BY <1>8, <1>10, <1>11, <1>12 DEF NetIInv, NetOK

\* ks_listen_sock ends and closes its server socket.
LEMMA ListenEndsKeeps ==
    ASSUME NetIInv, net.listen \in {"bind", "accept"}, ListenEnds PROVE NetIInv'
<1>1. PICK k \in NetRecord : k = net /\ NetOK(k)
  BY OneNet
<1>2. k.listen \in {"bind", "accept"}
  BY <1>1
<1>3. k.server \in Fds /\ k.owner[k.server] = "listen"
  BY <1>1, <1>2, Seated DEF NetOK, Trying, Listening, Finding
<1>4. "listen" \in Owners \ {"free"}
  BY OwnerNames
<1> DEFINE o == [k.owner EXCEPT ![k.server] = "free"]
<1>5. /\ o \in [Fds -> Owners]
      /\ Of(o, "listen") = Of(k.owner, "listen") \ {k.server}
      /\ \A w \in Owners \ {"listen", "free"} : Of(o, w) = Of(k.owner, w)
  BY <1>3, <1>4, CloseOf, SMTT(60)
<1> HIDE DEF o
<1>6. /\ o \in [Fds -> Owners]
      /\ Of(o, "connect") = Of(k.owner, "connect")
      /\ Of(o, "caller") = Of(k.owner, "caller")
      /\ Of(o, "listen") = Of(k.owner, "listen") \ {k.server}
      /\ Of(o, "client") = Of(k.owner, "client")
      /\ Of(o, "find") = Of(k.owner, "find")
      /\ Of(o, "mask") = Of(k.owner, "mask")
  BY <1>5, OwnerNames
<1>7. CloseFd(k, k.server, "listen") = [k EXCEPT !.owner = o]
  BY <1>3, <1>4, CloseOf DEF o
<1>8. net' = [k EXCEPT !.owner = o, !.listen = "done"]
  BY <1>1, <1>2, <1>7 DEF NetRecord, ListenEnds
<1> DEFINE x == [k EXCEPT !.owner = o, !.listen = "done"]
<1>9. o \in [Fds -> Owners] /\ "done" \in ListenSteps
  BY <1>1, <1>2, <1>8, <1>6, SocketConstants DEF NetRecord, ListenSteps
<1>10. x \in NetRecord
  BY <1>9 DEF NetRecord
<1>11. Seats(x)
  BY <1>1, <1>2, <1>6, SocketConstants DEF NetRecord, Fds, NetOK, Seats, Trying, Listening, Finding
<1>12. Straying(x) /\ Dialling(x)
  BY <1>1, <1>2 DEF NetRecord, NetOK, Straying, Dialling
<1> QED
  BY <1>8, <1>10, <1>11, <1>12 DEF NetIInv, NetOK

\* ks_find_local_ip ends and closes its socket.
LEMMA FindEndsKeeps ==
    ASSUME NetIInv, NEW end \in {"failed", "done"}, net.find \in Finding, FindEnds(end)
    PROVE  NetIInv'
<1>1. PICK k \in NetRecord : k = net /\ NetOK(k)
  BY OneNet
<1>2. k.find \in Finding /\ end \in FindSteps \ Finding
  BY <1>1 DEF FindSteps, Finding
<1>3. k.tmp \in Fds /\ k.owner[k.tmp] = "find"
  BY <1>1, <1>2, Seated DEF NetOK, Trying, Listening, Finding
<1>4. "find" \in Owners \ {"free"}
  BY OwnerNames
<1> DEFINE o == [k.owner EXCEPT ![k.tmp] = "free"]
<1>5. /\ o \in [Fds -> Owners]
      /\ Of(o, "find") = Of(k.owner, "find") \ {k.tmp}
      /\ \A w \in Owners \ {"free", "find"} : Of(o, w) = Of(k.owner, w)
  BY <1>3, <1>4, CloseOf
<1> HIDE DEF o
<1>6. /\ o \in [Fds -> Owners]
      /\ Of(o, "connect") = Of(k.owner, "connect")
      /\ Of(o, "caller") = Of(k.owner, "caller")
      /\ Of(o, "listen") = Of(k.owner, "listen")
      /\ Of(o, "client") = Of(k.owner, "client")
      /\ Of(o, "find") = Of(k.owner, "find") \ {k.tmp}
      /\ Of(o, "mask") = Of(k.owner, "mask")
  BY <1>5, OwnerNames
<1>7. CloseFd(k, k.tmp, "find") = [k EXCEPT !.owner = o]
  BY <1>3, <1>4, CloseOf DEF o
<1>8. net' = [k EXCEPT !.owner = o, !.find = end]
  BY <1>1, <1>2, <1>7 DEF NetRecord, FindEnds
<1> DEFINE x == [k EXCEPT !.owner = o, !.find = end]
<1>9. o \in [Fds -> Owners] /\ end \in FindSteps
  BY <1>1, <1>2, <1>8, <1>6, SocketConstants DEF NetRecord, FindSteps
<1>10. x \in NetRecord
  BY <1>9 DEF NetRecord
<1>11. Seats(x)
  BY <1>1, <1>2, <1>6, SocketConstants DEF NetRecord, Fds, NetOK, Seats, Trying, Listening, Finding
<1>12. Straying(x) /\ Dialling(x)
  BY <1>1, <1>2 DEF NetRecord, NetOK, Straying, Dialling
<1> QED
  BY <1>8, <1>10, <1>11, <1>12 DEF NetIInv, NetOK

\* socket() in ks_socket_connect_ex.
LEMMA ConnectOpenKeeps ==
    ASSUME NetIInv, ConnectOpen PROVE NetIInv'
<1>1. PICK k \in NetRecord : k = net /\ NetOK(k)
  BY OneNet
<1>2. /\ k.connect = "start"
      /\ \/ net' = [k EXCEPT !.connect = "failed"]
         \/ Free # {} /\ net' = [Opened("connect") EXCEPT !.sock = Min(Free),
                        !.connect = IF k.timed THEN "nonblock" ELSE "connecting"]
  BY <1>1 DEF ConnectOpen
<1>3. CASE net' = [k EXCEPT !.connect = "failed"]
  <2> DEFINE x == [k EXCEPT !.connect = "failed"]
  <2>1. "failed" \in ConnectSteps
    BY <1>1, <1>2, <1>3, <1>3, SocketConstants DEF NetRecord, ConnectSteps
  <2>2. x \in NetRecord
    BY <2>1 DEF NetRecord
  <2>3. Seats(x)
    BY <1>1, <1>2, <1>3, SocketConstants DEF NetRecord, Fds, NetOK, Seats, Trying, Listening,
       Finding
  <2>4. Straying(x) /\ Dialling(x)
    BY <1>1, <1>2, <1>3 DEF NetRecord, NetOK, Straying, Dialling
  <2> QED
    BY <1>3, <2>2, <2>3, <2>4 DEF NetIInv, NetOK
<1>4. CASE Free # {} /\ net' = [Opened("connect") EXCEPT !.sock = Min(Free),
                        !.connect = IF k.timed THEN "nonblock" ELSE "connecting"]
  <2>1. Free # {}
    BY <1>4
  <2>2. PICK f \in Fds :
        /\ f = Min(Free) /\ k.owner[f] = "free"
        /\ Opened("connect") = [k EXCEPT !.owner = [k.owner EXCEPT ![f] = "connect"],
                  !.block = [k.block EXCEPT ![f] = TRUE]]
    BY <1>1, <2>1, OpenedIs, ZenonT(60)
  <2> DEFINE o == [k.owner EXCEPT ![f] = "connect"]
  <2>3. /\ o \in [Fds -> Owners]
        /\ Of(o, "connect") = Of(k.owner, "connect") \cup {f}
        /\ \A w \in Owners \ {"connect", "free"} : Of(o, w) = Of(k.owner, w)
    BY <2>2, OpenOf, OwnerNames DEF NetRecord
  <2> HIDE DEF o
  <2>4. /\ o \in [Fds -> Owners]
        /\ Of(o, "connect") = Of(k.owner, "connect") \cup {f}
        /\ Of(o, "caller") = Of(k.owner, "caller")
        /\ Of(o, "listen") = Of(k.owner, "listen")
        /\ Of(o, "client") = Of(k.owner, "client")
        /\ Of(o, "find") = Of(k.owner, "find")
        /\ Of(o, "mask") = Of(k.owner, "mask")
    BY <2>3, OwnerNames
  <2> DEFINE b == [k.block EXCEPT ![f] = TRUE]
  <2>5. /\ b \in [Fds -> BOOLEAN] /\ b[f] = TRUE
        /\ \A g \in Fds \ {f} : b[g] = k.block[g]
    BY DEF NetRecord
  <2>6. /\ k.connect \in Trying => k.sock \in Fds \ {f}
        /\ k.connect = "done" /\ k.sock # 0 => k.sock \in Fds \ {f}
    BY <1>1, <2>2, Seated DEF NetOK
  <2>7. Opened("connect") = [k EXCEPT !.owner = o, !.block = b]
    BY <2>2 DEF o
  <2> HIDE DEF b
  <2>8. net' = [k EXCEPT !.owner = o, !.block = b, !.sock = f,
                         !.connect = IF k.timed THEN "nonblock" ELSE "connecting"]
    BY <1>1, <1>2, <1>4, <2>2, <2>7 DEF NetRecord
  <2> DEFINE x == [k EXCEPT !.owner = o, !.block = b, !.sock = f,
                            !.connect = IF k.timed THEN "nonblock" ELSE "connecting"]
  <2>9. o \in [Fds -> Owners] /\ b \in [Fds -> BOOLEAN] /\ f \in Slots
          /\ (IF k.timed THEN "nonblock" ELSE "connecting") \in ConnectSteps
    BY <1>1, <1>2, <1>4, <2>8, <2>4, <2>5, SocketConstants DEF NetRecord, ConnectSteps, Slots, Fds
  <2>10. x \in NetRecord
    BY <2>9 DEF NetRecord
  <2>11. Seats(x)
    BY <1>1, <1>2, <1>4, <2>4, SocketConstants DEF NetRecord, Fds, NetOK, Seats, Trying, Listening,
       Finding
  <2>12. Straying(x) /\ Dialling(x)
    BY <1>1, <1>2, <1>4, <2>5, <2>6 DEF NetRecord, NetOK, Straying, Dialling, Trying
  <2> QED
    BY <2>8, <2>10, <2>11, <2>12 DEF NetIInv, NetOK
<1> QED
  BY <1>2, <1>3, <1>4

\* socket() in ks_listen.
LEMMA ListenOpenKeeps ==
    ASSUME NetIInv, ListenOpen PROVE NetIInv'
<1>1. PICK k \in NetRecord : k = net /\ NetOK(k)
  BY OneNet
<1>2. /\ k.listen = "start"
      /\ \/ net' = [k EXCEPT !.listen = "done"]
         \/ Free # {} /\ net' = [Opened("listen") EXCEPT !.server = Min(Free), !.listen = "bind"]
  BY <1>1 DEF ListenOpen
<1>3. CASE net' = [k EXCEPT !.listen = "done"]
  <2> DEFINE x == [k EXCEPT !.listen = "done"]
  <2>1. "done" \in ListenSteps
    BY <1>1, <1>2, <1>3, <1>3, SocketConstants DEF NetRecord, ListenSteps
  <2>2. x \in NetRecord
    BY <2>1 DEF NetRecord
  <2>3. Seats(x)
    BY <1>1, <1>2, <1>3, SocketConstants DEF NetRecord, Fds, NetOK, Seats, Trying, Listening,
       Finding
  <2>4. Straying(x) /\ Dialling(x)
    BY <1>1, <1>2, <1>3 DEF NetRecord, NetOK, Straying, Dialling
  <2> QED
    BY <1>3, <2>2, <2>3, <2>4 DEF NetIInv, NetOK
<1>4. CASE Free # {} /\ net' = [Opened("listen") EXCEPT !.server = Min(Free), !.listen = "bind"]
  <2>1. Free # {}
    BY <1>4
  <2>2. PICK f \in Fds :
        /\ f = Min(Free) /\ k.owner[f] = "free"
        /\ Opened("listen") = [k EXCEPT !.owner = [k.owner EXCEPT ![f] = "listen"],
                  !.block = [k.block EXCEPT ![f] = TRUE]]
    BY <1>1, <2>1, OpenedIs
  <2> DEFINE o == [k.owner EXCEPT ![f] = "listen"]
  <2>3. /\ o \in [Fds -> Owners]
        /\ Of(o, "listen") = Of(k.owner, "listen") \cup {f}
        /\ \A w \in Owners \ {"listen", "free"} : Of(o, w) = Of(k.owner, w)
    BY <2>2, OpenOf, OwnerNames DEF NetRecord
  <2> HIDE DEF o
  <2>4. /\ o \in [Fds -> Owners]
        /\ Of(o, "connect") = Of(k.owner, "connect")
        /\ Of(o, "caller") = Of(k.owner, "caller")
        /\ Of(o, "listen") = Of(k.owner, "listen") \cup {f}
        /\ Of(o, "client") = Of(k.owner, "client")
        /\ Of(o, "find") = Of(k.owner, "find")
        /\ Of(o, "mask") = Of(k.owner, "mask")
    BY <2>3, OwnerNames
  <2> DEFINE b == [k.block EXCEPT ![f] = TRUE]
  <2>5. /\ b \in [Fds -> BOOLEAN] /\ b[f] = TRUE
        /\ \A g \in Fds \ {f} : b[g] = k.block[g]
    BY DEF NetRecord
  <2>6. /\ k.connect \in Trying => k.sock \in Fds \ {f}
        /\ k.connect = "done" /\ k.sock # 0 => k.sock \in Fds \ {f}
    BY <1>1, <2>2, Seated DEF NetOK
  <2>7. Opened("listen") = [k EXCEPT !.owner = o, !.block = b]
    BY <2>2 DEF o
  <2> HIDE DEF b
  <2>8. net' = [k EXCEPT !.owner = o, !.block = b, !.server = f, !.listen = "bind"]
    BY <1>1, <1>2, <1>4, <2>2, <2>7 DEF NetRecord
  <2> DEFINE x == [k EXCEPT !.owner = o, !.block = b, !.server = f, !.listen = "bind"]
  <2>9. o \in [Fds -> Owners] /\ b \in [Fds -> BOOLEAN] /\ f \in Slots /\ "bind" \in ListenSteps
    BY <1>1, <1>2, <1>4, <2>8, <2>4, <2>5, SocketConstants DEF NetRecord, ListenSteps, Slots, Fds
  <2>10. x \in NetRecord
    BY <2>9 DEF NetRecord
  <2>11. Seats(x)
    BY <1>1, <1>2, <1>4, <2>4, SocketConstants DEF NetRecord, Fds, NetOK, Seats, Trying, Listening,
       Finding
  <2>12. Straying(x) /\ Dialling(x)
    BY <1>1, <1>2, <1>4, <2>5, <2>6 DEF NetRecord, NetOK, Straying, Dialling, Trying
  <2> QED
    BY <2>8, <2>10, <2>11, <2>12 DEF NetIInv, NetOK
<1> QED
  BY <1>2, <1>3, <1>4

\* socket() in ks_find_local_ip.
LEMMA FindOpenKeeps ==
    ASSUME NetIInv, FindOpen PROVE NetIInv'
<1>1. PICK k \in NetRecord : k = net /\ NetOK(k)
  BY OneNet
<1>2. /\ k.find = "start"
      /\ \/ net' = [k EXCEPT !.find = "failed"]
         \/ Free # {} /\ net' = [Opened("find") EXCEPT !.tmp = Min(Free), !.find = "route"]
  BY <1>1 DEF FindOpen
<1>3. CASE net' = [k EXCEPT !.find = "failed"]
  <2> DEFINE x == [k EXCEPT !.find = "failed"]
  <2>1. "failed" \in FindSteps
    BY <1>1, <1>2, <1>3, <1>3, SocketConstants DEF NetRecord, FindSteps
  <2>2. x \in NetRecord
    BY <2>1 DEF NetRecord
  <2>3. Seats(x)
    BY <1>1, <1>2, <1>3, SocketConstants DEF NetRecord, Fds, NetOK, Seats, Trying, Listening,
       Finding
  <2>4. Straying(x) /\ Dialling(x)
    BY <1>1, <1>2, <1>3 DEF NetRecord, NetOK, Straying, Dialling
  <2> QED
    BY <1>3, <2>2, <2>3, <2>4 DEF NetIInv, NetOK
<1>4. CASE Free # {} /\ net' = [Opened("find") EXCEPT !.tmp = Min(Free), !.find = "route"]
  <2>1. Free # {}
    BY <1>4
  <2>2. PICK f \in Fds :
        /\ f = Min(Free) /\ k.owner[f] = "free"
        /\ Opened("find") = [k EXCEPT !.owner = [k.owner EXCEPT ![f] = "find"],
                  !.block = [k.block EXCEPT ![f] = TRUE]]
    BY <1>1, <2>1, OpenedIs
  <2> DEFINE o == [k.owner EXCEPT ![f] = "find"]
  <2>3. /\ o \in [Fds -> Owners]
        /\ Of(o, "find") = Of(k.owner, "find") \cup {f}
        /\ \A w \in Owners \ {"find", "free"} : Of(o, w) = Of(k.owner, w)
    BY <2>2, OpenOf, OwnerNames DEF NetRecord
  <2> HIDE DEF o
  <2>4. /\ o \in [Fds -> Owners]
        /\ Of(o, "connect") = Of(k.owner, "connect")
        /\ Of(o, "caller") = Of(k.owner, "caller")
        /\ Of(o, "listen") = Of(k.owner, "listen")
        /\ Of(o, "client") = Of(k.owner, "client")
        /\ Of(o, "find") = Of(k.owner, "find") \cup {f}
        /\ Of(o, "mask") = Of(k.owner, "mask")
    BY <2>3, OwnerNames
  <2> DEFINE b == [k.block EXCEPT ![f] = TRUE]
  <2>5. /\ b \in [Fds -> BOOLEAN] /\ b[f] = TRUE
        /\ \A g \in Fds \ {f} : b[g] = k.block[g]
    BY DEF NetRecord
  <2>6. /\ k.connect \in Trying => k.sock \in Fds \ {f}
        /\ k.connect = "done" /\ k.sock # 0 => k.sock \in Fds \ {f}
    BY <1>1, <2>2, Seated DEF NetOK
  <2>7. Opened("find") = [k EXCEPT !.owner = o, !.block = b]
    BY <2>2 DEF o
  <2> HIDE DEF b
  <2>8. net' = [k EXCEPT !.owner = o, !.block = b, !.tmp = f, !.find = "route"]
    BY <1>1, <1>2, <1>4, <2>2, <2>7 DEF NetRecord
  <2> DEFINE x == [k EXCEPT !.owner = o, !.block = b, !.tmp = f, !.find = "route"]
  <2>9. o \in [Fds -> Owners] /\ b \in [Fds -> BOOLEAN] /\ f \in Slots /\ "route" \in FindSteps
    BY <1>1, <1>2, <1>4, <2>8, <2>4, <2>5, SocketConstants DEF NetRecord, FindSteps, Slots, Fds
  <2>10. x \in NetRecord
    BY <2>9 DEF NetRecord
  <2>11. Seats(x)
    BY <1>1, <1>2, <1>4, <2>4, SocketConstants DEF NetRecord, Fds, NetOK, Seats, Trying, Listening,
       Finding
  <2>12. Straying(x) /\ Dialling(x)
    BY <1>1, <1>2, <1>4, <2>5, <2>6 DEF NetRecord, NetOK, Straying, Dialling, Trying
  <2> QED
    BY <2>8, <2>10, <2>11, <2>12 DEF NetIInv, NetOK
<1> QED
  BY <1>2, <1>3, <1>4

\* fcntl before connect().
LEMMA ConnectNonblockKeeps ==
    ASSUME NetIInv, ConnectNonblock PROVE NetIInv'
<1>1. PICK k \in NetRecord : k = net /\ NetOK(k)
  BY OneNet
<1>2. k.connect = "nonblock" /\ k.sock \in Fds
  BY <1>1, Seated DEF ConnectNonblock, NetOK, Trying
<1>3. \/ ConnectFails
      \/ net' = [k EXCEPT !.block = [k.block EXCEPT ![k.sock] = FALSE], !.connect = "connecting"]
  BY <1>1 DEF ConnectNonblock
<1>4. CASE net' = [k EXCEPT !.block = [k.block EXCEPT ![k.sock] = FALSE], !.connect = "connecting"]
  <2> DEFINE b == [k.block EXCEPT ![k.sock] = FALSE]
  <2>1. b \in [Fds -> BOOLEAN] /\ b[k.sock] = FALSE
    BY <1>2 DEF NetRecord
  <2>2. net' = [k EXCEPT !.block = b, !.connect = "connecting"]
    BY <1>4
  <2> HIDE DEF b
  <2> DEFINE x == [k EXCEPT !.block = b, !.connect = "connecting"]
  <2>3. b \in [Fds -> BOOLEAN] /\ "connecting" \in ConnectSteps
    BY <1>1, <1>2, <2>2, <2>1, SocketConstants DEF NetRecord, ConnectSteps
  <2>4. x \in NetRecord
    BY <2>3 DEF NetRecord
  <2>5. Seats(x)
    BY <1>1, <1>2, SocketConstants DEF NetRecord, Fds, NetOK, Seats, Trying, Listening, Finding
  <2>6. Straying(x) /\ Dialling(x)
    BY <1>1, <1>2, <2>1 DEF NetRecord, NetOK, Straying, Dialling
  <2> QED
    BY <2>2, <2>4, <2>5, <2>6 DEF NetIInv, NetOK
<1>5. CASE ConnectFails
  BY <1>1, <1>2, <1>5, ConnectFailsKeeps DEF Trying
<1> QED
  BY <1>3, <1>4, <1>5

\* connect() comes back, is interrupted or leaves the connection pending.
LEMMA ConnectCallKeeps ==
    ASSUME NetIInv, ConnectCall PROVE NetIInv'
<1>1. PICK k \in NetRecord : k = net /\ NetOK(k)
  BY OneNet
<1>2. k.connect = "connecting" /\ k.sock \in Fds /\ k.owner[k.sock] = "connect"
  BY <1>1, Seated DEF ConnectCall, NetOK, Trying
<1>3. PICK e \in Errnos :
      /\ e = "inprogress" => ~k.block[k.sock]
      /\ e \in {"eintr", "etimedout"} => k.block[k.sock]
      /\ IF e # "none" /\ ~IsBlocking(e) THEN ConnectFails
         ELSE net' = [k EXCEPT !.connect = IF k.timed THEN "waiting" ELSE "done", !.errno = e,
                               !.owner[k.sock] = IF k.timed THEN k.owner[k.sock] ELSE "caller",
                               !.link = CASE e = "none" -> "up"
                                          [] e \in {"refused", "etimedout"} -> "failed"
                                          [] OTHER -> "pending"]
  BY <1>1, <1>2 DEF ConnectCall, Errnos
<1>4. CASE e # "none" /\ ~IsBlocking(e)
  BY <1>1, <1>2, <1>3, <1>4, ConnectFailsKeeps DEF Trying
<1>5. CASE e = "none" \/ IsBlocking(e)
  <2> DEFINE ll == CASE e = "none" -> "up"
                     [] e \in {"refused", "etimedout"} -> "failed" [] OTHER -> "pending"
  <2>1. ll \in Links /\ (e = "none" => ll = "up")
    BY DEF Links
  <2>2. PICK l \in Links : l = ll /\ (e = "none" => l = "up")
    BY <2>1
  <2>3. net' = [k EXCEPT !.connect = IF k.timed THEN "waiting" ELSE "done", !.errno = e,
                         !.owner = [k.owner EXCEPT ![k.sock] =
                                                   IF k.timed THEN k.owner[k.sock] ELSE "caller"],
                         !.link = l]
    BY <1>3, <1>5, <2>2
  <2> HIDE DEF ll
  <2>4. /\ k.timed => e \in {"none", "inprogress"}
        /\ ~k.timed => e \in {"none", "eintr", "etimedout"} /\ k.block[k.sock]
    BY <1>1, <1>2, <1>3, <1>5 DEF NetOK, Dialling, IsBlocking
  <2>5. CASE k.timed
    <3>1. [k.owner EXCEPT ![k.sock] = k.owner[k.sock]] = k.owner
      BY <1>2 DEF NetRecord
    <3>2. net' = [k EXCEPT !.connect = "waiting", !.errno = e, !.owner = k.owner, !.link = l]
      BY <2>3, <2>5, <3>1 DEF NetRecord
    <3> DEFINE x == [k EXCEPT !.connect = "waiting", !.errno = e, !.owner = k.owner, !.link = l]
    <3>3. "waiting" \in ConnectSteps /\ e \in Errnos /\ k.owner \in [Fds -> Owners] /\ l \in Links
      BY <1>1, <1>2, <2>5, <3>2, SocketConstants DEF NetRecord, ConnectSteps, Errnos, Links
    <3>4. x \in NetRecord
      BY <3>3 DEF NetRecord
    <3>5. Seats(x)
      BY <1>1, <1>2, <2>5, SocketConstants DEF NetRecord, Fds, NetOK, Seats, Trying, Listening,
         Finding
    <3>6. Straying(x) /\ Dialling(x)
      BY <1>1, <1>2, <2>5 DEF NetRecord, NetOK, Straying, Dialling
    <3> QED
      BY <3>2, <3>4, <3>5, <3>6 DEF NetIInv, NetOK
  <2>6. CASE ~k.timed
    <3> DEFINE o == [k.owner EXCEPT ![k.sock] = "caller"]
    <3>1. /\ o \in [Fds -> Owners]
          /\ Of(o, "caller") = Of(k.owner, "caller") \cup {k.sock}
          /\ Of(o, "connect") = Of(k.owner, "connect") \ {k.sock}
          /\ \A w \in Owners \ {"caller", "connect"} : Of(o, w) = Of(k.owner, w)
      BY <1>1, <1>2, HandedOver DEF NetRecord
    <3> HIDE DEF o
    <3>2. /\ o \in [Fds -> Owners]
          /\ Of(o, "connect") = Of(k.owner, "connect") \ {k.sock}
          /\ Of(o, "caller") = Of(k.owner, "caller") \cup {k.sock}
          /\ Of(o, "listen") = Of(k.owner, "listen")
          /\ Of(o, "client") = Of(k.owner, "client")
          /\ Of(o, "find") = Of(k.owner, "find")
          /\ Of(o, "mask") = Of(k.owner, "mask")
      BY <3>1, OwnerNames
    <3>3. net' = [k EXCEPT !.connect = "done", !.errno = e, !.owner = o, !.link = l]
      BY <2>3, <2>6 DEF NetRecord, o
    <3> DEFINE x == [k EXCEPT !.connect = "done", !.errno = e, !.owner = o, !.link = l]
    <3>4. "done" \in ConnectSteps /\ e \in Errnos /\ o \in [Fds -> Owners] /\ l \in Links
      BY <1>1, <1>2, <2>6, <3>3, <3>2, <2>2, <1>3, SocketConstants DEF NetRecord, ConnectSteps,
         Errnos, Links
    <3>5. x \in NetRecord
      BY <3>4 DEF NetRecord
    <3>6. Seats(x)
      BY <1>1, <1>2, <2>6, <3>2, SocketConstants DEF NetRecord, Fds, NetOK, Seats, Trying,
         Listening, Finding
    <3>7. Straying(x) /\ Dialling(x)
      BY <1>1, <1>2, <2>6, <2>4, <2>2 DEF NetRecord, NetOK, Straying, Dialling
    <3> QED
      BY <3>3, <3>5, <3>6, <3>7 DEF NetIInv, NetOK
  <2> QED
    BY <2>5, <2>6
<1> QED
  BY <1>4, <1>5

\* The network decides about a pending connection.
LEMMA NetworkDecidesKeeps ==
    ASSUME NetIInv, NetworkDecides PROVE NetIInv'
<1>1. PICK k \in NetRecord : k = net /\ NetOK(k)
  BY OneNet
<1>2. PICK l \in {"up", "failed"} : k.link = "pending" /\ net' = [k EXCEPT !.link = l]
  BY <1>1 DEF NetworkDecides
<1> DEFINE x == [k EXCEPT !.link = l]
<1>3. l \in Links
  BY <1>1, <1>2, <1>2, SocketConstants DEF NetRecord, Links
<1>4. x \in NetRecord
  BY <1>3 DEF NetRecord
<1>5. Seats(x)
  BY <1>1, <1>2, SocketConstants DEF NetRecord, Fds, NetOK, Seats, Trying, Listening, Finding
<1>6. Straying(x) /\ Dialling(x)
  BY <1>1, <1>2 DEF NetRecord, NetOK, Straying, Dialling
<1> QED
  BY <1>2, <1>4, <1>5, <1>6 DEF NetIInv, NetOK

\* poll says that the socket can be written and is not in error: then it is connected.
LEMMA ConnectWaitKeeps ==
    ASSUME NetIInv, ConnectWait PROVE NetIInv'
<1>1. PICK k \in NetRecord : k = net /\ NetOK(k)
  BY OneNet
<1>2. k.connect = "waiting"
  BY <1>1 DEF ConnectWait
<1>3. PICK flags \in WaitFlags(k.link) :
      IF "ERROR" \in flags \/ flags \cap {"READ", "WRITE"} = {} THEN ConnectFails
      ELSE net' = [k EXCEPT !.connect = "block"]
  BY <1>1 DEF ConnectWait
<1>4. CASE "ERROR" \in flags \/ flags \cap {"READ", "WRITE"} = {}
  BY <1>1, <1>2, <1>3, <1>4, ConnectFailsKeeps DEF Trying
<1>5. CASE "ERROR" \notin flags /\ flags \cap {"READ", "WRITE"} # {}
  <2>1. net' = [k EXCEPT !.connect = "block"]
    BY <1>3, <1>5
  <2>2. k.link = "up"
    <3>1. CASE k.link = "failed"
      BY <1>3, <1>5, <3>1 DEF WaitFlags
    <3>2. CASE k.link \notin {"up", "failed"}
      BY <1>3, <1>5, <3>2 DEF WaitFlags
    <3> QED
      BY <3>1, <3>2
  <2> DEFINE x == [k EXCEPT !.connect = "block"]
  <2>3. "block" \in ConnectSteps
    BY <1>1, <1>2, <2>1, SocketConstants DEF NetRecord, ConnectSteps
  <2>4. x \in NetRecord
    BY <2>3 DEF NetRecord
  <2>5. Seats(x)
    BY <1>1, <1>2, SocketConstants DEF NetRecord, Fds, NetOK, Seats, Trying, Listening, Finding
  <2>6. Straying(x) /\ Dialling(x)
    BY <1>1, <1>2, <2>2 DEF NetRecord, NetOK, Straying, Dialling
  <2> QED
    BY <2>1, <2>4, <2>5, <2>6 DEF NetIInv, NetOK
<1> QED
  BY <1>4, <1>5

\* fcntl behind connect(); the caller has the socket.
LEMMA ConnectBlockKeeps ==
    ASSUME NetIInv, ConnectBlock PROVE NetIInv'
<1>1. PICK k \in NetRecord : k = net /\ NetOK(k)
  BY OneNet
<1>2. k.connect = "block" /\ k.sock \in Fds /\ k.owner[k.sock] = "connect"
  BY <1>1, Seated DEF ConnectBlock, NetOK, Trying
<1>3. \/ ConnectFails
      \/ net' = [k EXCEPT !.block = [k.block EXCEPT ![k.sock] = TRUE], !.connect = "done",
                         !.owner = [k.owner EXCEPT ![k.sock] = "caller"]]
  BY <1>1 DEF ConnectBlock
<1>4. CASE net' = [k EXCEPT !.block = [k.block EXCEPT ![k.sock] = TRUE], !.connect = "done",
                          !.owner = [k.owner EXCEPT ![k.sock] = "caller"]]
  <2> DEFINE o == [k.owner EXCEPT ![k.sock] = "caller"]
  <2>1. /\ o \in [Fds -> Owners]
        /\ Of(o, "caller") = Of(k.owner, "caller") \cup {k.sock}
        /\ Of(o, "connect") = Of(k.owner, "connect") \ {k.sock}
        /\ \A w \in Owners \ {"caller", "connect"} : Of(o, w) = Of(k.owner, w)
    BY <1>1, <1>2, HandedOver DEF NetRecord
  <2> HIDE DEF o
  <2>2. /\ o \in [Fds -> Owners]
        /\ Of(o, "connect") = Of(k.owner, "connect") \ {k.sock}
        /\ Of(o, "caller") = Of(k.owner, "caller") \cup {k.sock}
        /\ Of(o, "listen") = Of(k.owner, "listen")
        /\ Of(o, "client") = Of(k.owner, "client")
        /\ Of(o, "find") = Of(k.owner, "find")
        /\ Of(o, "mask") = Of(k.owner, "mask")
    BY <2>1, OwnerNames
  <2> DEFINE b == [k.block EXCEPT ![k.sock] = TRUE]
  <2>3. b \in [Fds -> BOOLEAN] /\ b[k.sock] = TRUE
    BY <1>2 DEF NetRecord
  <2>4. net' = [k EXCEPT !.block = b, !.connect = "done", !.owner = o]
    BY <1>4 DEF o
  <2> HIDE DEF b
  <2> DEFINE x == [k EXCEPT !.block = b, !.connect = "done", !.owner = o]
  <2>5. b \in [Fds -> BOOLEAN] /\ "done" \in ConnectSteps /\ o \in [Fds -> Owners]
    BY <1>1, <1>2, <2>4, <2>2, <2>3, SocketConstants DEF NetRecord, ConnectSteps
  <2>6. x \in NetRecord
    BY <2>5 DEF NetRecord
  <2>7. Seats(x)
    BY <1>1, <1>2, <2>2, SocketConstants DEF NetRecord, Fds, NetOK, Seats, Trying, Listening,
       Finding
  <2>8. Straying(x) /\ Dialling(x)
    BY <1>1, <1>2, <2>3 DEF NetRecord, NetOK, Straying, Dialling
  <2> QED
    BY <2>4, <2>6, <2>7, <2>8 DEF NetIInv, NetOK
<1>5. CASE ConnectFails
  BY <1>1, <1>2, <1>5, ConnectFailsKeeps DEF Trying
<1> QED
  BY <1>3, <1>4, <1>5

\* bind() and listen().
LEMMA ListenBindKeeps ==
    ASSUME NetIInv, ListenBind PROVE NetIInv'
<1>1. PICK k \in NetRecord : k = net /\ NetOK(k)
  BY OneNet
<1>2. k.listen = "bind" /\ (ListenEnds \/ net' = [k EXCEPT !.listen = "accept"])
  BY <1>1 DEF ListenBind
<1>3. CASE ListenEnds
  BY <1>1, <1>2, <1>3, ListenEndsKeeps
<1>4. CASE net' = [k EXCEPT !.listen = "accept"]
  <2> DEFINE x == [k EXCEPT !.listen = "accept"]
  <2>1. "accept" \in ListenSteps
    BY <1>1, <1>2, <1>4, SocketConstants DEF NetRecord, ListenSteps
  <2>2. x \in NetRecord
    BY <2>1 DEF NetRecord
  <2>3. Seats(x)
    BY <1>1, <1>2, SocketConstants DEF NetRecord, Fds, NetOK, Seats, Trying, Listening, Finding
  <2>4. Straying(x) /\ Dialling(x)
    BY <1>1, <1>2 DEF NetRecord, NetOK, Straying, Dialling
  <2> QED
    BY <1>4, <2>2, <2>3, <2>4 DEF NetIInv, NetOK
<1> QED
  BY <1>2, <1>3, <1>4

\* accept().
LEMMA ListenAcceptKeeps ==
    ASSUME NetIInv, ListenAccept PROVE NetIInv'
<1>1. PICK k \in NetRecord : k = net /\ NetOK(k)
  BY OneNet
<1>2. /\ k.listen = "accept"
      /\ \/ ListenEnds
         \/ Free # {} /\ net' = [Opened("client")
                                   EXCEPT !.client = Min(Free), !.listen = "callback"]
  BY <1>1 DEF ListenAccept
<1>3. CASE ListenEnds
  BY <1>1, <1>2, <1>3, ListenEndsKeeps
<1>4. CASE Free # {} /\ net' = [Opened("client") EXCEPT !.client = Min(Free), !.listen = "callback"]
  <2>1. Free # {}
    BY <1>4
  <2>2. PICK f \in Fds :
        /\ f = Min(Free) /\ k.owner[f] = "free"
        /\ Opened("client") = [k EXCEPT !.owner = [k.owner EXCEPT ![f] = "client"],
                  !.block = [k.block EXCEPT ![f] = TRUE]]
    BY <1>1, <2>1, OpenedIs
  <2> DEFINE o == [k.owner EXCEPT ![f] = "client"]
  <2>3. /\ o \in [Fds -> Owners]
        /\ Of(o, "client") = Of(k.owner, "client") \cup {f}
        /\ \A w \in Owners \ {"client", "free"} : Of(o, w) = Of(k.owner, w)
    BY <2>2, OpenOf, OwnerNames DEF NetRecord
  <2> HIDE DEF o
  <2>4. /\ o \in [Fds -> Owners]
        /\ Of(o, "connect") = Of(k.owner, "connect")
        /\ Of(o, "caller") = Of(k.owner, "caller")
        /\ Of(o, "listen") = Of(k.owner, "listen")
        /\ Of(o, "client") = Of(k.owner, "client") \cup {f}
        /\ Of(o, "find") = Of(k.owner, "find")
        /\ Of(o, "mask") = Of(k.owner, "mask")
    BY <2>3, OwnerNames
  <2> DEFINE b == [k.block EXCEPT ![f] = TRUE]
  <2>5. /\ b \in [Fds -> BOOLEAN] /\ b[f] = TRUE
        /\ \A g \in Fds \ {f} : b[g] = k.block[g]
    BY DEF NetRecord
  <2>6. /\ k.connect \in Trying => k.sock \in Fds \ {f}
        /\ k.connect = "done" /\ k.sock # 0 => k.sock \in Fds \ {f}
    BY <1>1, <2>2, Seated DEF NetOK
  <2>7. Opened("client") = [k EXCEPT !.owner = o, !.block = b]
    BY <2>2 DEF o
  <2> HIDE DEF b
  <2>8. net' = [k EXCEPT !.owner = o, !.block = b, !.client = f, !.listen = "callback"]
    BY <1>1, <1>2, <1>4, <2>2, <2>7 DEF NetRecord
  <2> DEFINE x == [k EXCEPT !.owner = o, !.block = b, !.client = f, !.listen = "callback"]
  <2>9. o \in [Fds -> Owners] /\ b \in [Fds -> BOOLEAN] /\ f \in Slots /\ "callback" \in ListenSteps
    BY <1>1, <1>2, <1>4, <2>8, <2>4, <2>5, SocketConstants DEF NetRecord, ListenSteps, Slots, Fds
  <2>10. x \in NetRecord
    BY <2>9 DEF NetRecord
  <2>11. Seats(x)
    BY <1>1, <1>2, <1>4, <2>4, SocketConstants DEF NetRecord, Fds, NetOK, Seats, Trying, Listening,
       Finding
  <2>12. Straying(x) /\ Dialling(x)
    BY <1>1, <1>2, <1>4, <2>5, <2>6 DEF NetRecord, NetOK, Straying, Dialling, Trying
  <2> QED
    BY <2>8, <2>10, <2>11, <2>12 DEF NetIInv, NetOK
<1> QED
  BY <1>2, <1>3, <1>4

\* The callback closes the socket it was given.
LEMMA ListenCallbackKeeps ==
    ASSUME NetIInv, ListenCallback PROVE NetIInv'
<1>1. PICK k \in NetRecord : k = net /\ NetOK(k)
  BY OneNet
<1>2. k.listen = "callback"
  BY <1>1 DEF ListenCallback
<1>3. k.client \in Fds /\ k.owner[k.client] = "client"
  BY <1>1, <1>2, Seated DEF NetOK, Trying, Listening, Finding
<1>4. "client" \in Owners \ {"free"}
  BY OwnerNames
<1> DEFINE o == [k.owner EXCEPT ![k.client] = "free"]
<1>5. /\ o \in [Fds -> Owners]
      /\ Of(o, "client") = Of(k.owner, "client") \ {k.client}
      /\ \A w \in Owners \ {"free", "client"} : Of(o, w) = Of(k.owner, w)
  BY <1>3, <1>4, CloseOf
<1> HIDE DEF o
<1>6. /\ o \in [Fds -> Owners]
      /\ Of(o, "connect") = Of(k.owner, "connect")
      /\ Of(o, "caller") = Of(k.owner, "caller")
      /\ Of(o, "listen") = Of(k.owner, "listen")
      /\ Of(o, "client") = Of(k.owner, "client") \ {k.client}
      /\ Of(o, "find") = Of(k.owner, "find")
      /\ Of(o, "mask") = Of(k.owner, "mask")
  BY <1>5, OwnerNames
<1>7. CloseFd(k, k.client, "client") = [k EXCEPT !.owner = o]
  BY <1>3, <1>4, CloseOf DEF o
<1>8. net' = [k EXCEPT !.owner = o, !.client = 0, !.listen = "accept"]
  BY <1>1, <1>2, <1>7 DEF NetRecord, ListenCallback
<1> DEFINE x == [k EXCEPT !.owner = o, !.client = 0, !.listen = "accept"]
<1>9. o \in [Fds -> Owners] /\ 0 \in Slots /\ "accept" \in ListenSteps
  BY <1>1, <1>2, <1>8, <1>6, SocketConstants DEF NetRecord, ListenSteps, Slots, Fds
<1>10. x \in NetRecord
  BY <1>9 DEF NetRecord
<1>11. Seats(x)
  BY <1>1, <1>2, <1>6, SocketConstants DEF NetRecord, Fds, NetOK, Seats, Trying, Listening, Finding
<1>12. Straying(x) /\ Dialling(x)
  BY <1>1, <1>2 DEF NetRecord, NetOK, Straying, Dialling
<1> QED
  BY <1>8, <1>10, <1>11, <1>12 DEF NetIInv, NetOK

\* ks_socket_shutdown by the owner of the listener: the number is someone
\* else's only if the listener has ended.
LEMMA ListenStopKeeps ==
    ASSUME NetIInv, ListenStop PROVE NetIInv'
<1>1. PICK k \in NetRecord : k = net /\ NetOK(k)
  BY OneNet
<1>2. PICK n \in Nat, down \in BOOLEAN :
      /\ k.server # 0 /\ ~k.stopped
      /\ net' = [k EXCEPT !.stopped = TRUE, !.shut = down, !.strays = n]
      /\ down <=> k.listen \in {"accept", "callback"}
      /\ n = IF k.owner[k.server] \notin {"listen", "free"} THEN k.strays + 1 ELSE k.strays
  <2> DEFINE n == IF k.owner[k.server] \notin {"listen", "free"} THEN k.strays + 1 ELSE k.strays
  <2> DEFINE down == k.listen \in {"accept", "callback"}
  <2>1. n \in Nat /\ down \in BOOLEAN
    BY <1>1 DEF NetRecord
  <2>2. /\ k.server # 0 /\ ~k.stopped
        /\ net' = [k EXCEPT !.stopped = TRUE, !.shut = down, !.strays = n]
    BY <1>1 DEF ListenStop
  <2> HIDE DEF n
  <2> QED
    BY <2>1, <2>2 DEF n
<1>3. k.strays = 0
  BY <1>1, <1>2 DEF NetRecord, NetOK, Straying
<1>4. n > 0 => ~down
  <2>1. k.listen \in Listening => k.owner[k.server] = "listen"
    BY <1>1, Seated DEF NetOK
  <2> QED
    BY <1>2, <1>3, <2>1 DEF Listening
<1> DEFINE x == [k EXCEPT !.stopped = TRUE, !.shut = down, !.strays = n]
<1>5. TRUE \in BOOLEAN /\ down \in BOOLEAN /\ n \in Nat
  BY <1>1, <1>2, <1>2, SocketConstants DEF NetRecord
<1>6. x \in NetRecord
  BY <1>5 DEF NetRecord
<1>7. Seats(x)
  BY <1>1, <1>2, SocketConstants DEF NetRecord, Fds, NetOK, Seats, Trying, Listening, Finding
<1>8. Straying(x) /\ Dialling(x)
  BY <1>1, <1>2, <1>4 DEF NetRecord, NetOK, Straying, Dialling
<1> QED
  BY <1>2, <1>6, <1>7, <1>8 DEF NetIInv, NetOK

\* connect() and getsockname() of the datagram socket.
LEMMA FindRouteKeeps ==
    ASSUME NetIInv, FindRoute PROVE NetIInv'
<1>1. PICK k \in NetRecord : k = net /\ NetOK(k)
  BY OneNet
<1>2. /\ k.find = "route"
      /\ \/ FindEnds("failed")
         \/ FindEnds("done")
         \/ net' = [k EXCEPT !.find = "mask"]
  BY <1>1 DEF FindRoute
<1>3. CASE FindEnds("failed") \/ FindEnds("done")
  BY <1>1, <1>2, <1>3, FindEndsKeeps DEF Finding
<1>4. CASE net' = [k EXCEPT !.find = "mask"]
  <2> DEFINE x == [k EXCEPT !.find = "mask"]
  <2>1. "mask" \in FindSteps
    BY <1>1, <1>2, <1>4, SocketConstants DEF NetRecord, FindSteps
  <2>2. x \in NetRecord
    BY <2>1 DEF NetRecord
  <2>3. Seats(x)
    BY <1>1, <1>2, SocketConstants DEF NetRecord, Fds, NetOK, Seats, Trying, Listening, Finding
  <2>4. Straying(x) /\ Dialling(x)
    BY <1>1, <1>2 DEF NetRecord, NetOK, Straying, Dialling
  <2> QED
    BY <1>4, <2>2, <2>3, <2>4 DEF NetIInv, NetOK
<1> QED
  BY <1>2, <1>3, <1>4

\* get_netmask opens a socket, or has none; at the end both are closed.
LEMMA FindMaskKeeps ==
    ASSUME NetIInv, FindMask PROVE NetIInv'
<1>1. PICK k \in NetRecord : k = net /\ NetOK(k)
  BY OneNet
<1>2. /\ k.find = "mask"
      /\ \/ k.aux = 0 /\ Free # {} /\ net' = [Opened("mask") EXCEPT !.aux = Min(Free)]
         \/ FindEnds("done")
         \/ k.aux # 0 /\ net' = [CloseFd(CloseFd(k, k.aux, "mask"), k.tmp, "find")
                                   EXCEPT !.find = "done", !.aux = 0]
  BY <1>1 DEF FindMask
<1>3. CASE k.aux = 0 /\ Free # {} /\ net' = [Opened("mask") EXCEPT !.aux = Min(Free)]
  <2>1. Free # {}
    BY <1>3
  <2>2. PICK f \in Fds :
        /\ f = Min(Free) /\ k.owner[f] = "free"
        /\ Opened("mask") = [k EXCEPT !.owner = [k.owner EXCEPT ![f] = "mask"],
                  !.block = [k.block EXCEPT ![f] = TRUE]]
    BY <1>1, <2>1, OpenedIs, ZenonT(60)
  <2> DEFINE o == [k.owner EXCEPT ![f] = "mask"]
  <2>3. /\ o \in [Fds -> Owners]
        /\ Of(o, "mask") = Of(k.owner, "mask") \cup {f}
        /\ \A w \in Owners \ {"mask", "free"} : Of(o, w) = Of(k.owner, w)
    BY <2>2, OpenOf, OwnerNames DEF NetRecord
  <2> HIDE DEF o
  <2>4. /\ o \in [Fds -> Owners]
        /\ Of(o, "connect") = Of(k.owner, "connect")
        /\ Of(o, "caller") = Of(k.owner, "caller")
        /\ Of(o, "listen") = Of(k.owner, "listen")
        /\ Of(o, "client") = Of(k.owner, "client")
        /\ Of(o, "find") = Of(k.owner, "find")
        /\ Of(o, "mask") = Of(k.owner, "mask") \cup {f}
    BY <2>3, OwnerNames
  <2> DEFINE b == [k.block EXCEPT ![f] = TRUE]
  <2>5. /\ b \in [Fds -> BOOLEAN] /\ b[f] = TRUE
        /\ \A g \in Fds \ {f} : b[g] = k.block[g]
    BY DEF NetRecord
  <2>6. /\ k.connect \in Trying => k.sock \in Fds \ {f}
        /\ k.connect = "done" /\ k.sock # 0 => k.sock \in Fds \ {f}
    BY <1>1, <2>2, Seated DEF NetOK
  <2>7. Opened("mask") = [k EXCEPT !.owner = o, !.block = b]
    BY <2>2 DEF o
  <2> HIDE DEF b
  <2>8. net' = [k EXCEPT !.owner = o, !.block = b, !.aux = f]
    BY <1>1, <1>2, <1>3, <2>2, <2>7 DEF NetRecord
  <2> DEFINE x == [k EXCEPT !.owner = o, !.block = b, !.aux = f]
  <2>9. o \in [Fds -> Owners] /\ b \in [Fds -> BOOLEAN] /\ f \in Slots
    BY <1>1, <1>2, <1>3, <2>8, <2>4, <2>5, SocketConstants DEF NetRecord, Slots, Fds
  <2>10. x \in NetRecord
    BY <2>9 DEF NetRecord
  <2>11. Seats(x)
    BY <1>1, <1>2, <1>3, <2>4, SocketConstants DEF NetRecord, Fds, NetOK, Seats, Trying, Listening,
       Finding
  <2>12. Straying(x) /\ Dialling(x)
    BY <1>1, <1>2, <1>3, <2>5, <2>6 DEF NetRecord, NetOK, Straying, Dialling, Trying
  <2> QED
    BY <2>8, <2>10, <2>11, <2>12 DEF NetIInv, NetOK
<1>4. CASE FindEnds("done")
  BY <1>1, <1>2, <1>4, FindEndsKeeps DEF Finding
<1>5. CASE k.aux # 0 /\ net' = [CloseFd(CloseFd(k, k.aux, "mask"), k.tmp, "find")
                                  EXCEPT !.find = "done", !.aux = 0]
  <2>1. /\ k.aux \in Fds /\ k.owner[k.aux] = "mask"
        /\ k.tmp \in Fds /\ k.owner[k.tmp] = "find" /\ k.tmp # k.aux
    BY <1>1, <1>2, <1>5, Seated DEF NetOK, Finding
  <2> DEFINE m == [k.owner EXCEPT ![k.aux] = "free"]
  <2> DEFINE y == [k EXCEPT !.owner = m]
  <2>2. /\ CloseFd(k, k.aux, "mask") = y /\ m \in [Fds -> Owners] /\ m[k.tmp] = "find"
        /\ Of(m, "mask") = Of(k.owner, "mask") \ {k.aux}
        /\ \A w \in Owners \ {"mask", "free"} : Of(m, w) = Of(k.owner, w)
    BY <2>1, CloseOf, OwnerNames DEF NetRecord
  <2> HIDE DEF m
  <2>3. y \in NetRecord /\ y.owner = m
    BY <2>2 DEF NetRecord
  <2>4. PICK z \in NetRecord, t \in Fds : z = y /\ t = k.tmp /\ z.owner = m
    BY <2>1, <2>3
  <2> HIDE DEF y
  <2> DEFINE o == [z.owner EXCEPT ![t] = "free"]
  <2>5. z.owner[t] = "find" /\ "find" \in Owners \ {"free"}
    BY <2>2, <2>4, OwnerNames
  <2>6. /\ CloseFd(z, t, "find") = [z EXCEPT !.owner = o] /\ o \in [Fds -> Owners]
        /\ Of(o, "find") = Of(z.owner, "find") \ {t}
        /\ \A w \in Owners \ {"find", "free"} : Of(o, w) = Of(z.owner, w)
    BY <2>5, CloseOf
  <2> HIDE DEF o
  <2>7. /\ Of(o, "connect") = Of(k.owner, "connect")
        /\ Of(o, "caller") = Of(k.owner, "caller")
        /\ Of(o, "listen") = Of(k.owner, "listen")
        /\ Of(o, "client") = Of(k.owner, "client")
        /\ Of(o, "find") = Of(k.owner, "find") \ {k.tmp}
        /\ Of(o, "mask") = Of(k.owner, "mask") \ {k.aux}
    BY <2>2, <2>4, <2>6, OwnerNames
  <2>8. net' = [[z EXCEPT !.owner = o] EXCEPT !.find = "done", !.aux = 0]
    BY <1>5, <2>2, <2>4, <2>6
  <2>9. z = [k EXCEPT !.owner = m]
    BY <2>4 DEF y
  <2>10. net' = [k EXCEPT !.owner = o, !.find = "done", !.aux = 0]
    BY <2>8, <2>9 DEF NetRecord
  <2> DEFINE x == [k EXCEPT !.owner = o, !.find = "done", !.aux = 0]
  <2>11. o \in [Fds -> Owners] /\ "done" \in FindSteps /\ 0 \in Slots
    BY <1>1, <1>2, <1>5, <2>10, <2>6, SocketConstants DEF NetRecord, FindSteps, Slots, Fds
  <2>12. x \in NetRecord
    BY <2>11 DEF NetRecord
  <2>13. Seats(x)
    BY <1>1, <1>2, <1>5, <2>7, SocketConstants DEF NetRecord, Fds, NetOK, Seats, Trying, Listening,
       Finding
  <2>14. Straying(x) /\ Dialling(x)
    BY <1>1, <1>2, <1>5 DEF NetRecord, NetOK, Straying, Dialling
  <2> QED
    BY <2>10, <2>12, <2>13, <2>14 DEF NetIInv, NetOK
<1> QED
  BY <1>2, <1>3, <1>4, <1>5

\* The rest of the program opens a descriptor.
LEMMA OthersOpenKeeps ==
    ASSUME NetIInv, OthersOpen PROVE NetIInv'
<1>1. PICK k \in NetRecord : k = net /\ NetOK(k)
  BY OneNet
<1>2. Free # {} /\ net' = Opened("other")
  BY <1>1 DEF OthersOpen
<1>3. Free # {}
  BY <1>2
<1>4. PICK f \in Fds :
      /\ f = Min(Free) /\ k.owner[f] = "free"
      /\ Opened("other") = [k EXCEPT !.owner = [k.owner EXCEPT ![f] = "other"],
                !.block = [k.block EXCEPT ![f] = TRUE]]
  BY <1>1, <1>3, OpenedIs
<1> DEFINE o == [k.owner EXCEPT ![f] = "other"]
<1>5. /\ o \in [Fds -> Owners]
      /\ \A w \in Owners \ {"other", "free"} : Of(o, w) = Of(k.owner, w)
  BY <1>4, OpenOf, OwnerNames DEF NetRecord
<1> HIDE DEF o
<1>6. /\ o \in [Fds -> Owners]
      /\ Of(o, "connect") = Of(k.owner, "connect")
      /\ Of(o, "caller") = Of(k.owner, "caller")
      /\ Of(o, "listen") = Of(k.owner, "listen")
      /\ Of(o, "client") = Of(k.owner, "client")
      /\ Of(o, "find") = Of(k.owner, "find")
      /\ Of(o, "mask") = Of(k.owner, "mask")
  BY <1>5, OwnerNames
<1> DEFINE b == [k.block EXCEPT ![f] = TRUE]
<1>7. /\ b \in [Fds -> BOOLEAN] /\ b[f] = TRUE
      /\ \A g \in Fds \ {f} : b[g] = k.block[g]
  BY DEF NetRecord
<1>8. /\ k.connect \in Trying => k.sock \in Fds \ {f}
      /\ k.connect = "done" /\ k.sock # 0 => k.sock \in Fds \ {f}
  BY <1>1, <1>4, Seated DEF NetOK
<1>9. Opened("other") = [k EXCEPT !.owner = o, !.block = b]
  BY <1>4 DEF o
<1> HIDE DEF b
<1>10. net' = [k EXCEPT !.owner = o, !.block = b]
  BY <1>1, <1>2, <1>4, <1>9 DEF NetRecord
<1> DEFINE x == [k EXCEPT !.owner = o, !.block = b]
<1>11. o \in [Fds -> Owners] /\ b \in [Fds -> BOOLEAN]
  BY <1>1, <1>2, <1>10, <1>6, <1>7, SocketConstants DEF NetRecord
<1>12. x \in NetRecord
  BY <1>11 DEF NetRecord
<1>13. Seats(x)
  BY <1>1, <1>2, <1>6, SocketConstants DEF NetRecord, Fds, NetOK, Seats, Trying, Listening, Finding
<1>14. Straying(x) /\ Dialling(x)
  BY <1>1, <1>2, <1>7, <1>8 DEF NetRecord, NetOK, Straying, Dialling, Trying
<1> QED
  BY <1>10, <1>12, <1>13, <1>14 DEF NetIInv, NetOK

\* The rest of the program closes one of its own.
LEMMA OthersCloseKeeps ==
    ASSUME NetIInv, OthersClose PROVE NetIInv'
<1>1. PICK k \in NetRecord : k = net /\ NetOK(k)
  BY OneNet
<1>2. PICK f \in Fds : k.owner[f] = "other" /\ net' = CloseFd(k, f, "other")
  BY <1>1 DEF OthersClose, Fds
<1>3. f \in Fds /\ k.owner[f] = "other"
  BY <1>1, <1>2, Seated DEF NetOK, Trying, Listening, Finding
<1>4. "other" \in Owners \ {"free"}
  BY OwnerNames
<1> DEFINE o == [k.owner EXCEPT ![f] = "free"]
<1>5. /\ o \in [Fds -> Owners]
      /\ \A w \in Owners \ {"free", "other"} : Of(o, w) = Of(k.owner, w)
  BY <1>3, <1>4, CloseOf
<1> HIDE DEF o
<1>6. /\ o \in [Fds -> Owners]
      /\ Of(o, "connect") = Of(k.owner, "connect")
      /\ Of(o, "caller") = Of(k.owner, "caller")
      /\ Of(o, "listen") = Of(k.owner, "listen")
      /\ Of(o, "client") = Of(k.owner, "client")
      /\ Of(o, "find") = Of(k.owner, "find")
      /\ Of(o, "mask") = Of(k.owner, "mask")
  BY <1>5, OwnerNames
<1>7. CloseFd(k, f, "other") = [k EXCEPT !.owner = o]
  BY <1>3, <1>4, CloseOf DEF o
<1>8. net' = [k EXCEPT !.owner = o]
  BY <1>1, <1>2, <1>7 DEF NetRecord
<1> DEFINE x == [k EXCEPT !.owner = o]
<1>9. o \in [Fds -> Owners]
  BY <1>1, <1>2, <1>8, <1>6, SocketConstants DEF NetRecord
<1>10. x \in NetRecord
  BY <1>9 DEF NetRecord
<1>11. Seats(x)
  BY <1>1, <1>2, <1>6, SocketConstants DEF NetRecord, Fds, NetOK, Seats, Trying, Listening, Finding
<1>12. Straying(x) /\ Dialling(x)
  BY <1>1, <1>2 DEF NetRecord, NetOK, Straying, Dialling
<1> QED
  BY <1>8, <1>10, <1>11, <1>12 DEF NetIInv, NetOK

\* The caller closes its connection.
LEMMA CallerCloseKeeps ==
    ASSUME NetIInv, CallerClose PROVE NetIInv'
<1>1. PICK k \in NetRecord : k = net /\ NetOK(k)
  BY OneNet
<1>2. k.connect = "done" /\ k.sock # 0 /\ net' = [CloseFd(k, k.sock, "caller") EXCEPT !.sock = 0]
  BY <1>1 DEF CallerClose
<1>3. k.sock \in Fds /\ k.owner[k.sock] = "caller"
  BY <1>1, <1>2, Seated DEF NetOK, Trying, Listening, Finding
<1>4. "caller" \in Owners \ {"free"}
  BY OwnerNames
<1> DEFINE o == [k.owner EXCEPT ![k.sock] = "free"]
<1>5. /\ o \in [Fds -> Owners]
      /\ Of(o, "caller") = Of(k.owner, "caller") \ {k.sock}
      /\ \A w \in Owners \ {"free", "caller"} : Of(o, w) = Of(k.owner, w)
  BY <1>3, <1>4, CloseOf
<1> HIDE DEF o
<1>6. /\ o \in [Fds -> Owners]
      /\ Of(o, "connect") = Of(k.owner, "connect")
      /\ Of(o, "caller") = Of(k.owner, "caller") \ {k.sock}
      /\ Of(o, "listen") = Of(k.owner, "listen")
      /\ Of(o, "client") = Of(k.owner, "client")
      /\ Of(o, "find") = Of(k.owner, "find")
      /\ Of(o, "mask") = Of(k.owner, "mask")
  BY <1>5, OwnerNames
<1>7. CloseFd(k, k.sock, "caller") = [k EXCEPT !.owner = o]
  BY <1>3, <1>4, CloseOf DEF o
<1>8. net' = [k EXCEPT !.owner = o, !.sock = 0]
  BY <1>1, <1>2, <1>7 DEF NetRecord
<1> DEFINE x == [k EXCEPT !.owner = o, !.sock = 0]
<1>9. o \in [Fds -> Owners] /\ 0 \in Slots
  BY <1>1, <1>2, <1>8, <1>6, SocketConstants DEF NetRecord, Slots, Fds
<1>10. x \in NetRecord
  BY <1>9 DEF NetRecord
<1>11. Seats(x)
  BY <1>1, <1>2, <1>6, SocketConstants DEF NetRecord, Fds, NetOK, Seats, Trying, Listening, Finding
<1>12. Straying(x) /\ Dialling(x)
  BY <1>1, <1>2 DEF NetRecord, NetOK, Straying, Dialling
<1> QED
  BY <1>8, <1>10, <1>11, <1>12 DEF NetIInv, NetOK

\* A transfer changes no descriptor.
LEMMA TransferKeeps ==
    ASSUME NetIInv, Transfer PROVE NetIInv'
<1>1. PICK k \in NetRecord : k = net /\ NetOK(k)
  BY OneNet
<1>2. PICK d \in Nat, result \in Results : net' = [k EXCEPT !.status = result, !.datalen = d]
  <2>1. PICK r \in -1..k.datalen, errno \in {"eagain", "etimedout", "reset"} :
        net' = [k EXCEPT !.status = TransferStatus(r, errno),
                         !.datalen = IF r > 0 THEN r ELSE k.datalen]
    BY <1>1 DEF Transfer
  <2>2. TransferStatus(r, errno) \in Results
    BY DEF TransferStatus, Results
  <2>3. (IF r > 0 THEN r ELSE k.datalen) \in Nat
    BY <2>1 DEF NetRecord
  <2> QED
    BY <2>1, <2>2, <2>3
<1> DEFINE x == [k EXCEPT !.status = result, !.datalen = d]
<1>3. result \in Results /\ d \in Nat
  BY <1>1, <1>2, SocketConstants DEF NetRecord, Results
<1>4. x \in NetRecord
  BY <1>3 DEF NetRecord
<1>5. Seats(x)
  BY <1>1, SocketConstants DEF NetRecord, Fds, NetOK, Seats, Trying, Listening, Finding
<1>6. Straying(x) /\ Dialling(x)
  BY <1>1 DEF NetRecord, NetOK, Straying, Dialling
<1> QED
  BY <1>2, <1>4, <1>5, <1>6 DEF NetIInv, NetOK

-----------------------------------------------------------------------------
(* The theorems                                                            *)

\* Nothing is open at the start.
LEMMA NetInitIInv == SocketInit => NetIInv
<1> SUFFICES ASSUME SocketInit PROVE NetIInv
  OBVIOUS
<1>1. PICK timed, masked \in BOOLEAN : net = NewNet(timed, masked)
  BY DEF SocketInit
<1> DEFINE o == [fd \in Fds |-> "free"]
           b == [fd \in Fds |-> TRUE]
<1>2. net = [owner |-> o, block |-> b, timed |-> timed, masked |-> masked,
             connect |-> "start", sock |-> 0, link |-> "none", errno |-> "none",
             listen |-> "start", server |-> 0, client |-> 0, shut |-> FALSE, stopped |-> FALSE,
             find |-> "start", tmp |-> 0, aux |-> 0, strays |-> 0,
             datalen |-> 2, status |-> "none"]
  BY <1>1, Zenon DEF NewNet, Fds
<1>3. /\ o \in [Fds -> Owners] /\ b \in [Fds -> BOOLEAN]
      /\ \A w \in Owners \ {"free"} : Of(o, w) = {}
  BY DEF Owners, Of
<1> HIDE DEF o, b
<1>4. /\ "start" \in ConnectSteps /\ 0 \in Slots /\ "none" \in Links /\ "none" \in Errnos
      /\ "start" \in ListenSteps /\ "start" \in FindSteps /\ "none" \in Results
  BY SocketConstants DEF ConnectSteps, Slots, Links, Errnos, ListenSteps, FindSteps, Results
<1>5. net \in NetRecord
  BY <1>2, <1>3, <1>4 DEF NetRecord
<1>6. /\ net.owner = o /\ net.connect = "start" /\ net.listen = "start" /\ net.find = "start"
      /\ net.aux = 0 /\ net.strays = 0
  BY <1>2
<1>7. Seats(net)
  <2>1. /\ Of(o, "connect") = {} /\ Of(o, "caller") = {} /\ Of(o, "listen") = {}
        /\ Of(o, "client") = {} /\ Of(o, "find") = {} /\ Of(o, "mask") = {}
    BY <1>3, OwnerNames
  <2> QED
    BY <1>6, <2>1 DEF Seats, Trying, Listening, Finding
<1>8. Straying(net) /\ Dialling(net)
  BY <1>6 DEF Straying, Dialling
<1> QED
  BY <1>5, <1>7, <1>8 DEF NetIInv, NetOK

\* Every step keeps the invariant.
LEMMA NetNextIInv == NetIInv /\ [SocketNext]_net => NetIInv'
<1>1. ASSUME NetIInv, UNCHANGED net PROVE NetIInv'
  BY <1>1 DEF NetIInv
<1> QED
  BY <1>1, ConnectOpenKeeps, ConnectNonblockKeeps, ConnectCallKeeps, NetworkDecidesKeeps,
     ConnectWaitKeeps, ConnectBlockKeeps, ListenOpenKeeps, ListenBindKeeps, ListenAcceptKeeps,
     ListenCallbackKeeps, ListenStopKeeps, FindOpenKeeps, FindRouteKeeps, FindMaskKeeps,
     OthersOpenKeeps, OthersCloseKeeps, CallerCloseKeeps, TransferKeeps
  DEF SocketNext

\* The invariant holds throughout.
LEMMA NetInvariant == SocketSpec => []NetIInv
BY NetInitIInv, NetNextIInv, PTL DEF SocketSpec

\* Every field of the descriptor table and of the calls holds a value of its type.
THEOREM SocketTyped == SocketSpec => []SocketTypeOK
<1>1. NetIInv => SocketTypeOK
  BY DEF NetIInv, NetRecord, SocketTypeOK, Fds, Slots, Links
<1> QED
  BY <1>1, NetInvariant, PTL

\* However ks_socket_connect_ex, ks_listen_sock, ks_find_local_ip and the rest
\* of the program open and close descriptors side by side, and whichever call
\* fails, no descriptor is lost or closed twice, nobody but the owner of a
\* listener that has ended touches a number that has become someone else's,
\* and a socket that ks_socket_connect_ex returns is blocking and connected
\* unless connect() was interrupted or timed out without a timeout of its own.
THEOREM SocketsAlwaysSound == SocketSpec => []SocketsSound
<1>1. NetIInv => FdsAccounted
  <2> SUFFICES ASSUME NetIInv PROVE FdsAccounted
    OBVIOUS
  <2>1. ASSUME NEW who PROVE Of(net.owner, who) = {fd \in 1..MaxFd : net.owner[fd] = who}
    BY DEF Of, Fds
  <2>2. Seats(net) /\ Straying(net)
    BY DEF NetIInv, NetOK
  <2> QED
    BY <2>1, <2>2 DEF FdsAccounted, Seats, Straying, Trying, Listening, Finding
<1>2. NetIInv => ConnectedOrInvalid
  BY DEF NetIInv, NetOK, Dialling, ConnectedOrInvalid
<1> QED
  BY <1>1, <1>2, NetInvariant, PTL DEF SocketsSound

-----------------------------------------------------------------------------
(* TLS: the inductive invariant                                            *)

Retries == 0..(InitRetries + IoRetries + ShutdownRetries)

Session ==
    [pc : TlsSteps, type : {"none", "client", "server"}, fd : {"none", "open", "closed"},
     closes : {0, 1}, ssl : {"none", "live", "freed"}, io_error : BOOLEAN, established : BOOLEAN,
     sent : BOOLEAN, received : BOOLEAN, down : {0, 1, 2}, retry : Retries,
     timed : BOOLEAN, fatal : BOOLEAN, rude : BOOLEAN]

TlsShape ==
    tls \in [s : [TlsSessions -> Session], refs : [TlsSessions \cup {"shared"} -> Nat],
             shared : {"none", "live", "gone"}, stale : BOOLEAN]

\* The socket is open from connect or accept to close_end, the SSL object from
\* SSL_new to ks_tls_destroy, which runs once before close_end and once after.
Lived(s) ==
    /\ s.pc = "start" => s.type = "none" /\ s.fd = "none" /\ s.closes = 0 /\ s.ssl = "none"
    /\ s.pc \notin {"start", "gone"} => s.type # "none"
    /\ s.pc \in {"start", "init", "establish", "user", "io", "close"} => s.down = 0
    /\ s.pc \in {"shutdown", "drain", "close_end"} => s.down = 1
    /\ s.pc \in {"init", "establish", "user", "io", "close", "shutdown", "drain", "close_end"}
       => s.fd = "open" /\ s.closes = 0
    /\ s.pc = "destroy" => \/ s.down = 0 /\ s.fd = "open" /\ s.closes = 0
                           \/ s.down = 1 /\ s.fd = "closed" /\ s.closes = 1
    /\ s.pc = "gone" => s.ssl # "live" /\ s.fd # "open"
    /\ s.pc = "init" => s.ssl = "none"
    /\ s.ssl = "freed" => s.pc = "gone"

\* A fatal error is in ssl_io_error by the time ks_tls_close looks, or came
\* when no SSL_shutdown was to follow.
Polite(s) ==
    /\ ~s.rude
    /\ s.fatal => \/ s.io_error /\ s.pc \notin {"start", "init", "establish", "shutdown", "drain"}
                  \/ s.pc \in {"close_end", "gone"}
                  \/ s.pc = "destroy" /\ s.down = 1

\* A client's context: one reference of its own, one of its SSL object.
Owned(s, r) ==
    /\ s.type # "client" => r = 0
    /\ s.pc \in {"init", "gone"} => r = 0
    /\ s.pc = "establish" /\ s.type = "client" => r > 0
    /\ s.type = "client" /\ s.ssl = "live" => r = 2
    /\ s.ssl = "none" => r \in {0, 1}

\* The shared context was made before any server session, and is not destroyed
\* under a ks_tls_accept.
Sheltered(s, shared) ==
    s.type = "server" => shared # "none" /\ (s.pc \in {"init", "establish"} => shared = "live")

Uses(s) == s.type = "server" /\ s.ssl = "live"

Using == {i \in TlsSessions : Uses(tls.s[i])}

SharedCount == tls.refs["shared"] = Cardinality(Using) + (IF tls.shared = "live" THEN 1 ELSE 0)

TlsIInv ==
    /\ TlsShape
    /\ \A i \in TlsSessions : /\ Lived(tls.s[i]) /\ Polite(tls.s[i])
                              /\ Owned(tls.s[i], tls.refs[i]) /\ Sheltered(tls.s[i], tls.shared)
    /\ SharedCount /\ ~tls.stale

\* The retries stay in their range.
LEMMA RetryRange ==
    /\ 0 \in Retries
    /\ \A r \in Retries : r + 1 <= InitRetries \/ r + 1 <= IoRetries \/ r + 1 <= ShutdownRetries
                         => r + 1 \in Retries
BY TlsConstants DEF Retries

\* What a step needs to know of the session it moves.
LEMMA OneSession ==
    ASSUME TlsIInv, NEW i \in TlsSessions
    PROVE  \E s \in Session : /\ s = tls.s[i] /\ Lived(s) /\ Polite(s)
                              /\ Owned(s, tls.refs[i]) /\ Sheltered(s, tls.shared)
BY DEF TlsIInv, TlsShape

\* A step that moves one session and touches no context.
LEMMA Quiet ==
    ASSUME TlsIInv, NEW i \in TlsSessions, NEW x \in Session, Step(i, x),
           Lived(x), Polite(x), Owned(x, tls.refs[i]), Sheltered(x, tls.shared),
           Uses(x) <=> Uses(tls.s[i])
    PROVE  TlsIInv'
<1>1. /\ tls'.s = [tls.s EXCEPT ![i] = x] /\ tls'.refs = tls.refs
      /\ tls'.shared = tls.shared /\ tls'.stale = tls.stale
  BY DEF TlsIInv, TlsShape, Step
<1>2. TlsShape'
  BY <1>1 DEF TlsIInv, TlsShape, Step
<1>3. tls'.s[i] = x /\ \A j \in TlsSessions \ {i} : tls'.s[j] = tls.s[j]
  BY <1>1 DEF TlsIInv, TlsShape
<1>4. SharedCount'
  <2>1. Using' = Using
    BY <1>3 DEF Using
  <2> QED
    BY <1>1, <2>1 DEF TlsIInv, SharedCount
<1>5. ASSUME NEW j \in TlsSessions
      PROVE  /\ Lived(tls'.s[j]) /\ Polite(tls'.s[j])
             /\ Owned(tls'.s[j], tls'.refs[j]) /\ Sheltered(tls'.s[j], tls'.shared)
  BY <1>1, <1>3 DEF TlsIInv, Sheltered
<1> QED
  BY <1>1, <1>2, <1>4, <1>5 DEF TlsIInv

\* A step that moves one session and gives its context r references.
LEMMA Counting ==
    ASSUME TlsIInv, NEW i \in TlsSessions, NEW x \in Session, NEW r \in Nat,
           NEW c \in TlsSessions \cup {"shared"},
           tls' = [tls EXCEPT !.s = [tls.s EXCEPT ![i] = x], !.refs = [tls.refs EXCEPT ![c] = r]],
           Lived(x), Polite(x), Sheltered(x, tls.shared),
           c = CtxOf(i), x.type = tls.s[i].type, x.type # "none",
           x.type = "client" => Owned(x, r),
           x.type = "server" => /\ Uses(x) /\ ~Uses(tls.s[i]) => r = tls.refs[c] + 1
                                /\ Uses(tls.s[i]) /\ ~Uses(x) => r = tls.refs[c] - 1
                                /\ (Uses(x) <=> Uses(tls.s[i])) => r = tls.refs[c]
                                /\ Owned(x, 0)
    PROVE  TlsIInv'
<1>1. /\ tls'.s = [tls.s EXCEPT ![i] = x] /\ tls'.refs = [tls.refs EXCEPT ![c] = r]
      /\ tls'.shared = tls.shared /\ tls'.stale = tls.stale
  BY DEF TlsIInv, TlsShape
<1>2. TlsShape'
  BY <1>1 DEF TlsIInv, TlsShape
<1>3. tls'.s[i] = x /\ \A j \in TlsSessions \ {i} : tls'.s[j] = tls.s[j]
  BY <1>1 DEF TlsIInv, TlsShape
<1>4. tls'.refs[c] = r /\ \A d \in (TlsSessions \cup {"shared"}) \ {c} : tls'.refs[d] = tls.refs[d]
  BY <1>1 DEF TlsIInv, TlsShape
<1>5. /\ x.type \in {"client", "server"}
      /\ (x.type = "client" <=> c = i) /\ (x.type = "server" <=> c = "shared")
  BY TlsConstants DEF CtxOf, Session
<1>6. SharedCount'
  <2>1. IsFiniteSet(Using)
    BY TlsConstants, FS_Subset DEF Using
  <2>2. i \in Using <=> Uses(tls.s[i])
    BY DEF Using
  <2>3. CASE Uses(x) <=> Uses(tls.s[i])
    <3>1. Using' = Using
      BY <1>3, <2>3 DEF Using
    <3>2. tls'.refs["shared"] = tls.refs["shared"]
      BY <1>4, <1>5, <2>3, TlsConstants
    <3> QED
      BY <1>1, <3>1, <3>2 DEF TlsIInv, SharedCount
  <2>4. CASE Uses(x) /\ ~Uses(tls.s[i])
    <3>1. Using' = Using \cup {i}
      BY <1>3, <2>4 DEF Using
    <3>2. Cardinality(Using') = Cardinality(Using) + 1
      BY <2>1, <2>2, <2>4, <3>1, FS_AddElement
    <3>3. tls'.refs["shared"] = tls.refs["shared"] + 1
      BY <1>4, <1>5, <2>4 DEF Uses
    <3> QED
      BY <1>1, <2>1, <3>2, <3>3, FS_CardinalityType DEF TlsIInv, SharedCount
  <2>5. CASE ~Uses(x) /\ Uses(tls.s[i])
    <3>1. Using' = Using \ {i}
      BY <1>3, <2>5 DEF Using
    <3>2. Cardinality(Using') = Cardinality(Using) - 1
      BY <2>1, <2>2, <2>5, <3>1, FS_RemoveElement
    <3>3. tls'.refs["shared"] = tls.refs["shared"] - 1
      BY <1>4, <1>5, <2>5 DEF Uses
    <3> QED
      BY <1>1, <2>1, <3>2, <3>3, FS_CardinalityType DEF TlsIInv, SharedCount
  <2> QED
    BY <2>3, <2>4, <2>5
<1>7. ASSUME NEW j \in TlsSessions
      PROVE  /\ Lived(tls'.s[j]) /\ Polite(tls'.s[j])
             /\ Owned(tls'.s[j], tls'.refs[j]) /\ Sheltered(tls'.s[j], tls'.shared)
  <2>1. CASE j # i
    BY <1>1, <1>3, <1>4, <1>5, <2>1, TlsConstants DEF TlsIInv, Sheltered
  <2>2. CASE j = i
    <3>1. Owned(x, tls'.refs[i])
      <4>1. CASE x.type = "client"
        BY <1>4, <1>5, <4>1
      <4>2. CASE x.type = "server"
        <5>1. tls'.refs[i] = tls.refs[i] /\ tls.refs[i] = 0
          BY <1>4, <1>5, <4>2, TlsConstants DEF TlsIInv, Owned
        <5> QED
          BY <4>2, <5>1
      <4> QED
        BY <1>5, <4>1, <4>2
    <3> QED
      BY <1>1, <1>3, <2>2, <3>1 DEF Sheltered
  <2> QED
    BY <2>1, <2>2
<1> QED
  BY <1>1, <1>2, <1>6, <1>7 DEF TlsIInv

\* The connection fails, or the socket is open.
LEMMA TlsConnectKeeps ==
    ASSUME TlsIInv, NEW i \in TlsSessions, TlsConnect(i) PROVE TlsIInv'
<1>1. PICK s \in Session : /\ s = tls.s[i] /\ Lived(s) /\ Polite(s)
                           /\ Owned(s, tls.refs[i]) /\ Sheltered(s, tls.shared)
  BY OneSession
<1>2. /\ s.pc = "start"
      /\ \/ Step(i, [s EXCEPT !.pc = "gone"])
         \/ Step(i, [s EXCEPT !.pc = "init", !.type = "client", !.fd = "open"])
  BY <1>1, TlsConstants DEF TlsConnect, Session, Retries
<1>3. CASE Step(i, [s EXCEPT !.pc = "gone"])
  <2> DEFINE x == [s EXCEPT !.pc = "gone"]
  <2>1. x \in Session
    BY <1>1, <1>2, <1>3, RetryRange DEF Session, TlsSteps, Lived
  <2>2. Lived(x) /\ Owned(x, tls.refs[i]) /\ Sheltered(x, tls.shared) /\ (Uses(x) <=> Uses(s))
    BY <1>1, <1>2, <1>3 DEF Session, Lived, Owned, Sheltered, Uses
  <2>3. Polite(x)
    BY <1>1, <1>2, <1>3 DEF Session, Polite, Lived
  <2> QED
    BY <1>1, <1>3, <2>1, <2>2, <2>3, Quiet
<1>4. CASE Step(i, [s EXCEPT !.pc = "init", !.type = "client", !.fd = "open"])
  <2> DEFINE x == [s EXCEPT !.pc = "init", !.type = "client", !.fd = "open"]
  <2>1. x \in Session
    BY <1>1, <1>2, <1>4, RetryRange DEF Session, TlsSteps, Lived
  <2>2. Lived(x) /\ Owned(x, tls.refs[i]) /\ Sheltered(x, tls.shared) /\ (Uses(x) <=> Uses(s))
    BY <1>1, <1>2, <1>4 DEF Session, Lived, Owned, Sheltered, Uses
  <2>3. Polite(x)
    BY <1>1, <1>2, <1>4 DEF Session, Polite, Lived
  <2> QED
    BY <1>1, <1>4, <2>1, <2>2, <2>3, Quiet
<1> QED
  BY <1>2, <1>3, <1>4

\* Accepted under a live shared context, or refused.
LEMMA TlsAcceptKeeps ==
    ASSUME TlsIInv, NEW i \in TlsSessions, TlsAccept(i) PROVE TlsIInv'
<1>1. PICK s \in Session : /\ s = tls.s[i] /\ Lived(s) /\ Polite(s)
                           /\ Owned(s, tls.refs[i]) /\ Sheltered(s, tls.shared)
  BY OneSession
<1>2. /\ s.pc = "start"
      /\ \/ tls.shared = "live" /\ Step(i, [s EXCEPT !.pc = "init", !.type = "server", !.fd = "open"])
         \/ Step(i, [s EXCEPT !.pc = "gone"])
  BY <1>1, TlsConstants DEF TlsAccept, Session, Retries
<1>3. CASE tls.shared = "live" /\ Step(i, [s EXCEPT !.pc = "init", !.type = "server", !.fd = "open"])
  <2> DEFINE x == [s EXCEPT !.pc = "init", !.type = "server", !.fd = "open"]
  <2>1. x \in Session
    BY <1>1, <1>2, <1>3, RetryRange DEF Session, TlsSteps, Lived
  <2>2. Lived(x) /\ Owned(x, tls.refs[i]) /\ Sheltered(x, tls.shared) /\ (Uses(x) <=> Uses(s))
    BY <1>1, <1>2, <1>3 DEF Session, Lived, Owned, Sheltered, Uses
  <2>3. Polite(x)
    BY <1>1, <1>2, <1>3 DEF Session, Polite, Lived
  <2> QED
    BY <1>1, <1>3, <2>1, <2>2, <2>3, Quiet
<1>4. CASE Step(i, [s EXCEPT !.pc = "gone"])
  <2> DEFINE x == [s EXCEPT !.pc = "gone"]
  <2>1. x \in Session
    BY <1>1, <1>2, <1>4, RetryRange DEF Session, TlsSteps, Lived
  <2>2. Lived(x) /\ Owned(x, tls.refs[i]) /\ Sheltered(x, tls.shared) /\ (Uses(x) <=> Uses(s))
    BY <1>1, <1>2, <1>4 DEF Session, Lived, Owned, Sheltered, Uses
  <2>3. Polite(x)
    BY <1>1, <1>2, <1>4 DEF Session, Polite, Lived
  <2> QED
    BY <1>1, <1>4, <2>1, <2>2, <2>3, Quiet
<1> QED
  BY <1>2, <1>3, <1>4

\* The user reads or writes, unless an error was fatal.
LEMMA CallIoKeeps ==
    ASSUME TlsIInv, NEW i \in TlsSessions, CallIo(i) PROVE TlsIInv'
<1>1. PICK s \in Session : /\ s = tls.s[i] /\ Lived(s) /\ Polite(s)
                           /\ Owned(s, tls.refs[i]) /\ Sheltered(s, tls.shared)
  BY OneSession
<1>2. /\ s.pc = "user" /\ ~s.fatal
      /\ \/ \E b \in BOOLEAN : Step(i, [s EXCEPT !.pc = "io", !.retry = 0, !.timed = b])
  BY <1>1, TlsConstants DEF CallIo, Session, Retries
<1>3. CASE \E b \in BOOLEAN : Step(i, [s EXCEPT !.pc = "io", !.retry = 0, !.timed = b])
  <2>1. PICK b \in BOOLEAN : Step(i, [s EXCEPT !.pc = "io", !.retry = 0, !.timed = b])
    BY <1>3
  <2> DEFINE x == [s EXCEPT !.pc = "io", !.retry = 0, !.timed = b]
  <2>2. x \in Session
    BY <1>1, <1>2, <2>1, RetryRange, ZenonT(60) DEF Session, TlsSteps, Lived
  <2>3. Lived(x) /\ Owned(x, tls.refs[i]) /\ Sheltered(x, tls.shared) /\ (Uses(x) <=> Uses(s))
    BY <1>1, <1>2, <2>1 DEF Session, Lived, Owned, Sheltered, Uses
  <2>4. Polite(x)
    BY <1>1, <1>2, <2>1 DEF Session, Polite, Lived
  <2> QED
    BY <1>1, <2>1, <2>2, <2>3, <2>4, Quiet
<1> QED
  BY <1>2, <1>3

\* A read or a write returns, fails, or is tried again.
LEMMA IoKeeps ==
    ASSUME TlsIInv, NEW i \in TlsSessions, Io(i) PROVE TlsIInv'
<1>1. PICK s \in Session : /\ s = tls.s[i] /\ Lived(s) /\ Polite(s)
                           /\ Owned(s, tls.refs[i]) /\ Sheltered(s, tls.shared)
  BY OneSession
<1>2. /\ s.pc = "io"
      /\ \/ Step(i, Returned(s))
         \/ Step(i, Returned([s EXCEPT !.received = TRUE]))
         \/ \E b \in BOOLEAN : Step(i, IoFails([s EXCEPT !.sent = s.sent \/ b]))
         \/ s.timed /\ s.retry + 1 <= IoRetries /\ Step(i, [s EXCEPT !.retry = s.retry + 1])
         \/ Step(i, [s EXCEPT !.retry = s.retry])
  <2>1. s.retry \in Int
    BY <1>1, TlsConstants DEF Session, Retries
  <2>2. /\ s.pc = "io"
        /\ \/ Step(i, Returned(s)) \/ Step(i, Returned([s EXCEPT !.received = TRUE]))
           \/ \E b \in BOOLEAN : Step(i, IoFails([s EXCEPT !.sent = s.sent \/ b]))
           \/ Step(i, IF s.timed /\ s.retry + 1 > IoRetries
                      THEN Returned(s)
                      ELSE [s EXCEPT !.retry = IF s.timed THEN s.retry + 1 ELSE s.retry])
    BY <1>1 DEF Io
  <2>3. CASE Step(i, IF s.timed /\ s.retry + 1 > IoRetries
                     THEN Returned(s)
                     ELSE [s EXCEPT !.retry = IF s.timed THEN s.retry + 1 ELSE s.retry])
    BY <2>1, <2>2, <2>3, TlsConstants
  <2> QED
    BY <2>2, <2>3
<1>3. CASE Step(i, Returned(s))
  <2> DEFINE x == Returned(s)
  <2>1. x \in Session
    BY <1>1, <1>2, <1>3, RetryRange, ZenonT(60) DEF Session, TlsSteps, Lived, Returned, IoFails
  <2>2. Lived(x) /\ Owned(x, tls.refs[i]) /\ Sheltered(x, tls.shared) /\ (Uses(x) <=> Uses(s))
    BY <1>1, <1>2, <1>3 DEF Session, Lived, Owned, Sheltered, Uses, Returned, IoFails
  <2>3. Polite(x)
    BY <1>1, <1>2, <1>3 DEF Session, Polite, Lived, Returned, IoFails
  <2> QED
    BY <1>1, <1>3, <2>1, <2>2, <2>3, Quiet
<1>4. CASE Step(i, Returned([s EXCEPT !.received = TRUE]))
  <2> DEFINE x == Returned([s EXCEPT !.received = TRUE])
  <2>1. x \in Session
    BY <1>1, <1>2, <1>4, RetryRange DEF Session, TlsSteps, Lived, Returned, IoFails
  <2>2. Lived(x) /\ Owned(x, tls.refs[i]) /\ Sheltered(x, tls.shared) /\ (Uses(x) <=> Uses(s))
    BY <1>1, <1>2, <1>4, ZenonT(60) DEF Session, Lived, Owned, Sheltered, Uses, Returned, IoFails
  <2>3. Polite(x)
    BY <1>1, <1>2, <1>4 DEF Session, Polite, Lived, Returned, IoFails
  <2> QED
    BY <1>1, <1>4, <2>1, <2>2, <2>3, Quiet
<1>5. CASE \E b \in BOOLEAN : Step(i, IoFails([s EXCEPT !.sent = s.sent \/ b]))
  <2>1. PICK b \in BOOLEAN : Step(i, IoFails([s EXCEPT !.sent = s.sent \/ b]))
    BY <1>5
  <2> DEFINE x == IoFails([s EXCEPT !.sent = s.sent \/ b])
  <2>2. x \in Session
    BY <1>1, <1>2, <2>1, RetryRange, ZenonT(60) DEF Session, TlsSteps, Lived, Returned, IoFails
  <2>3. Lived(x) /\ Owned(x, tls.refs[i]) /\ Sheltered(x, tls.shared) /\ (Uses(x) <=> Uses(s))
    BY <1>1, <1>2, <2>1, ZenonT(60) DEF Session, Lived, Owned, Sheltered, Uses, Returned, IoFails
  <2>4. Polite(x)
    BY <1>1, <1>2, <2>1 DEF Session, Polite, Lived, Returned, IoFails
  <2> QED
    BY <1>1, <2>1, <2>2, <2>3, <2>4, Quiet
<1>6. CASE s.timed /\ s.retry + 1 <= IoRetries /\ Step(i, [s EXCEPT !.retry = s.retry + 1])
  <2> DEFINE x == [s EXCEPT !.retry = s.retry + 1]
  <2>1. x \in Session
    BY <1>1, <1>2, <1>6, RetryRange DEF Session, TlsSteps, Lived
  <2>2. Lived(x) /\ Owned(x, tls.refs[i]) /\ Sheltered(x, tls.shared) /\ (Uses(x) <=> Uses(s))
    BY <1>1, <1>2, <1>6 DEF Session, Lived, Owned, Sheltered, Uses
  <2>3. Polite(x)
    BY <1>1, <1>2, <1>6 DEF Session, Polite, Lived
  <2> QED
    BY <1>1, <1>6, <2>1, <2>2, <2>3, Quiet
<1>7. CASE Step(i, [s EXCEPT !.retry = s.retry])
  <2> DEFINE x == [s EXCEPT !.retry = s.retry]
  <2>1. x \in Session
    BY <1>1, <1>2, <1>7, RetryRange DEF Session, TlsSteps, Lived
  <2>2. Lived(x) /\ Owned(x, tls.refs[i]) /\ Sheltered(x, tls.shared) /\ (Uses(x) <=> Uses(s))
    BY <1>1, <1>2, <1>7 DEF Session, Lived, Owned, Sheltered, Uses
  <2>3. Polite(x)
    BY <1>1, <1>2, <1>7 DEF Session, Polite, Lived
  <2> QED
    BY <1>1, <1>7, <2>1, <2>2, <2>3, Quiet
<1> QED
  BY <1>2, <1>3, <1>4, <1>5, <1>6, <1>7

\* The user gives up the session.
LEMMA UserDestroysKeeps ==
    ASSUME TlsIInv, NEW i \in TlsSessions, UserDestroys(i) PROVE TlsIInv'
<1>1. PICK s \in Session : /\ s = tls.s[i] /\ Lived(s) /\ Polite(s)
                           /\ Owned(s, tls.refs[i]) /\ Sheltered(s, tls.shared)
  BY OneSession
<1>2. /\ s.pc = "user"
      /\ \/ Step(i, [s EXCEPT !.pc = "destroy"])
  BY <1>1, TlsConstants DEF UserDestroys, Session, Retries
<1>3. CASE Step(i, [s EXCEPT !.pc = "destroy"])
  <2> DEFINE x == [s EXCEPT !.pc = "destroy"]
  <2>1. x \in Session
    BY <1>1, <1>2, <1>3, RetryRange DEF Session, TlsSteps, Lived
  <2>2. Lived(x) /\ Owned(x, tls.refs[i]) /\ Sheltered(x, tls.shared) /\ (Uses(x) <=> Uses(s))
    BY <1>1, <1>2, <1>3 DEF Session, Lived, Owned, Sheltered, Uses
  <2>3. Polite(x)
    BY <1>1, <1>2, <1>3 DEF Session, Polite, Lived
  <2> QED
    BY <1>1, <1>3, <2>1, <2>2, <2>3, Quiet
<1> QED
  BY <1>2, <1>3

\* No SSL_shutdown, one, or both directions.
LEMMA CloseSessionKeeps ==
    ASSUME TlsIInv, NEW i \in TlsSessions, CloseSession(i) PROVE TlsIInv'
<1>1. PICK s \in Session : /\ s = tls.s[i] /\ Lived(s) /\ Polite(s)
                           /\ Owned(s, tls.refs[i]) /\ Sheltered(s, tls.shared)
  BY OneSession
<1>2. /\ s.pc = "close"
      /\ \/ Step(i, [s EXCEPT !.down = 1, !.pc = "close_end"])
         \/ ~s.io_error /\ Step(i, [s EXCEPT !.down = 1, !.pc = "close_end", !.sent = TRUE,
                                             !.rude = s.rude \/ s.fatal])
         \/ ~s.io_error /\ Step(i, [s EXCEPT !.down = 1, !.pc = "shutdown", !.retry = 0])
  BY <1>1, TlsConstants DEF CloseSession, Session, Retries
<1>3. CASE Step(i, [s EXCEPT !.down = 1, !.pc = "close_end"])
  <2> DEFINE x == [s EXCEPT !.down = 1, !.pc = "close_end"]
  <2>1. x \in Session
    BY <1>1, <1>2, <1>3, RetryRange, ZenonT(60) DEF Session, TlsSteps, Lived
  <2>2. Lived(x) /\ Owned(x, tls.refs[i]) /\ Sheltered(x, tls.shared) /\ (Uses(x) <=> Uses(s))
    BY <1>1, <1>2, <1>3 DEF Session, Lived, Owned, Sheltered, Uses
  <2>3. Polite(x)
    BY <1>1, <1>2, <1>3 DEF Session, Polite, Lived
  <2> QED
    BY <1>1, <1>3, <2>1, <2>2, <2>3, Quiet
<1>4. CASE ~s.io_error /\ Step(i, [s EXCEPT !.down = 1, !.pc = "close_end", !.sent = TRUE,
                                            !.rude = s.rude \/ s.fatal])
  <2> DEFINE x == [s EXCEPT !.down = 1, !.pc = "close_end", !.sent = TRUE, !.rude = s.rude \/ s.fatal]
  <2>1. x \in Session
    BY <1>1, <1>2, <1>4, RetryRange, ZenonT(60) DEF Session, TlsSteps, Lived
  <2>2. Lived(x) /\ Owned(x, tls.refs[i]) /\ Sheltered(x, tls.shared) /\ (Uses(x) <=> Uses(s))
    BY <1>1, <1>2, <1>4 DEF Session, Lived, Owned, Sheltered, Uses
  <2>3. Polite(x)
    BY <1>1, <1>2, <1>4 DEF Session, Polite, Lived
  <2> QED
    BY <1>1, <1>4, <2>1, <2>2, <2>3, Quiet
<1>5. CASE ~s.io_error /\ Step(i, [s EXCEPT !.down = 1, !.pc = "shutdown", !.retry = 0])
  <2> DEFINE x == [s EXCEPT !.down = 1, !.pc = "shutdown", !.retry = 0]
  <2>1. x \in Session
    BY <1>1, <1>2, <1>5, RetryRange, ZenonT(60) DEF Session, TlsSteps, Lived
  <2>2. Lived(x) /\ Owned(x, tls.refs[i]) /\ Sheltered(x, tls.shared) /\ (Uses(x) <=> Uses(s))
    BY <1>1, <1>2, <1>5 DEF Session, Lived, Owned, Sheltered, Uses
  <2>3. Polite(x)
    BY <1>1, <1>2, <1>5 DEF Session, Polite, Lived
  <2> QED
    BY <1>1, <1>5, <2>1, <2>2, <2>3, Quiet
<1> QED
  BY <1>2, <1>3, <1>4, <1>5

\* One SSL_shutdown, which is never the answer to a fatal error.
LEMMA ShutdownSessionKeeps ==
    ASSUME TlsIInv, NEW i \in TlsSessions, ShutdownSession(i) PROVE TlsIInv'
<1>1. PICK s \in Session : /\ s = tls.s[i] /\ Lived(s) /\ Polite(s)
                           /\ Owned(s, tls.refs[i]) /\ Sheltered(s, tls.shared)
  BY OneSession
<1>2. /\ s.pc = "shutdown"
      /\ \/ Step(i, [s EXCEPT !.sent = TRUE, !.rude = s.rude \/ s.fatal, !.pc = "close_end"])
         \/ Step(i, [s EXCEPT !.sent = TRUE, !.rude = s.rude \/ s.fatal, !.pc = "drain"])
         \/ s.retry + 1 <= ShutdownRetries /\ Step(i, [s EXCEPT !.sent = TRUE,
                                                                !.rude = s.rude \/ s.fatal,
                                                                !.retry = s.retry + 1,
                                                                !.pc = "shutdown"])
  BY <1>1, TlsConstants DEF ShutdownSession, Again, Session, Retries
<1>3. CASE Step(i, [s EXCEPT !.sent = TRUE, !.rude = s.rude \/ s.fatal, !.pc = "close_end"])
  <2> DEFINE x == [s EXCEPT !.sent = TRUE, !.rude = s.rude \/ s.fatal, !.pc = "close_end"]
  <2>1. x \in Session
    BY <1>1, <1>2, <1>3, RetryRange, ZenonT(60) DEF Session, TlsSteps, Lived
  <2>2. Lived(x) /\ Owned(x, tls.refs[i]) /\ Sheltered(x, tls.shared) /\ (Uses(x) <=> Uses(s))
    BY <1>1, <1>2, <1>3 DEF Session, Lived, Owned, Sheltered, Uses
  <2>3. Polite(x)
    BY <1>1, <1>2, <1>3 DEF Session, Polite, Lived
  <2> QED
    BY <1>1, <1>3, <2>1, <2>2, <2>3, Quiet
<1>4. CASE Step(i, [s EXCEPT !.sent = TRUE, !.rude = s.rude \/ s.fatal, !.pc = "drain"])
  <2> DEFINE x == [s EXCEPT !.sent = TRUE, !.rude = s.rude \/ s.fatal, !.pc = "drain"]
  <2>1. x \in Session
    BY <1>1, <1>2, <1>4, RetryRange, ZenonT(60) DEF Session, TlsSteps, Lived
  <2>2. Lived(x) /\ Owned(x, tls.refs[i]) /\ Sheltered(x, tls.shared) /\ (Uses(x) <=> Uses(s))
    BY <1>1, <1>2, <1>4 DEF Session, Lived, Owned, Sheltered, Uses
  <2>3. Polite(x)
    BY <1>1, <1>2, <1>4 DEF Session, Polite, Lived
  <2> QED
    BY <1>1, <1>4, <2>1, <2>2, <2>3, Quiet
<1>5. CASE s.retry + 1 <= ShutdownRetries /\ Step(i, [s EXCEPT !.sent = TRUE,
                                                               !.rude = s.rude \/ s.fatal,
                                                               !.retry = s.retry + 1,
                                                               !.pc = "shutdown"])
  <2> DEFINE x == [s EXCEPT !.sent = TRUE, !.rude = s.rude \/ s.fatal, !.retry = s.retry + 1,
                            !.pc = "shutdown"]
  <2>1. x \in Session
    BY <1>1, <1>2, <1>5, RetryRange, ZenonT(60) DEF Session, TlsSteps, Lived
  <2>2. Lived(x) /\ Owned(x, tls.refs[i]) /\ Sheltered(x, tls.shared) /\ (Uses(x) <=> Uses(s))
    BY <1>1, <1>2, <1>5 DEF Session, Lived, Owned, Sheltered, Uses
  <2>3. Polite(x)
    BY <1>1, <1>2, <1>5 DEF Session, Polite, Lived
  <2> QED
    BY <1>1, <1>5, <2>1, <2>2, <2>3, Quiet
<1> QED
  BY <1>2, <1>3, <1>4, <1>5

\* One read of what is left.
LEMMA DrainSessionKeeps ==
    ASSUME TlsIInv, NEW i \in TlsSessions, DrainSession(i) PROVE TlsIInv'
<1>1. PICK s \in Session : /\ s = tls.s[i] /\ Lived(s) /\ Polite(s)
                           /\ Owned(s, tls.refs[i]) /\ Sheltered(s, tls.shared)
  BY OneSession
<1>2. /\ s.pc = "drain"
      /\ \/ Step(i, [s EXCEPT !.pc = "close_end"])
         \/ s.retry + 1 <= ShutdownRetries /\ Step(i, [s EXCEPT !.retry = s.retry + 1, !.pc = "drain"])
         \/ \E b \in BOOLEAN : Step(i, [s EXCEPT !.received = s.received \/ b, !.pc = "close_end"])
         \/ \E b \in BOOLEAN : /\ s.retry + 1 <= ShutdownRetries
                               /\ Step(i, [s EXCEPT !.received = s.received \/ b,
                                                    !.retry = s.retry + 1, !.pc = "shutdown"])
         \/ Step(i, [s EXCEPT !.pc = "close_end", !.fatal = TRUE])
  <2>1. s.retry \in Int
    BY <1>1, TlsConstants DEF Session, Retries
  <2>2. /\ s.pc = "drain"
        /\ \/ Step(i, Again(s, "drain"))
           \/ \E b \in BOOLEAN : Step(i, Again([s EXCEPT !.received = s.received \/ b], "shutdown"))
           \/ Step(i, [s EXCEPT !.pc = "close_end", !.fatal = TRUE])
    BY <1>1 DEF DrainSession
  <2>3. ASSUME Step(i, Again(s, "drain"))
        PROVE  \/ Step(i, [s EXCEPT !.pc = "close_end"])
               \/ /\ s.retry + 1 <= ShutdownRetries
                  /\ Step(i, [s EXCEPT !.retry = s.retry + 1, !.pc = "drain"])
    BY <2>1, <2>3, TlsConstants DEF Again
  <2>4. ASSUME NEW b \in BOOLEAN, Step(i, Again([s EXCEPT !.received = s.received \/ b], "shutdown"))
        PROVE  \/ Step(i, [s EXCEPT !.received = s.received \/ b, !.pc = "close_end"])
               \/ /\ s.retry + 1 <= ShutdownRetries
                  /\ Step(i, [s EXCEPT !.received = s.received \/ b, !.retry = s.retry + 1,
                                       !.pc = "shutdown"])
    <3> DEFINE u == [s EXCEPT !.received = s.received \/ b]
    <3>1. u.retry = s.retry
      BY <1>1 DEF Session
    <3>2. \/ Step(i, [u EXCEPT !.pc = "close_end"])
          \/ s.retry + 1 <= ShutdownRetries /\ Step(i, [u EXCEPT !.retry = s.retry + 1,
                                                                 !.pc = "shutdown"])
      BY <2>1, <2>4, <3>1, TlsConstants DEF Again
    <3> QED
      BY <1>1, <3>2 DEF Session
  <2> QED
    BY <2>2, <2>3, <2>4
<1>3. CASE Step(i, [s EXCEPT !.pc = "close_end"])
  <2> DEFINE x == [s EXCEPT !.pc = "close_end"]
  <2>1. x \in Session
    BY <1>1, <1>2, <1>3, RetryRange, ZenonT(60) DEF Session, TlsSteps, Lived
  <2>2. Lived(x) /\ Owned(x, tls.refs[i]) /\ Sheltered(x, tls.shared) /\ (Uses(x) <=> Uses(s))
    BY <1>1, <1>2, <1>3 DEF Session, Lived, Owned, Sheltered, Uses
  <2>3. Polite(x)
    BY <1>1, <1>2, <1>3 DEF Session, Polite, Lived
  <2> QED
    BY <1>1, <1>3, <2>1, <2>2, <2>3, Quiet
<1>4. CASE s.retry + 1 <= ShutdownRetries /\ Step(i, [s EXCEPT !.retry = s.retry + 1, !.pc = "drain"])
  <2> DEFINE x == [s EXCEPT !.retry = s.retry + 1, !.pc = "drain"]
  <2>1. x \in Session
    BY <1>1, <1>2, <1>4, RetryRange, ZenonT(60) DEF Session, TlsSteps, Lived
  <2>2. Lived(x) /\ Owned(x, tls.refs[i]) /\ Sheltered(x, tls.shared) /\ (Uses(x) <=> Uses(s))
    BY <1>1, <1>2, <1>4 DEF Session, Lived, Owned, Sheltered, Uses
  <2>3. Polite(x)
    BY <1>1, <1>2, <1>4 DEF Session, Polite, Lived
  <2> QED
    BY <1>1, <1>4, <2>1, <2>2, <2>3, Quiet
<1>5. CASE \E b \in BOOLEAN : Step(i, [s EXCEPT !.received = s.received \/ b, !.pc = "close_end"])
  <2>1. PICK b \in BOOLEAN : Step(i, [s EXCEPT !.received = s.received \/ b, !.pc = "close_end"])
    BY <1>5
  <2> DEFINE x == [s EXCEPT !.received = s.received \/ b, !.pc = "close_end"]
  <2>2. x \in Session
    BY <1>1, <1>2, <2>1, RetryRange, ZenonT(60), ZenonT(60) DEF Session, TlsSteps, Lived
  <2>3. Lived(x) /\ Owned(x, tls.refs[i]) /\ Sheltered(x, tls.shared) /\ (Uses(x) <=> Uses(s))
    BY <1>1, <1>2, <2>1 DEF Session, Lived, Owned, Sheltered, Uses
  <2>4. Polite(x)
    BY <1>1, <1>2, <2>1 DEF Session, Polite, Lived
  <2> QED
    BY <1>1, <2>1, <2>2, <2>3, <2>4, Quiet
<1>6. CASE \E b \in BOOLEAN : /\ s.retry + 1 <= ShutdownRetries
                              /\ Step(i, [s EXCEPT !.received = s.received \/ b,
                                                   !.retry = s.retry + 1, !.pc = "shutdown"])
  <2>1. PICK b \in BOOLEAN : /\ s.retry + 1 <= ShutdownRetries
                             /\ Step(i, [s EXCEPT !.received = s.received \/ b,
                                                  !.retry = s.retry + 1, !.pc = "shutdown"])
    BY <1>6
  <2> DEFINE x == [s EXCEPT !.received = s.received \/ b, !.retry = s.retry + 1, !.pc = "shutdown"]
  <2>2. x \in Session
    BY <1>1, <1>2, <2>1, RetryRange, ZenonT(60) DEF Session, TlsSteps, Lived
  <2>3. Lived(x) /\ Owned(x, tls.refs[i]) /\ Sheltered(x, tls.shared) /\ (Uses(x) <=> Uses(s))
    BY <1>1, <1>2, <2>1 DEF Session, Lived, Owned, Sheltered, Uses
  <2>4. Polite(x)
    BY <1>1, <1>2, <2>1 DEF Session, Polite, Lived
  <2> QED
    BY <1>1, <2>1, <2>2, <2>3, <2>4, Quiet
<1>7. CASE Step(i, [s EXCEPT !.pc = "close_end", !.fatal = TRUE])
  <2> DEFINE x == [s EXCEPT !.pc = "close_end", !.fatal = TRUE]
  <2>1. x \in Session
    BY <1>1, <1>2, <1>7, RetryRange, ZenonT(60) DEF Session, TlsSteps, Lived
  <2>2. Lived(x) /\ Owned(x, tls.refs[i]) /\ Sheltered(x, tls.shared) /\ (Uses(x) <=> Uses(s))
    BY <1>1, <1>2, <1>7 DEF Session, Lived, Owned, Sheltered, Uses
  <2>3. Polite(x)
    BY <1>1, <1>2, <1>7 DEF Session, Polite, Lived
  <2> QED
    BY <1>1, <1>7, <2>1, <2>2, <2>3, Quiet
<1> QED
  BY <1>2, <1>3, <1>4, <1>5, <1>6, <1>7, ZenonT(60)

\* The socket is closed, once.
LEMMA CloseEndKeeps ==
    ASSUME TlsIInv, NEW i \in TlsSessions, CloseEnd(i) PROVE TlsIInv'
<1>1. PICK s \in Session : /\ s = tls.s[i] /\ Lived(s) /\ Polite(s)
                           /\ Owned(s, tls.refs[i]) /\ Sheltered(s, tls.shared)
  BY OneSession
<1>2. /\ s.pc = "close_end"
      /\ \/ Step(i, [s EXCEPT !.pc = "destroy", !.fd = "closed", !.closes = 1, !.retry = 0])
  <2>1. s.pc = "close_end" /\ s.closes + 1 = 1
    BY <1>1 DEF CloseEnd, Lived
  <2> QED
    BY <1>1, <2>1 DEF CloseEnd
<1>3. CASE Step(i, [s EXCEPT !.pc = "destroy", !.fd = "closed", !.closes = 1, !.retry = 0])
  <2> DEFINE x == [s EXCEPT !.pc = "destroy", !.fd = "closed", !.closes = 1, !.retry = 0]
  <2>1. x \in Session
    BY <1>1, <1>2, <1>3, RetryRange DEF Session, TlsSteps, Lived
  <2>2. Lived(x) /\ Owned(x, tls.refs[i]) /\ Sheltered(x, tls.shared) /\ (Uses(x) <=> Uses(s))
    BY <1>1, <1>2, <1>3 DEF Session, Lived, Owned, Sheltered, Uses
  <2>3. Polite(x)
    BY <1>1, <1>2, <1>3 DEF Session, Polite, Lived
  <2> QED
    BY <1>1, <1>3, <2>1, <2>2, <2>3, Quiet
<1> QED
  BY <1>2, <1>3

\* A client makes its context, or fails to; a server has the shared one.
LEMMA InitSessionKeeps ==
    ASSUME TlsIInv, NEW i \in TlsSessions, InitSession(i) PROVE TlsIInv'
<1>1. PICK s \in Session : /\ s = tls.s[i] /\ Lived(s) /\ Polite(s)
                           /\ Owned(s, tls.refs[i]) /\ Sheltered(s, tls.shared)
  BY OneSession
<1>2. s.pc = "init" /\ s.type \in {"client", "server"} /\ s.ssl = "none"
  BY <1>1 DEF InitSession, Lived, Session
<1>3. CASE Step(i, [s EXCEPT !.pc = "destroy"])
  <2> DEFINE x == [s EXCEPT !.pc = "destroy"]
  <2>1. x \in Session
    BY <1>1 DEF Session, TlsSteps
  <2>2. Lived(x) /\ Owned(x, tls.refs[i]) /\ Sheltered(x, tls.shared) /\ (Uses(x) <=> Uses(s))
    BY <1>1, <1>2 DEF Session, Lived, Owned, Sheltered, Uses
  <2>3. Polite(x)
    BY <1>1, <1>2 DEF Session, Polite, Lived
  <2> QED
    BY <1>1, <1>3, <2>1, <2>2, <2>3, Quiet
<1>4. CASE tls' = [tls EXCEPT !.s[i].pc = "establish", !.s[i].retry = 0,
                     !.refs[CtxOf(i)] = IF tls.s[i].type = "client" THEN 1 ELSE @]
  <2> DEFINE x == [s EXCEPT !.pc = "establish", !.retry = 0]
             c == CtxOf(i)
             r == IF s.type = "client" THEN 1 ELSE tls.refs[c]
  <2>1. c \in TlsSessions \cup {"shared"} /\ r \in Nat
    BY DEF CtxOf, TlsIInv, TlsShape
  <2>2. tls' = [tls EXCEPT !.s = [tls.s EXCEPT ![i] = x], !.refs = [tls.refs EXCEPT ![c] = r]]
    BY <1>1, <1>4, <2>1 DEF TlsIInv, TlsShape
  <2>3. x \in Session
    BY <1>1, RetryRange, ZenonT(60) DEF Session, TlsSteps
  <2>4. Lived(x) /\ Sheltered(x, tls.shared) /\ (Uses(x) <=> Uses(s)) /\ x.type = s.type
    BY <1>1, <1>2 DEF Session, Lived, Sheltered, Uses
  <2>5. Polite(x)
    BY <1>1, <1>2 DEF Session, Polite, Lived
  <2>6. (x.type = "client" => Owned(x, r)) /\ (x.type = "server" => Owned(x, 0) /\ r = tls.refs[c])
    BY <1>1, <1>2 DEF Session, Owned
  <2> HIDE DEF x, c, r
  <2>7. c = CtxOf(i)
    BY DEF c
  <2> QED
    BY <1>1, <1>2, <2>1, <2>2, <2>3, <2>4, <2>5, <2>6, <2>7, Counting
<1> QED
  BY <1>1, <1>3, <1>4 DEF InitSession

\* The reference that SSL_new takes is of a context that still exists.
LEMMA EstablishKeeps ==
    ASSUME TlsIInv, NEW i \in TlsSessions, Establish(i) PROVE TlsIInv'
<1>1. PICK s \in Session : /\ s = tls.s[i] /\ Lived(s) /\ Polite(s)
                           /\ Owned(s, tls.refs[i]) /\ Sheltered(s, tls.shared)
  BY OneSession
<1> DEFINE c == CtxOf(i)
           r == IF s.ssl = "none" THEN tls.refs[c] + 1 ELSE tls.refs[c]
           live == [s EXCEPT !.ssl = "live"]
           Becomes(x) == tls' = [tls EXCEPT !.s[i] = x, !.stale = @ \/ tls.refs[c] = 0,
                                    !.refs[c] = IF s.ssl = "none" THEN @ + 1 ELSE @]
<1>2. s.pc = "establish" /\ s.type \in {"client", "server"} /\ s.ssl \in {"none", "live"}
  BY <1>1 DEF Establish, Lived, Session
<1>3. /\ c \in TlsSessions \cup {"shared"} /\ tls.refs[c] \in Nat /\ r \in Nat
      /\ s.type = "client" => c = i
      /\ s.type = "server" => c = "shared"
  BY <1>1 DEF CtxOf, TlsIInv, TlsShape
<1>4. tls.refs[c] # 0
  <2>1. CASE s.type = "client"
    BY <1>1, <1>2, <1>3, <2>1 DEF Owned
  <2>2. CASE s.type = "server"
    <3>1. tls.shared = "live"
      BY <1>1, <1>2, <2>2 DEF Sheltered
    <3>2. Cardinality(Using) \in Nat
      BY TlsConstants, FS_Subset, FS_CardinalityType DEF Using
    <3> QED
      BY <1>3, <2>2, <3>1, <3>2 DEF TlsIInv, SharedCount
  <2> QED
    BY <1>2, <2>1, <2>2
<1>5. live \in Session
  BY <1>1 DEF Session
<1>6. ASSUME NEW x \in Session, Becomes(x), Lived(x), Polite(x), Sheltered(x, tls.shared),
             x.type = s.type, x.ssl = "live", x.pc # "init", x.pc # "gone"
      PROVE  TlsIInv'
  <2>1. tls' = [tls EXCEPT !.s = [tls.s EXCEPT ![i] = x], !.refs = [tls.refs EXCEPT ![c] = r]]
    <3>1. (tls.stale \/ tls.refs[c] = 0) = tls.stale
      BY <1>4 DEF TlsIInv, TlsShape
    <3> HIDE DEF c
    <3> QED
      BY <1>3, <1>6, <3>1 DEF TlsIInv, TlsShape
  <2>2. x.type = "client" => Owned(x, r)
    BY <1>1, <1>2, <1>3, <1>6 DEF Owned
  <2>3. x.type = "server" => /\ Uses(x) /\ ~Uses(s) => r = tls.refs[c] + 1
                             /\ Uses(x) /\ Uses(s) => r = tls.refs[c]
                             /\ Uses(x) /\ Owned(x, 0)
    BY <1>2, <1>6 DEF Uses, Owned
  <2> HIDE DEF c, r
  <2>4. c = CtxOf(i)
    BY DEF c
  <2> QED
    BY <1>1, <1>2, <1>3, <1>6, <2>1, <2>2, <2>3, <2>4, Counting
<1>7. \/ s.ssl = "none" /\ Step(i, [s EXCEPT !.pc = "destroy"])
      \/ Becomes(Returned([live EXCEPT !.established = TRUE]))
      \/ Becomes([live EXCEPT !.pc = "destroy"])
      \/ s.retry + 1 <= InitRetries /\ Becomes([live EXCEPT !.retry = s.retry + 1])
  <2>1. live.retry = s.retry /\ s.retry \in Int
    BY <1>1, TlsConstants DEF Session, Retries
  <2>2. \/ s.ssl = "none" /\ Step(i, [s EXCEPT !.pc = "destroy"])
        \/ Becomes(Returned([live EXCEPT !.established = TRUE]))
        \/ Becomes([live EXCEPT !.pc = "destroy"])
        \/ Becomes(IF s.retry + 1 > InitRetries THEN [live EXCEPT !.pc = "destroy"]
                   ELSE [live EXCEPT !.retry = live.retry + 1])
    BY <1>1 DEF Establish
  <2> HIDE DEF Becomes, live
  <2> QED
    BY <2>1, <2>2, TlsConstants
<1>8. CASE s.ssl = "none" /\ Step(i, [s EXCEPT !.pc = "destroy"])
  <2> DEFINE x == [s EXCEPT !.pc = "destroy"]
  <2>1. x \in Session
    BY <1>1 DEF Session, TlsSteps
  <2>2. Lived(x) /\ Owned(x, tls.refs[i]) /\ Sheltered(x, tls.shared) /\ (Uses(x) <=> Uses(s))
    BY <1>1, <1>2 DEF Session, Lived, Owned, Sheltered, Uses
  <2>3. Polite(x)
    BY <1>1, <1>2 DEF Session, Polite, Lived
  <2> QED
    BY <1>1, <1>8, <2>1, <2>2, <2>3, Quiet
<1>9. CASE Becomes(Returned([live EXCEPT !.established = TRUE]))
  <2> DEFINE x == Returned([live EXCEPT !.established = TRUE])
  <2>1. x \in Session
    BY <1>1, RetryRange, ZenonT(60) DEF Session, TlsSteps, Returned
  <2>2. /\ Lived(x) /\ Sheltered(x, tls.shared) /\ Polite(x)
        /\ x.type = s.type /\ x.ssl = "live" /\ x.pc = "user"
    BY <1>1, <1>2 DEF Session, Returned, Lived, Sheltered, Polite
  <2> HIDE DEF x, Becomes
  <2>3. Becomes(x)
    BY <1>9 DEF x
  <2> QED
    BY <1>6, <2>1, <2>2, <2>3
<1>10. CASE Becomes([live EXCEPT !.pc = "destroy"])
  <2> DEFINE x == [live EXCEPT !.pc = "destroy"]
  <2>1. x \in Session
    BY <1>1, ZenonT(60) DEF Session, TlsSteps
  <2>2. /\ Lived(x) /\ Sheltered(x, tls.shared) /\ Polite(x)
        /\ x.type = s.type /\ x.ssl = "live" /\ x.pc = "destroy"
    BY <1>1, <1>2 DEF Session, Lived, Sheltered, Polite
  <2> HIDE DEF x, Becomes
  <2>3. Becomes(x)
    BY <1>10 DEF x
  <2> QED
    BY <1>6, <2>1, <2>2, <2>3
<1>11. CASE s.retry + 1 <= InitRetries /\ Becomes([live EXCEPT !.retry = s.retry + 1])
  <2> DEFINE x == [live EXCEPT !.retry = s.retry + 1]
  <2>1. x \in Session
    BY <1>1, <1>11, RetryRange, ZenonT(60) DEF Session, TlsSteps
  <2>2. /\ Lived(x) /\ Sheltered(x, tls.shared) /\ Polite(x)
        /\ x.type = s.type /\ x.ssl = "live" /\ x.pc = "establish"
    BY <1>1, <1>2 DEF Session, Lived, Sheltered, Polite
  <2> HIDE DEF x, Becomes
  <2>3. Becomes(x)
    BY <1>11 DEF x
  <2> QED
    BY <1>6, <2>1, <2>2, <2>3
<1> QED
  BY <1>7, <1>8, <1>9, <1>10, <1>11

\* The SSL object is freed, and with it a client's context.
LEMMA DestroySessionKeeps ==
    ASSUME TlsIInv, NEW i \in TlsSessions, DestroySession(i) PROVE TlsIInv'
<1>1. PICK s \in Session : /\ s = tls.s[i] /\ Lived(s) /\ Polite(s)
                           /\ Owned(s, tls.refs[i]) /\ Sheltered(s, tls.shared)
  BY OneSession
<1>2. s.pc = "destroy" /\ s.type \in {"client", "server"} /\ s.ssl \in {"none", "live"}
  BY <1>1 DEF DestroySession, Lived, Session
<1>3. CASE s.down = 0
  <2> DEFINE x == [s EXCEPT !.pc = "close"]
  <2>1. x \in Session /\ Step(i, x)
    BY <1>1, <1>3 DEF Session, TlsSteps, DestroySession
  <2>2. Lived(x) /\ Owned(x, tls.refs[i]) /\ Sheltered(x, tls.shared) /\ (Uses(x) <=> Uses(s))
    BY <1>1, <1>2, <1>3 DEF Session, Lived, Owned, Sheltered, Uses
  <2>3. Polite(x)
    BY <1>1, <1>2, <1>3 DEF Session, Polite, Lived
  <2> QED
    BY <1>1, <2>1, <2>2, <2>3, Quiet
<1>4. CASE s.down # 0
  <2> DEFINE c == CtxOf(i)
             q == tls.refs[c]
             r == q - (IF s.ssl = "live" THEN 1 ELSE 0) - (IF s.type = "client" /\ q > 0 THEN 1 ELSE 0)
             x == [s EXCEPT !.pc = "gone", !.down = 2,
                            !.ssl = IF s.ssl = "live" THEN "freed" ELSE s.ssl]
  <2>1. /\ c \in TlsSessions \cup {"shared"} /\ q \in Nat
        /\ s.type = "client" => c = i
        /\ s.type = "server" => c = "shared"
    BY <1>1 DEF CtxOf, TlsIInv, TlsShape
  <2>2. tls' = [tls EXCEPT !.s = [tls.s EXCEPT ![i] = x], !.refs = [tls.refs EXCEPT ![c] = r]]
    <3>1. tls' = [tls EXCEPT !.s[i].pc = "gone", !.s[i].down = 2,
                      !.s[i].ssl = IF @ = "live" THEN "freed" ELSE @,
                      !.refs[c] = @ - (IF s.ssl = "live" THEN 1 ELSE 0)
                         - (IF s.type = "client" /\ @ > 0 THEN 1 ELSE 0)]
      BY <1>1, <1>4 DEF DestroySession
    <3> HIDE DEF c
    <3>2. /\ tls'.s = [tls.s EXCEPT ![i] = x] /\ tls'.refs = [tls.refs EXCEPT ![c] = r]
          /\ tls'.shared = tls.shared /\ tls'.stale = tls.stale
      <4>1. tls'.refs = [tls.refs EXCEPT ![c] = r]
        BY <2>1, <3>1 DEF TlsIInv, TlsShape
      <4>2. tls'.s = [tls.s EXCEPT ![i] = x]
        BY <1>1, <3>1 DEF TlsIInv, TlsShape, Session
      <4> QED
        BY <3>1, <4>1, <4>2 DEF TlsIInv, TlsShape
    <3> QED
      BY <3>1, <3>2, ZenonT(60) DEF TlsIInv, TlsShape
  <2>3. x \in Session
    <3>1. PICK v \in {"none", "live", "freed"} : v = IF s.ssl = "live" THEN "freed" ELSE s.ssl
      BY <1>2
    <3>2. "gone" \in TlsSteps /\ 2 \in {0, 1, 2}
      BY DEF TlsSteps
    <3>3. [s EXCEPT !.pc = "gone", !.down = 2, !.ssl = v] \in Session
      BY <3>1, <3>2, ZenonT(60) DEF Session
    <3> QED
      BY <3>1, <3>3
  <2>4. Lived(x) /\ Sheltered(x, tls.shared) /\ Polite(x) /\ x.type = s.type /\ ~Uses(x)
    BY <1>1, <1>2, <1>4 DEF Session, Lived, Sheltered, Polite, Uses
  <2>5. s.type = "client" => r = 0
    BY <1>1, <1>2, <2>1 DEF Owned
  <2>6. s.type = "server" => (Uses(s) => r = q - 1) /\ (~Uses(s) => r = q)
    BY <2>1 DEF Uses
  <2>7. Uses(s) => q > 0
    <3>1. Uses(s) => i \in Using
      BY <1>1 DEF Using
    <3>2. IsFiniteSet(Using) /\ Cardinality(Using) \in Nat /\ (Cardinality(Using) = 0 <=> Using = {})
      BY TlsConstants, FS_Subset, FS_CardinalityType, FS_EmptySet DEF Using
    <3> QED
      BY <2>1, <3>1, <3>2 DEF TlsIInv, SharedCount, Uses
  <2>8. r \in Nat
    BY <1>2, <2>1, <2>5, <2>6, <2>7
  <2>9. Owned(x, 0)
    BY <1>1 DEF Owned, Session
  <2> HIDE DEF c, q, r, x
  <2>10. c = CtxOf(i) /\ q = tls.refs[c]
    BY DEF c, q
  <2> QED
    BY <1>1, <1>2, <2>1, <2>2, <2>3, <2>4, <2>5, <2>6, <2>8, <2>9, <2>10, Counting
<1> QED
  BY <1>3, <1>4

\* The owner of the shared context makes it, or gives it up when no
\* ks_tls_accept is in progress.
LEMMA SharedCtxKeeps ==
    ASSUME TlsIInv, CreateSharedCtx \/ DestroySharedCtx PROVE TlsIInv'
<1>1. Cardinality(Using) \in Nat
  BY TlsConstants, FS_Subset, FS_CardinalityType DEF Using
<1>2. tls.refs["shared"] \in Nat /\ (tls.shared = "live" => tls.refs["shared"] > 0)
  BY <1>1 DEF TlsIInv, TlsShape, SharedCount
<1>3. tls.shared = "none" => Cardinality(Using) = 0
  <2>1. tls.shared = "none" => Using = {}
    BY SMTT(40) DEF TlsIInv, Sheltered, Using, Uses
  <2> QED
    BY <2>1, FS_EmptySet
<1>4. \E r \in Nat, v \in {"live", "gone"} :
        /\ tls' = [tls EXCEPT !.shared = v, !.refs = [tls.refs EXCEPT !["shared"] = r]]
        /\ r = Cardinality(Using) + (IF v = "live" THEN 1 ELSE 0)
        /\ v = "live" \/ \A i \in TlsSessions : tls.s[i].pc \notin {"init", "establish"}
  <2>1. CASE CreateSharedCtx
    <3>1. tls' = [tls EXCEPT !.shared = "live", !.refs = [tls.refs EXCEPT !["shared"] = 1]]
      BY <2>1 DEF CreateSharedCtx
    <3>2. 1 = Cardinality(Using) + 1
      BY <1>3, <2>1 DEF CreateSharedCtx
    <3> QED
      BY <3>1, <3>2
  <2>2. CASE DestroySharedCtx
    <3> DEFINE r == tls.refs["shared"] - 1
    <3>1. tls' = [tls EXCEPT !.shared = "gone", !.refs = [tls.refs EXCEPT !["shared"] = r]]
      BY <2>2 DEF DestroySharedCtx
    <3>2. r \in Nat /\ r = Cardinality(Using)
      BY <1>1, <1>2, <2>2 DEF DestroySharedCtx, TlsIInv, SharedCount
    <3>3. \A i \in TlsSessions : tls.s[i].pc \notin {"init", "establish"}
      BY <2>2 DEF DestroySharedCtx
    <3> HIDE DEF r
    <3>4. r = Cardinality(Using) + (IF "gone" = "live" THEN 1 ELSE 0)
      BY <1>1, <3>2
    <3> QED
      BY <3>1, <3>2, <3>3, <3>4
  <2> QED
    BY <2>1, <2>2
<1>5. PICK r \in Nat, v \in {"live", "gone"} :
        /\ tls' = [tls EXCEPT !.shared = v, !.refs = [tls.refs EXCEPT !["shared"] = r]]
        /\ r = Cardinality(Using) + (IF v = "live" THEN 1 ELSE 0)
        /\ v = "live" \/ \A i \in TlsSessions : tls.s[i].pc \notin {"init", "establish"}
  BY <1>4
<1>6. /\ tls'.s = tls.s /\ tls'.shared = v /\ tls'.stale = tls.stale /\ tls'.refs["shared"] = r
      /\ \A i \in TlsSessions : tls'.refs[i] = tls.refs[i]
  BY <1>5, TlsConstants DEF TlsIInv, TlsShape
<1>7. TlsShape'
  BY <1>5 DEF TlsIInv, TlsShape
<1>8. SharedCount'
  <2>1. Using' = Using
    BY <1>6 DEF Using
  <2> QED
    BY <1>5, <1>6, <2>1 DEF SharedCount
<1>9. ASSUME NEW i \in TlsSessions PROVE Sheltered(tls'.s[i], tls'.shared)
  BY <1>5, <1>6 DEF Sheltered
<1> QED
  BY <1>6, <1>7, <1>8, <1>9 DEF TlsIInv

-----------------------------------------------------------------------------
(* The theorems                                                            *)

\* Before any call there is no session and no context.
LEMMA TlsInitIInv == TlsInit => TlsIInv
<1> SUFFICES ASSUME TlsInit PROVE TlsIInv
  OBVIOUS
<1>1. NewSession \in Session /\ Lived(NewSession) /\ Polite(NewSession)
  BY RetryRange DEF NewSession, Session, TlsSteps, Lived, Polite
<1>2. Owned(NewSession, 0) /\ Sheltered(NewSession, "none") /\ ~Uses(NewSession)
  BY DEF NewSession, Owned, Sheltered, Uses
<1>3. /\ tls.s = [i \in TlsSessions |-> NewSession] /\ tls.shared = "none" /\ tls.stale = FALSE
      /\ tls.refs = [c \in TlsSessions \cup {"shared"} |-> 0]
  BY DEF TlsInit, NewTls
<1>4. TlsShape
  BY <1>1 DEF TlsInit, NewTls, TlsShape
<1>5. SharedCount
  <2>1. Using = {}
    BY <1>2, <1>3 DEF Using
  <2> QED
    BY <1>3, <2>1, FS_EmptySet DEF SharedCount
<1> QED
  BY <1>1, <1>2, <1>3, <1>4, <1>5 DEF TlsIInv

\* Every step keeps the invariant.
LEMMA TlsNextIInv == TlsIInv /\ [TlsNext]_tls => TlsIInv'
<1>1. ASSUME TlsIInv, TlsNext PROVE TlsIInv'
  <2>1. CASE CreateSharedCtx \/ DestroySharedCtx
    BY <1>1, <2>1, SharedCtxKeeps
  <2>2. ASSUME NEW i \in TlsSessions,
               TlsConnect(i) \/ TlsAccept(i) \/ CallIo(i) \/ UserDestroys(i) \/ SessionCalls(i)
        PROVE  TlsIInv'
    BY <1>1, <2>2, TlsConnectKeeps, TlsAcceptKeeps, CallIoKeeps, UserDestroysKeeps,
       InitSessionKeeps,
       EstablishKeeps, IoKeeps, DestroySessionKeeps, CloseSessionKeeps, ShutdownSessionKeeps,
       DrainSessionKeeps, CloseEndKeeps DEF SessionCalls
  <2> QED
    BY <1>1, <2>1, <2>2 DEF TlsNext
<1>2. ASSUME TlsIInv, UNCHANGED tls PROVE TlsIInv'
  BY <1>2 DEF TlsIInv, TlsShape, SharedCount, Using
<1> QED
  BY <1>1, <1>2

\* It holds throughout.
LEMMA TlsInvariant == TlsSpec => []TlsIInv
BY TlsInitIInv, TlsNextIInv, PTL DEF TlsSpec

\* Every field of every session keeps its type, the retries stay within their
\* limits and no context's count goes below zero.
THEOREM TlsTyped == TlsSpec => []TlsTypeOK
<1>1. TlsIInv => TlsTypeOK
  <2> SUFFICES ASSUME TlsIInv PROVE TlsTypeOK
    OBVIOUS
  <2>1. ASSUME NEW i \in TlsSessions
        PROVE  /\ tls.s[i].pc \in TlsSteps /\ tls.s[i].ssl \in {"none", "live", "freed"}
               /\ tls.s[i].down \in 0..2
               /\ tls.s[i].retry \in 0..(InitRetries + IoRetries + ShutdownRetries)
               /\ tls.refs[i] \in {0, 1, 2}
    BY <2>1, OneSession DEF Session, Retries, Owned, Lived
  <2>2. Cardinality(TlsSessions) \in Nat
    BY TlsConstants, FS_CardinalityType
  <2>3. tls.refs["shared"] \in 0..(Cardinality(TlsSessions) + 1)
    <3>1. Using \subseteq TlsSessions
      BY DEF Using
    <3>2. Cardinality(Using) \in Nat /\ Cardinality(Using) <= Cardinality(TlsSessions)
      BY <3>1, TlsConstants, FS_Subset, FS_CardinalityType
    <3> QED
      BY <2>2, <3>2 DEF TlsIInv, SharedCount
  <2>4. ASSUME NEW i \in TlsSessions PROVE tls.refs[i] \in 0..(Cardinality(TlsSessions) + 1)
    <3>1. Cardinality(TlsSessions) # 0
      BY TlsConstants, FS_EmptySet
    <3> QED
      BY <2>1, <2>2, <3>1
  <2>5. tls.refs \in [TlsSessions \cup {"shared"} -> 0..(Cardinality(TlsSessions) + 1)]
    BY <2>3, <2>4 DEF TlsIInv, TlsShape
  <2> QED
    BY <2>1, <2>5 DEF TlsTypeOK
<1> QED
  BY <1>1, TlsInvariant, PTL

\* However connects, accepts, errors, retries and destroys of any number of
\* sessions interleave with the owner of the shared context: a session that is
\* gone has freed its SSL object, closed its socket once and dropped its own
\* context; the shared context has one reference per session that uses it and
\* one of its owner, and is never used when freed; and SSL_shutdown is never
\* called after a fatal error.
THEOREM TlsAlwaysSound == TlsSpec => []TlsSound
<1>1. TlsIInv => TlsSound
  <2> SUFFICES ASSUME TlsIInv PROVE TlsSound
    OBVIOUS
  <2>1. ASSUME NEW i \in TlsSessions
        PROVE  /\ tls.s[i].pc = "gone" => /\ tls.s[i].ssl # "live" /\ tls.refs[i] = 0
                                          /\ tls.s[i].fd # "open"
               /\ tls.s[i].closes <= 1 /\ ~tls.s[i].rude
    BY <2>1, OneSession DEF Session, Lived, Owned, Polite
  <2>2. {i \in TlsSessions : tls.s[i].type = "server" /\ tls.s[i].ssl = "live"} = Using
    BY DEF Using, Uses
  <2>3. SessionsClean
    BY <2>1, <2>2 DEF SessionsClean, TlsIInv, SharedCount
  <2> QED
    BY <2>1, <2>3 DEF TlsSound, NoShutdownAfterFatal
<1> QED
  BY <1>1, TlsInvariant, PTL
=============================================================================
