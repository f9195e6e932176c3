------------------------------ MODULE KsSocket ------------------------------
(***************************************************************************)
(* The sockets of src/ks_socket.c: who holds which descriptor while        *)
(* ks_socket_connect_ex, ks_listen_sock, ks_find_local_ip and the rest of  *)
(* the program open and close them side by side.                           *)
(*                                                                         *)
(* The kernel is external: it gives out the lowest free descriptor, every  *)
(* call may fail, and a connection comes up, fails or stays pending.       *)
(***************************************************************************)
EXTENDS Integers, FiniteSets, FiniteSetsExt

CONSTANT MaxFd          \* descriptors of the process

ASSUME SocketConstants == MaxFd \in Nat \ {0}

VARIABLE net            \* the descriptor table and the calls in progress

Owners == {"free", "connect", "caller", "listen", "client", "find", "mask", "other"}

(* timed: nb_timeout > 0.  masked: ks_find_local_ip is asked for a mask. *)
NewNet(timed, masked) ==
    [owner |-> [fd \in 1..MaxFd |-> "free"], block |-> [fd \in 1..MaxFd |-> TRUE],
     timed |-> timed, masked |-> masked,
     connect |-> "start", sock |-> 0, link |-> "none", errno |-> "none",
     listen |-> "start", server |-> 0, client |-> 0, shut |-> FALSE, stopped |-> FALSE,
     find |-> "start", tmp |-> 0, aux |-> 0, strays |-> 0,
     datalen |-> 2, status |-> "none"]

SocketInit == \E timed, masked \in BOOLEAN : net = NewNet(timed, masked)

(* socket() and accept() fail, or give the lowest free descriptor. *)
Free == {fd \in 1..MaxFd : net.owner[fd] = "free"}

Opened(who) == [net EXCEPT !.owner[Min(Free)] = who, !.block[Min(Free)] = TRUE]

(* ks_socket_close.  A descriptor that is someone else's by now goes all the *)
(* same, and is counted.                                                     *)
CloseFd(n, fd, who) ==
    [n EXCEPT !.owner[fd] = "free",
              !.strays = IF n.owner[fd] # who THEN @ + 1 ELSE @]

-----------------------------------------------------------------------------
(* ks_socket_connect_ex, one system call a step. *)
ConnectFails == net' = [CloseFd(net, net.sock, "connect") EXCEPT !.connect = "failed", !.sock = 0]

ConnectOpen ==
    /\ net.connect = "start"
    /\ \/ net' = [net EXCEPT !.connect = "failed"]
       \/ Free # {} /\ net' = [Opened("connect") EXCEPT !.sock = Min(Free),
                                 !.connect = IF net.timed THEN "nonblock" ELSE "connecting"]

ConnectNonblock ==
    /\ net.connect = "nonblock"
    /\ \/ ConnectFails
       \/ net' = [net EXCEPT !.block[net.sock] = FALSE, !.connect = "connecting"]

(* ks_errno_is_blocking: EINPROGRESS, but EINTR and ETIMEDOUT too. *)
IsBlocking(errno) == errno \in {"inprogress", "eintr", "etimedout"}

(* connect(): a blocking one comes back when the connection is up or failed, *)
(* or is interrupted; the other one may also leave it pending.               *)
ConnectCall ==
    /\ net.connect = "connecting"
    /\ \E errno \in {"none", "refused", "eintr", "etimedout", "inprogress"} :
          /\ errno = "inprogress" => ~net.block[net.sock]
          /\ errno \in {"eintr", "etimedout"} => net.block[net.sock]
          /\ IF errno # "none" /\ ~IsBlocking(errno) THEN ConnectFails
             ELSE net' = [net EXCEPT !.connect = IF net.timed THEN "waiting" ELSE "done",
                            !.errno = errno,
                            !.owner[net.sock] = IF net.timed THEN @ ELSE "caller",
                            !.link = CASE errno = "none" -> "up"
                                       [] errno \in {"refused", "etimedout"} -> "failed"
                                       [] OTHER -> "pending"]

(* The network decides about a pending connection. *)
NetworkDecides ==
    /\ net.link = "pending"
    /\ \E l \in {"up", "failed"} : net' = [net EXCEPT !.link = l]

(* ks_wait_sock: what poll reports, or all flags at once if it fails. *)
WaitFlags(link) ==
    {{}, {"READ", "WRITE", "ERROR"}} \cup
    (CASE link = "up" -> {{"WRITE"}, {"READ", "WRITE"}}
       [] link = "failed" -> {{"READ", "WRITE", "ERROR", "HUP"}}
       [] OTHER -> {})

(* Mutant: POLLERR is not looked at. *)
ConnectWaitBlind ==
    /\ net.connect = "waiting"
    /\ \E flags \in WaitFlags(net.link) :
          IF flags \cap {"READ", "WRITE"} = {} THEN ConnectFails
          ELSE net' = [net EXCEPT !.connect = "block"]

ConnectWait ==
    /\ net.connect = "waiting"
    /\ \E flags \in WaitFlags(net.link) :
          IF "ERROR" \in flags \/ flags \cap {"READ", "WRITE"} = {} THEN ConnectFails
          ELSE net' = [net EXCEPT !.connect = "block"]

ConnectBlock ==
    /\ net.connect = "block"
    /\ \/ ConnectFails
       \/ net' = [net EXCEPT !.block[net.sock] = TRUE, !.connect = "done",
                             !.owner[net.sock] = "caller"]

-----------------------------------------------------------------------------
(* ks_listen: ks_addr_set cannot fail, socket() may. *)
ListenOpen ==
    /\ net.listen = "start"
    /\ \/ net' = [net EXCEPT !.listen = "done"]
       \/ Free # {} /\ net' = [Opened("listen") EXCEPT !.server = Min(Free), !.listen = "bind"]

(* The end of ks_listen_sock: shutdown and close of its copy of the number.  *)
ListenEnds == net' = [CloseFd(net, net.server, "listen") EXCEPT !.listen = "done"]

ListenBind ==
    /\ net.listen = "bind"
    /\ ListenEnds \/ net' = [net EXCEPT !.listen = "accept"]

(* accept() fails once the socket is shut down, and may fail before. *)
ListenAccept ==
    /\ net.listen = "accept"
    /\ \/ ListenEnds
       \/ ~net.shut /\ Free # {}
          /\ net' = [Opened("client") EXCEPT !.client = Min(Free), !.listen = "callback"]

(* The callback owns the new socket and closes it. *)
ListenCallback ==
    /\ net.listen = "callback"
    /\ net' = [CloseFd(net, net.client, "client") EXCEPT !.client = 0, !.listen = "accept"]

(* Its owner stops a listener with ks_socket_shutdown on the same number.    *)
ListenStop ==
    /\ net.server # 0 /\ ~net.stopped
    /\ net' = [net EXCEPT !.stopped = TRUE,
                          !.shut = net.listen \in {"accept", "callback"},
                          !.strays = IF net.owner[net.server] \notin {"listen", "free"}
                                     THEN @ + 1 ELSE @]

-----------------------------------------------------------------------------
(* ks_find_local_ip: a datagram socket, closed at doh; get_netmask on the    *)
(* way closes the one it opens.                                              *)
FindOpen ==
    /\ net.find = "start"
    /\ \/ net' = [net EXCEPT !.find = "failed"]
       \/ Free # {} /\ net' = [Opened("find") EXCEPT !.tmp = Min(Free), !.find = "route"]

FindEnds(end) == net' = [CloseFd(net, net.tmp, "find") EXCEPT !.find = end]

FindRoute ==
    /\ net.find = "route"
    /\ \/ FindEnds("failed")
       \/ ~net.masked /\ FindEnds("done")
       \/ net.masked /\ net' = [net EXCEPT !.find = "mask"]

FindMask ==
    /\ net.find = "mask"
    /\ \/ net.aux = 0 /\ Free # {} /\ net' = [Opened("mask") EXCEPT !.aux = Min(Free)]
       \/ net.aux = 0 /\ FindEnds("done")
       \/ net.aux # 0 /\ net' = [CloseFd(CloseFd(net, net.aux, "mask"), net.tmp, "find")
                                   EXCEPT !.find = "done", !.aux = 0]

(* The rest of the program opens and closes descriptors of its own. *)
OthersOpen == Free # {} /\ net' = Opened("other")
OthersClose == \E fd \in 1..MaxFd : net.owner[fd] = "other" /\ net' = CloseFd(net, fd, "other")

(* The caller gives its connection back. *)
CallerClose ==
    /\ net.connect = "done" /\ net.sock # 0
    /\ net' = [CloseFd(net, net.sock, "caller") EXCEPT !.sock = 0]

-----------------------------------------------------------------------------
(* ks_socket_send, recv, sendto, recvfrom.  An interrupted call is made      *)
(* again, which changes nothing.  r: what the last one returned.             *)
TransferStatus(r, errno) ==
    CASE r > 0 -> "SUCCESS"
      [] r = 0 -> "DISCONNECTED"
      [] r < 0 /\ (IsBlocking(errno) \/ errno = "eagain") -> "BREAK"
      [] OTHER -> "FAIL"

Transfer ==
    /\ net.connect = "done" /\ net.sock # 0 /\ net.link = "up" /\ net.status = "none"
    /\ \E r \in -1..net.datalen, errno \in {"eagain", "etimedout", "reset"} :
          net' = [net EXCEPT !.status = TransferStatus(r, errno),
                             !.datalen = IF r > 0 THEN r ELSE @]

SocketNext ==
    \/ ConnectOpen \/ ConnectNonblock \/ ConnectCall \/ NetworkDecides \/ ConnectWait
    \/ ConnectBlock \/ ListenOpen \/ ListenBind \/ ListenAccept \/ ListenCallback
    \/ ListenStop \/ FindOpen \/ FindRoute \/ FindMask \/ OthersOpen \/ OthersClose
    \/ CallerClose \/ Transfer

SocketSpec == SocketInit /\ [][SocketNext]_net

-----------------------------------------------------------------------------
(* Every field holds a value of its type. *)
SocketTypeOK ==
    /\ net.owner \in [1..MaxFd -> Owners] /\ net.block \in [1..MaxFd -> BOOLEAN]
    /\ net.sock \in 0..MaxFd /\ net.server \in 0..MaxFd /\ net.client \in 0..MaxFd
    /\ net.link \in {"none", "pending", "up", "failed"}

(* However the calls interleave and whichever fails, no descriptor is lost    *)
(* and none is closed twice: each one belongs to a call in progress, to the   *)
(* caller or to the program, and nobody touches a number that has become      *)
(* someone else's (a listener that ended by itself and is stopped later may). *)
FdsAccounted ==
    LET Of(who) == {fd \in 1..MaxFd : net.owner[fd] = who} IN
    /\ Of("connect") = IF net.connect \in {"nonblock", "connecting", "waiting", "block"}
                       THEN {net.sock} ELSE {}
    /\ Of("caller") = IF net.connect = "done" /\ net.sock # 0 THEN {net.sock} ELSE {}
    /\ Of("listen") = IF net.listen \in {"bind", "accept", "callback"} THEN {net.server} ELSE {}
    /\ Of("client") = IF net.listen = "callback" THEN {net.client} ELSE {}
    /\ Of("find") = IF net.find \in {"route", "mask"} THEN {net.tmp} ELSE {}
    /\ Of("mask") = IF net.aux # 0 THEN {net.aux} ELSE {}
    /\ net.strays > 0 => net.stopped /\ ~net.shut

(* A socket that ks_socket_connect_ex gives to its caller is blocking, and    *)
(* connected; without a timeout also when connect() was interrupted or timed  *)
(* out, which ks_errno_is_blocking takes for a connection on its way.         *)
ConnectedOrInvalid ==
    net.connect = "done" /\ net.sock # 0 =>
        /\ net.block[net.sock]
        /\ net.link # "up" => ~net.timed /\ net.errno \in {"eintr", "etimedout"}

(* Both of the above. *)
SocketsSound == FdsAccounted /\ ConnectedOrInvalid
=============================================================================
