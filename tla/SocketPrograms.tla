--------------------------- MODULE SocketPrograms ---------------------------
(***************************************************************************)
(* The socket programs of beej/ that serve one peer and end, and the UDP   *)
(* target of understanding_linux_kernel/networking/.  A program is a       *)
(* script: the sequence of its system calls, each with the error it tests  *)
(* for and what it closes before exit(1).                                  *)
(*                                                                         *)
(* The peers are external: one TCP client that sends, waits, shuts down,   *)
(* closes or resets, and senders of datagrams, which may be lost.  Data    *)
(* is counted in units; the buffer holds BufferSize of them.               *)
(***************************************************************************)
EXTENDS Integers, Sequences, FiniteSets, FiniteSetsExt

CONSTANTS
    BufferSize,   \* units in a buffer of 1024 bytes
    MaxRequest,   \* bound on the units a TCP client sends
    Sources,      \* where datagrams come from
    Garbage       \* what an uninitialised unit of a buffer holds

\* A unit that was sent is told from one that was not.
ASSUME SocketAssumption == BufferSize \in Nat /\ Garbage \notin Nat

VARIABLES
    script,       \* the calls of the server and of the client process
    proc,         \* each process: position, addrinfo list, descriptors, outcome
    tcpPeer,      \* the TCP client: what it has done
    sent, wire,   \* how many units it has sent; those not received yet
    buf, bytes,   \* the buffer of send_recv.c and the position in it
    reply,        \* units sent back
    datagrams,    \* datagrams waiting at the bound socket
    sentOnce,     \* sources that have sent their datagram
    answers       \* datagrams sent back, or printed

traffic == <<tcpPeer, sent, wire, buf, bytes, reply, datagrams, sentOnce, answers>>
socketVars == <<script, proc, traffic>>

-----------------------------------------------------------------------------
(* The scripts.                                                            *)

\* A call that is tested for every error, and then exits at once, closes the
\* socket first, or is tested for -1 only; and calls that cannot fail.
Try(call)     == [call |-> call, tests |-> "any", closes |-> FALSE]
Cleanly(call) == [call |-> call, tests |-> "any", closes |-> TRUE]
TryMinus1(call) == [call |-> call, tests |-> "-1", closes |-> FALSE]
Do(call)      == [call |-> call, tests |-> "none", closes |-> FALSE]

Socket  == <<Try("getaddrinfo"), Try("socket"), Do("close_sock")>>
Connect == <<Try("getaddrinfo"), Try("socket"), Try("connect"), Do("close_sock")>>

Bound == <<Try("getaddrinfo"), Try("socket"), Try("setsockopt"), Cleanly("bind")>>
Bind  == Bound \o <<Do("close_sock")>>

\* Mutant: the program goes from bind to accept.
Unheard == Bound \o <<Cleanly("accept")>>

Accepted == Bound \o <<Cleanly("listen"), Cleanly("accept")>>
ListenAccept == Accepted \o <<Do("close_conn"), Do("close_sock")>>
SendRecv == Accepted \o <<Do("recv_loop"), Do("send_loop"), Do("close_conn"), Do("close_sock")>>
SendtoRecvfrom == Bound \o <<Cleanly("recvfrom"), Cleanly("sendto"), Do("close_sock")>>

GetAddrInfo == <<Try("getaddrinfo"), Do("freeaddrinfo"), Try("getaddrinfo"), Do("freeaddrinfo")>>

TargetServer ==
    <<Try("getaddrinfo"), Try("socket"), Cleanly("setsockopt"), Cleanly("bind"),
      Try("recvfrom"), Do("print"), Do("freeaddrinfo"), Do("close_sock")>>
TargetClient ==
    <<Try("getaddrinfo"), Try("socket"), Cleanly("sendto"), Do("freeaddrinfo"), Do("close_sock")>>

\* What select.c and poll.c do before their loops.
LoopSetup ==
    <<TryMinus1("getaddrinfo"), Try("socket"), Try("setsockopt"), Try("bind"), Try("listen")>>

Programs ==
    {[server |-> s, client |-> <<>>] :
        s \in {Socket, Connect, Bind, ListenAccept, SendRecv, SendtoRecvfrom, GetAddrInfo, LoopSetup}}
    \cup {[server |-> TargetServer, client |-> TargetClient]}

Processes == {"server", "client"}
Fresh == [at |-> 1, addresses |-> "none", sock |-> "none", conn |-> "none", outcome |-> "running"]

TrafficInit ==
    /\ proc = [p \in Processes |-> Fresh]
    /\ tcpPeer = "absent" /\ sent = 0 /\ wire = <<>> /\ reply = <<>>
    /\ buf = [i \in 1 .. BufferSize |-> Garbage] /\ bytes = 0
    /\ datagrams = <<>> /\ sentOnce = {} /\ answers = {}

SocketInit == script \in Programs /\ TrafficInit

\* Nothing runs.
SocketsIdle == script = [server |-> <<>>, client |-> <<>>] /\ TrafficInit

-----------------------------------------------------------------------------
(* System calls that only concern the process itself.                      *)

Running(p) == proc[p].outcome = "running" /\ proc[p].at <= Len(script[p])
NextCall(p) == script[p][proc[p].at]
Calls(p, call) == Running(p) /\ NextCall(p).call = call

Proceeds(p, state) ==
    proc' = [proc EXCEPT ![p] = [state EXCEPT !.at = @ + 1,
                                 !.outcome = IF proc[p].at = Len(script[p]) THEN "done" ELSE @]]

Local(p) ==
    LET is == proc[p]
        After == [getaddrinfo |-> [is EXCEPT !.addresses = "found"],
                  freeaddrinfo |-> [is EXCEPT !.addresses = "freed"],
                  socket |-> [is EXCEPT !.sock = "made"],
                  setsockopt |-> is,
                  bind |-> [is EXCEPT !.sock = "bound"],
                  listen |-> [is EXCEPT !.sock = "listening"],
                  connect |-> [is EXCEPT !.sock = "connected"]]
    IN /\ Running(p) /\ NextCall(p).call \in DOMAIN After
       /\ is.addresses # "garbage"
       /\ Proceeds(p, After[NextCall(p).call])
       /\ UNCHANGED <<script, traffic>>

\* A call fails with an error that is tested for.
Fails(p) ==
    /\ Running(p) /\ NextCall(p).tests # "none" /\ proc[p].addresses # "garbage"
    /\ proc' = [proc EXCEPT ![p].outcome = "failed",
                            ![p].sock = IF NextCall(p).closes THEN "closed" ELSE @]
    /\ UNCHANGED <<script, traffic>>

\* getaddrinfo fails with an error other than -1: res is left uninitialised.
FailsUnnoticed(p) ==
    /\ Calls(p, "getaddrinfo") /\ NextCall(p).tests = "-1"
    /\ Proceeds(p, [proc[p] EXCEPT !.addresses = "garbage"])
    /\ UNCHANGED <<script, traffic>>

\* socket(res->ai_family, ...) of an uninitialised res.
Undefined(p) ==
    /\ Running(p) /\ proc[p].addresses = "garbage"
    /\ proc' = [proc EXCEPT ![p].outcome = "undefined"]
    /\ UNCHANGED <<script, traffic>>

Closed(p, fd) == IF fd = "sock" THEN [proc[p] EXCEPT !.sock = "closed"]
                                ELSE [proc[p] EXCEPT !.conn = "closed"]

\* close(sockfd), close(connfd); data not received by then resets the connection.
Close(p) ==
    \E fd \in {"sock", "conn"} :
       /\ Calls(p, IF fd = "sock" THEN "close_sock" ELSE "close_conn")
       /\ Proceeds(p, Closed(p, fd))
       /\ tcpPeer' = IF fd = "conn" /\ wire # <<>> THEN "reset" ELSE tcpPeer
       /\ UNCHANGED <<script, sent, wire, buf, bytes, reply, datagrams, sentOnce, answers>>

-----------------------------------------------------------------------------
(* The TCP client, and the calls that meet it.                             *)

PeerConnects ==
    /\ tcpPeer = "absent" /\ proc["server"].sock = "listening"
    /\ tcpPeer' = "sending"
    /\ UNCHANGED <<script, sent, proc, wire, buf, bytes, reply, datagrams, sentOnce, answers>>

PeerSends ==
    /\ tcpPeer = "sending" /\ sent < MaxRequest
    /\ sent' = sent + 1 /\ wire' = Append(wire, sent + 1)
    /\ UNCHANGED <<script, proc, tcpPeer, buf, bytes, reply, datagrams, sentOnce, answers>>

\* It waits for the answer, shuts its side down, closes or resets.
PeerStops(how) ==
    /\ tcpPeer = "sending"
    /\ tcpPeer' = how
    /\ wire' = IF how = "reset" THEN <<>> ELSE wire
    /\ UNCHANGED <<script, sent, proc, buf, bytes, reply, datagrams, sentOnce, answers>>

Accept ==
    /\ Calls("server", "accept") /\ tcpPeer # "absent"
    /\ Proceeds("server", [proc["server"] EXCEPT !.conn = "connected"])
    /\ UNCHANGED <<script, traffic>>

\* buf+bytes: where recv puts the first n units of the wire.
Received(n) ==
    [i \in 1 .. BufferSize |-> IF i \in bytes + 1 .. bytes + n THEN wire[i - bytes] ELSE buf[i]]

\* recv returns n units; the loop ends when the buffer is full.
RecvSome ==
    /\ Calls("server", "recv_loop")
    /\ \E n \in 1 .. Min({Len(wire), BufferSize - bytes}) :
         /\ buf' = Received(n)
         /\ wire' = SubSeq(wire, n + 1, Len(wire))
         /\ IF bytes + n < BufferSize
              THEN bytes' = bytes + n /\ UNCHANGED proc
              ELSE bytes' = 0 /\ Proceeds("server", proc["server"])
    /\ UNCHANGED <<script, sent, tcpPeer, reply, datagrams, sentOnce, answers>>

\* Mutant: the end of the stream is not noticed: recv returns 0 again and again.
EndsOnReset ==
    /\ Calls("server", "recv_loop")
    /\ wire = <<>> /\ tcpPeer = "reset"
    /\ bytes' = 0
    /\ Proceeds("server", proc["server"])
    /\ UNCHANGED <<script, sent, tcpPeer, wire, buf, reply, datagrams, sentOnce, answers>>

\* recv returns 0, or -1 after a reset: the loop ends and bytes = 0.
RecvEnds ==
    /\ Calls("server", "recv_loop")
    /\ wire = <<>> /\ tcpPeer \in {"shutdown", "closed", "reset"}
    /\ bytes' = 0
    /\ Proceeds("server", proc["server"])
    /\ UNCHANGED <<script, sent, tcpPeer, wire, buf, reply, datagrams, sentOnce, answers>>

\* send accepts n more units of the buffer; a client that closed answers with a
\* reset.
SendSome ==
    /\ Calls("server", "send_loop") /\ tcpPeer # "reset"
    /\ \E n \in 1 .. BufferSize - bytes :
         /\ reply' = IF tcpPeer = "closed" THEN reply ELSE reply \o SubSeq(buf, bytes + 1, bytes + n)
         /\ bytes' = bytes + n
         /\ IF bytes + n < BufferSize THEN UNCHANGED proc ELSE Proceeds("server", proc["server"])
    /\ tcpPeer' = IF tcpPeer = "closed" THEN "reset" ELSE tcpPeer
    /\ UNCHANGED <<script, sent, wire, buf, datagrams, sentOnce, answers>>

\* send to a connection that was reset returns -1, which ends the loop, or
\* raises SIGPIPE.
SendFails ==
    /\ Calls("server", "send_loop") /\ tcpPeer = "reset"
    /\ \/ Proceeds("server", proc["server"])
       \/ proc' = [proc EXCEPT !["server"].outcome = "killed"]
    /\ UNCHANGED <<script, traffic>>

-----------------------------------------------------------------------------
(* Datagrams.                                                              *)

Arrives(datagram) ==
    IF proc["server"].sock = "bound" THEN Append(datagrams, datagram) ELSE datagrams

\* A source sends one datagram of any length; it may be lost, and is lost if
\* the socket is not bound.
DatagramSent(source) ==
    /\ source \notin sentOnce /\ script["server"] = SendtoRecvfrom
    /\ sentOnce' = sentOnce \cup {source}
    /\ \E length \in {0, BufferSize, BufferSize + 1} :
         datagrams' \in {datagrams, Arrives([from |-> source, length |-> length])}
    /\ UNCHANGED <<script, sent, proc, tcpPeer, wire, buf, bytes, reply, answers>>

\* recvfrom takes the first datagram and cuts it off at the size of the buffer.
RecvFrom ==
    /\ Calls("server", "recvfrom") /\ datagrams # <<>>
    /\ datagrams' = <<[Head(datagrams) EXCEPT !.length = Min({@, BufferSize})]>> \o Tail(datagrams)
    /\ Proceeds("server", proc["server"])
    /\ UNCHANGED <<script, sent, tcpPeer, wire, buf, bytes, reply, sentOnce, answers>>

\* sendto the sender, with the length received; fwrite to stdout.
Answer ==
    /\ Calls("server", "sendto") \/ Calls("server", "print")
    /\ answers' = answers \cup {Head(datagrams)}
    /\ datagrams' = Tail(datagrams)
    /\ Proceeds("server", proc["server"])
    /\ UNCHANGED <<script, sent, tcpPeer, wire, buf, bytes, reply, sentOnce>>

\* The client of target.c sends to the server's port, bound or not.
ClientSends ==
    /\ Calls("client", "sendto")
    /\ datagrams' \in {datagrams, Arrives([from |-> "client", length |-> 1])}
    /\ Proceeds("client", proc["client"])
    /\ UNCHANGED <<script, sent, tcpPeer, wire, buf, bytes, reply, sentOnce, answers>>

-----------------------------------------------------------------------------
Step(p) == Local(p) \/ Fails(p) \/ FailsUnnoticed(p) \/ Undefined(p) \/ Close(p)
Serve == Accept \/ RecvSome \/ RecvEnds \/ SendSome \/ SendFails \/ RecvFrom \/ Answer
Peers ==
    \/ PeerConnects \/ PeerSends \/ ClientSends
    \/ \E how \in {"waiting", "shutdown", "closed", "reset"} : PeerStops(how)
    \/ \E source \in Sources : DatagramSent(source)

SocketNext == (\E p \in Processes : Step(p)) \/ Serve \/ Peers

-----------------------------------------------------------------------------
(* What the programs keep.                                                 *)

\* What a call needs of the descriptors and addresses of its process.
Needs(p) ==
    LET is == proc[p]
        listed == is.addresses = "found"
    IN CASE NextCall(p).call \in {"socket", "freeaddrinfo"}   -> listed
         [] NextCall(p).call \in {"bind", "connect"}          -> listed /\ is.sock = "made"
         [] NextCall(p).call = "setsockopt"                   -> is.sock = "made"
         [] NextCall(p).call \in {"listen", "recvfrom", "print"} -> is.sock = "bound"
         [] NextCall(p).call = "sendto"                       -> is.sock # "none"
         [] NextCall(p).call = "accept"                       -> is.sock = "listening"
         [] NextCall(p).call \in {"recv_loop", "send_loop", "close_conn"} -> is.conn = "connected"
         [] NextCall(p).call = "close_sock"                   -> is.sock \notin {"none", "closed"}
         [] OTHER                                             -> TRUE

\* Every call finds its socket, its connection and its address list in the
\* state it needs, unless getaddrinfo failed with a code the program does not
\* test for; a program that comes to its end has closed what it opened.
CallsInOrder ==
    \A p \in Processes :
       /\ Running(p) => Needs(p) \/ proc[p].addresses = "garbage"
       /\ proc[p].outcome = "undefined" => script[p] = LoopSetup
       /\ proc[p].outcome = "done" /\ script[p] # LoopSetup =>
             proc[p].sock \in {"none", "closed"} /\ proc[p].conn \in {"none", "closed"}

\* send_recv.c sends back what it received, in order, padded to the buffer with
\* what was in it; a datagram is answered once, to its sender, with at most a
\* buffer of it.
RepliesEcho ==
    /\ \A i \in DOMAIN reply : reply[i] \in {i, Garbage}
    /\ \A i, j \in DOMAIN reply : i < j /\ reply[i] = Garbage => reply[j] = Garbage
    /\ Cardinality(answers) <= 1
    /\ \A datagram \in answers :
          datagram.length <= BufferSize /\ datagram.from \in sentOnce \cup {"client"}

SocketsInOrder == CallsInOrder /\ RepliesEcho

\* The server waits for something only its peer can do: connect, send a
\* datagram, or send more of a request that is shorter than the buffer and shut
\* down.  A client that waits for its answer first is never answered.
WaitsForPeer ==
    \/ Calls("server", "accept") /\ tcpPeer = "absent"
    \/ Calls("server", "recvfrom") /\ datagrams = <<>>
    \/ /\ Calls("server", "recv_loop") /\ tcpPeer \in {"sending", "waiting"}
       /\ wire = <<>> /\ bytes < BufferSize

\* A server comes to an end, or waits forever for its peer.
ServersEnd == <>[](~Running("server") \/ WaitsForPeer)

SocketFairness == WF_socketVars(Step("server")) /\ WF_socketVars(Serve)
=============================================================================
