---------------------------- MODULE EchoSelect -----------------------------
(***************************************************************************)
(* The echo server of beej/select.c.  It keeps the descriptors it watches  *)
(* in `master' and the highest of them in `max'; select replaces a copy,   *)
(* `readfds', by the descriptors that are ready, and the loop over i       *)
(* serves them in ascending order: it accepts on the listening one,        *)
(* receives on the others and sends back what it received.                 *)
(***************************************************************************)
EXTENDS EchoNetwork, FiniteSets

VARIABLES
    master,   \* the descriptors to watch
    readfds,  \* those that select found ready
    max,      \* the highest descriptor watched so far
    i,        \* the descriptor the loop looks at next
    pc,       \* select, scan, send, or dead
    rcvd      \* pieces received and not yet sent back

server == <<master, readfds, max, i, pc, rcvd>>
vars == <<network, server>>

AllFds == Fds \cup {ListenFd}

TypeOK ==
    /\ NetworkTypeOK
    /\ master \subseteq AllFds
    /\ readfds \subseteq AllFds
    /\ max \in AllFds
    /\ i \in Nat
    /\ pc \in {"select", "scan", "send", "dead"}
    /\ rcvd \in 0 .. Segments

Init ==
    /\ NetworkInit
    /\ master = {ListenFd}
    /\ readfds = {}
    /\ max = ListenFd
    /\ i = 0
    /\ pc = "select"
    /\ rcvd = 0

-----------------------------------------------------------------------------
\* What select makes of readfds.  Mutant: FD_COPY does not clear it first.
Ready    == {fd \in master : fd <= max /\ Readable(fd)}
KeptOld  == readfds \cup Ready
Replaced == Ready

\* FD_COPY and select, which blocks until a watched descriptor is ready.
Select ==
    /\ pc = "select" /\ Ready # {}
    /\ readfds' = Replaced
    /\ i' = 0
    /\ pc' = "scan"
    /\ UNCHANGED <<network, master, max, rcvd>>

\* The loop serves fd next.
Due == {fd \in readfds : i <= fd /\ fd <= max}
Serves(fd) == pc = "scan" /\ fd \in Due /\ \A other \in Due : fd <= other

\* max after accepting fd.  Mutant: it is not updated.
SameMax(fd)   == max
RaisedMax(fd) == IF fd > max THEN fd ELSE max

Accept ==
    /\ Serves(ListenFd)
    /\ \E connfd \in Fds :
         /\ AcceptAs(connfd)
         /\ master' = master \cup {connfd}
         /\ max' = RaisedMax(connfd)
    /\ i' = ListenFd + 1
    /\ UNCHANGED <<readfds, pc, rcvd>>

Receive(fd) ==
    /\ Serves(fd) /\ fd # ListenFd
    /\ \E n \in 1 .. Segments :
         /\ ReceiveSome(fd, n)
         /\ rcvd' = n
    /\ pc' = "send"
    /\ UNCHANGED <<master, readfds, max, i>>

\* recv returns -1: continue
ReceiveError(fd) ==
    /\ Serves(fd) /\ fd # ListenFd
    /\ ReceiveFails(fd)
    /\ i' = fd + 1
    /\ UNCHANGED <<master, readfds, max, pc, rcvd>>

\* FD_CLR(fd, &master).  Mutant: fd stays.
Uncleared(fd) == master
Cleared(fd)   == master \ {fd}

\* Mutant: rcvd == 0 is not handled, and nothing is sent back.
HangupUnnoticed(fd) ==
    /\ Serves(fd) /\ fd # ListenFd
    /\ AtEnd(fd)
    /\ pc' = "send"
    /\ UNCHANGED <<network, master, readfds, max, i, rcvd>>

\* recv returns 0: close and FD_CLR
Hangup(fd) ==
    /\ Serves(fd) /\ fd # ListenFd
    /\ AtEnd(fd)
    /\ CloseFd(fd)
    /\ master' = Cleared(fd)
    /\ i' = fd + 1
    /\ UNCHANGED <<readfds, max, pc, rcvd>>

\* The send that follows a Receive.
Sends(fd) == pc = "send" /\ fd \in Due /\ \A other \in Due : fd <= other

\* Mutants: one byte more than was received; only the first piece.
EchoMore(fd)  == SendBack(fd, rcvd + 1)
EchoFirst(fd) == SendBack(fd, 1)
Echo(fd)      == SendBack(fd, rcvd)

\* It may return -1: continue
Send(fd) ==
    /\ Sends(fd)
    /\ Echo(fd) \/ SendFails(fd)
    /\ rcvd' = 0
    /\ i' = fd + 1
    /\ pc' = "scan"
    /\ UNCHANGED <<master, readfds, max>>

SendToReset(fd) ==
    /\ Sends(fd)
    /\ SendKills(fd)
    /\ pc' = "dead"
    /\ UNCHANGED <<master, readfds, max, i, rcvd>>

EndScan ==
    /\ pc = "scan" /\ Due = {}
    /\ pc' = "select"
    /\ UNCHANGED <<network, master, readfds, max, i, rcvd>>

Server ==
    \/ Select \/ Accept \/ EndScan
    \/ \E fd \in Fds :
         Receive(fd) \/ ReceiveError(fd) \/ Hangup(fd) \/ Send(fd) \/ SendToReset(fd)

Next == Server \/ (Environment /\ UNCHANGED server)

Spec == Init /\ [][Next]_vars

\* The server process and the network make progress, and a client waiting for
\* its echo receives it.  No client need connect, send or close.
FairSpec ==
    /\ Spec
    /\ WF_vars(Server)
    /\ \A c \in Clients :
         /\ WF_vars(Deliver(c) /\ UNCHANGED server)
         /\ WF_vars(ReceiveReply(c) /\ UNCHANGED server)

-----------------------------------------------------------------------------
(* Properties.                                                             *)

\* The server watches exactly what is open: a connection that is not watched
\* would never be answered, and a closed descriptor makes select fail, at
\* which the server exits.
WatchesWhatIsOpen == pc # "dead" =>
    /\ master = Open \cup {ListenFd}
    /\ \A fd \in master : fd <= max

\* No call of the loop blocks: what readfds says is still true when the loop
\* gets there, although descriptors were accepted and closed before.
NeverBlocks == pc = "scan" => \A fd \in Due : Readable(fd)

\* Nothing is lost, added or sent to another client: while a client waits, each
\* piece of its message is in the network, with the server or echoed to it.
EchoConserved == \A c \in Clients :
    client[c] = "receive" /\ Connected(c) =>
        wire[c] + inbox[c] + reply[c]
          + (IF pc = "send" /\ \E fd \in Fds : Sends(fd) /\ peer[fd] = c THEN rcvd ELSE 0)
        = Segments

\* SIGPIPE kills the process only while it sends back a piece of the message
\* of a client that closed after it had received another piece: a client that
\* receives its whole echo, or closes between two pieces, cannot.
DiesOnlyOfEarlyClose == pc = "dead" =>
    rcvd > 0 /\ \E c \in answered : client[c] = "closed" /\ reset[c] # "no"

\* A client that has sent gets an answer, even when others connect and stay
\* silent, unless the process is killed.
EveryClientAnswered == \A c \in Clients :
    client[c] = "receive" ~> (c \in answered \/ pc = "dead")
=============================================================================
