----------------------------- MODULE EchoPoll ------------------------------
(***************************************************************************)
(* The echo server of beej/poll.c.  It keeps the descriptors it watches in *)
(* the first pfd_count entries of an array, and poll writes into each      *)
(* entry what happened to it.  A connection is appended when accepted and, *)
(* when it ends, replaced by the last entry.  The array is not             *)
(* initialised and accepting does not set revents, so that the loop, which *)
(* also reaches entries appended in this round, can read a revents that    *)
(* poll never wrote for that descriptor.                                   *)
(***************************************************************************)
EXTENDS EchoNetwork, FiniteSets

CONSTANTS
    Capacity,     \* entries of pfds, 10 in the code
    SizeofPollfd  \* sizeof(struct pollfd)

ASSUME PollAssumption == Capacity \in Nat \ {0} /\ SizeofPollfd \in Nat \ {0}

VARIABLES
    fds,       \* the fd of each entry of pfds
    revents,   \* its revents: nothing, POLLIN or only POLLHUP
    count,     \* pfd_count
    i,         \* the entry the loop looks at
    pc,        \* poll, scan, send, dead, or overrun
    rcvd       \* pieces received and not yet sent back

server == <<fds, revents, count, i, pc, rcvd>>
vars == <<network, server>>

Entries == 0 .. Capacity - 1
Events  == {"none", "in", "hup"}
Unset   == ListenFd + 1   \* what an entry never written holds does not matter

TypeOK ==
    /\ NetworkTypeOK
    /\ fds \in [Entries -> Fds \cup {ListenFd, Unset}]
    /\ revents \in [Entries -> Events]
    /\ count \in 1 .. Capacity + 1
    /\ i \in 0 .. Capacity
    /\ pc \in {"poll", "scan", "send", "dead", "overrun"}
    /\ rcvd \in 0 .. Segments

\* The array is on the stack: its revents start with any value.
Init ==
    /\ NetworkInit
    /\ fds = [e \in Entries |-> IF e = 0 THEN ListenFd ELSE Unset]
    /\ revents \in [Entries -> Events]
    /\ count = 1
    /\ i = 0
    /\ pc = "poll"
    /\ rcvd = 0

-----------------------------------------------------------------------------
\* What poll reports of a descriptor.  Some systems report the end of a stream
\* with no data left as POLLHUP alone.
Reports(fd) ==
    IF ~Readable(fd) THEN {"none"}
    ELSE IF fd # ListenFd /\ AtEnd(fd) THEN {"in", "hup"} ELSE {"in"}

\* poll blocks until something happened to an entry.
Poll ==
    /\ pc = "poll"
    /\ \E e \in 0 .. count - 1 : Readable(fds[e])
    /\ revents' \in [Entries -> Events]
    /\ \A e \in Entries :
         IF e < count THEN revents'[e] \in Reports(fds[e]) ELSE revents'[e] = revents[e]
    /\ i' = 0
    /\ pc' = "scan"
    /\ UNCHANGED <<network, fds, count, rcvd>>

\* The loop is at entry i.
At(event)  == pc = "scan" /\ i < count /\ revents[i] = event
Connection == fds[i] # ListenFd

Skip ==
    /\ At("none")
    /\ i' = i + 1
    /\ UNCHANGED <<network, fds, revents, count, pc, rcvd>>

\* if (pfd_count == sizeof(pfds)) compares entries with bytes.
ArrayFull == count = Capacity * SizeofPollfd

\* ++pfd_count.  Mutant: it is missing.
SameCount == count
Counted   == count + 1

\* revents of the new entry keeps what it was.  Past the end of the array the
\* entry overwrites other memory, and the model stops; the branch that closes
\* the connection would only come later.
Accept ==
    /\ At("in") /\ ~Connection
    /\ IF ArrayFull
         THEN /\ backlog' = Tail(backlog)
              /\ UNCHANGED <<client, listening, peer, wire, inbox, reply, answered, reset>>
              /\ UNCHANGED <<fds, count, pc>>
         ELSE /\ \E connfd \in Fds :
                   /\ AcceptAs(connfd)
                   /\ fds' = [e \in Entries |-> IF e = count THEN connfd ELSE fds[e]]
              /\ count' = Counted
              /\ pc' = IF count = Capacity THEN "overrun" ELSE pc
    /\ i' = i + 1
    /\ UNCHANGED <<revents, rcvd>>

Receive ==
    /\ At("in") /\ Connection
    /\ \E n \in 1 .. Segments :
         /\ ReceiveSome(fds[i], n)
         /\ rcvd' = n
    /\ pc' = "send"
    /\ UNCHANGED <<fds, revents, count, i>>

\* recv returns -1: continue
ReceiveError ==
    /\ At("in") /\ Connection
    /\ ReceiveFails(fds[i])
    /\ i' = i + 1
    /\ UNCHANGED <<fds, revents, count, pc, rcvd>>

\* The entry that replaces a removed one.  Mutant: it is not replaced.
Itself    == i
LastEntry == count - 1

\* pfds[i] = pfds[pfd_count - 1], whole, and the loop goes on after it.
Remove ==
    /\ CloseFd(fds[i])
    /\ fds' = [fds EXCEPT ![i] = fds[LastEntry]]
    /\ revents' = [revents EXCEPT ![i] = revents[LastEntry]]
    /\ count' = count - 1
    /\ i' = i + 1
    /\ UNCHANGED <<pc, rcvd>>

\* recv returns 0
Hangup == At("in") /\ Connection /\ AtEnd(fds[i]) /\ Remove

\* POLLHUP without POLLIN: close without receiving
HangupEvent == At("hup") /\ Connection /\ Remove

\* Mutant: one byte more than was received.
EchoMore == SendBack(fds[i], rcvd + 1)
Echo     == SendBack(fds[i], rcvd)

\* The send that follows a Receive.  It may return -1: continue
Send ==
    /\ pc = "send"
    /\ Echo \/ SendFails(fds[i])
    /\ rcvd' = 0
    /\ i' = i + 1
    /\ pc' = "scan"
    /\ UNCHANGED <<fds, revents, count>>

SendToReset ==
    /\ pc = "send"
    /\ SendKills(fds[i])
    /\ pc' = "dead"
    /\ UNCHANGED <<fds, revents, count, i, rcvd>>

EndScan ==
    /\ pc = "scan" /\ i >= count
    /\ pc' = "poll"
    /\ UNCHANGED <<network, fds, revents, count, i, rcvd>>

Server ==
    \/ Poll \/ Skip \/ Accept \/ Receive \/ ReceiveError
    \/ Hangup \/ HangupEvent \/ Send \/ SendToReset \/ EndScan

Next == Server \/ (Environment /\ UNCHANGED server)

Spec == Init /\ [][Next]_vars

\* The fairness of EchoSelect: no client need connect, send or close.
FairSpec ==
    /\ Spec
    /\ WF_vars(Server)
    /\ \A c \in Clients :
         /\ WF_vars(Deliver(c) /\ UNCHANGED server)
         /\ WF_vars(ReceiveReply(c) /\ UNCHANGED server)

\* Besides, every client that connects goes through to its close.
BusySpec == FairSpec /\ \A c \in Clients :
    WF_vars((SendMessage(c) \/ Close(c)) /\ UNCHANGED server)

-----------------------------------------------------------------------------
(* Properties.                                                             *)

Watched == {fds[e] : e \in 0 .. count - 1}

\* Removing entries by swapping keeps the array in step with the connections:
\* the listening socket first, each connection once and nothing that is closed.
WatchesWhatIsOpen == pc \notin {"dead", "overrun"} =>
    /\ fds[0] = ListenFd
    /\ Watched = Open \cup {ListenFd}
    /\ Cardinality(Watched) = count

\* A client that has sent gets an answer or the end of its connection.  It does
\* where every client goes through to its close (BusySpec), although the loop
\* skips the entry that is moved into the place of a removed one.  It need not
\* where clients may stay silent (FairSpec): a revents that poll did not write
\* makes the loop call recv on a silent connection, which blocks it.
WaitingEnds == \A c \in Clients :
    client[c] = "receive" ~> client[c] # "receive"

\* "Limit number of sockets to 10": pfds holds Capacity descriptors.
LimitedToArray == count <= Capacity
=============================================================================
