---------------------------- MODULE EchoNetwork ----------------------------
(***************************************************************************)
(* The echo clients of beej/client.c, and the part of the kernel they and  *)
(* an echo server meet: the listen queue, the descriptors accept hands     *)
(* out, and one TCP stream per connection.  EchoSelect and EchoPoll extend *)
(* this module with a server.                                              *)
(*                                                                         *)
(* A client connects, sends one message, receives once, shuts down and     *)
(* closes.  TCP delivers the message in up to Segments pieces, and the     *)
(* data of a stream is the number of its pieces.  A send to a client that  *)
(* is gone, or a close with data unread, resets the connection.            *)
(***************************************************************************)
EXTENDS Naturals, Sequences

CONSTANTS
    Clients,    \* client processes
    Segments,   \* pieces the message of a client may arrive in
    ListenFd,   \* the descriptor the server listens on
    Fds,        \* the descriptors accept can return
    NoClient    \* the peer of a descriptor that is not open

ASSUME NetworkAssumption ==
    /\ Segments \in Nat \ {0}
    /\ ListenFd \in Nat
    /\ Fds \subseteq Nat \ (0 .. ListenFd)
    /\ NoClient \notin Clients

VARIABLES
    client,     \* what each client does next
    listening,  \* the server process exists
    backlog,    \* connections that wait to be accepted
    peer,       \* the client at the other end of each descriptor
    wire,       \* pieces sent by a client and still in the network
    inbox,      \* pieces the server can receive from a client
    reply,      \* pieces echoed to a client that it has not received
    answered,   \* clients that have received an echo
    reset       \* clients whose connection was reset: errors to report

network == <<client, listening, backlog, peer, wire, inbox, reply, answered, reset>>

NetworkTypeOK ==
    /\ client \in [Clients -> {"connect", "send", "receive", "close", "closed"}]
    /\ listening \in BOOLEAN
    /\ backlog \in Seq(Clients)
    /\ peer \in [Fds -> Clients \cup {NoClient}]
    /\ wire \in [Clients -> 0 .. Segments]
    /\ inbox \in [Clients -> 0 .. Segments]
    /\ reply \in [Clients -> 0 .. Segments]
    /\ answered \subseteq Clients
    /\ reset \in [Clients -> {"no", "pending", "reported"}]

NetworkInit ==
    /\ client = [c \in Clients |-> "connect"]
    /\ listening = TRUE
    /\ backlog = <<>>
    /\ peer = [fd \in Fds |-> NoClient]
    /\ wire = [c \in Clients |-> 0]
    /\ inbox = [c \in Clients |-> 0]
    /\ reply = [c \in Clients |-> 0]
    /\ answered = {}
    /\ reset = [c \in Clients |-> "no"]

-----------------------------------------------------------------------------
(* The clients.                                                            *)

Connected(c) == \E fd \in Fds : peer[fd] = c
Queued(c)    == \E i \in DOMAIN backlog : backlog[i] = c

Connect(c) ==
    /\ client[c] = "connect" /\ listening
    /\ client' = [client EXCEPT ![c] = "send"]
    /\ backlog' = Append(backlog, c)
    /\ UNCHANGED <<listening, peer, wire, inbox, reply, answered, reset>>

\* connect returns -1: exit(1)
ConnectRefused(c) ==
    /\ client[c] = "connect" /\ ~listening
    /\ client' = [client EXCEPT ![c] = "closed"]
    /\ UNCHANGED <<listening, backlog, peer, wire, inbox, reply, answered, reset>>

SendMessage(c) ==
    /\ client[c] = "send"
    /\ client' = [client EXCEPT ![c] = "receive"]
    /\ wire' = [wire EXCEPT ![c] = Segments]
    /\ UNCHANGED <<listening, backlog, peer, inbox, reply, answered, reset>>

\* recv() returns some of the echo, or 0 when the server has closed.
ReceiveReply(c) ==
    /\ client[c] = "receive"
    /\ \/ /\ reply[c] > 0
          /\ \E n \in 1 .. reply[c] : reply' = [reply EXCEPT ![c] = @ - n]
          /\ answered' = answered \cup {c}
       \/ /\ reply[c] = 0 /\ ~Connected(c) /\ ~Queued(c)
          /\ UNCHANGED <<reply, answered>>
    /\ client' = [client EXCEPT ![c] = "close"]
    /\ UNCHANGED <<listening, backlog, peer, wire, inbox, reset>>

\* shutdown() and close(), seen by the server after all of the message; what
\* was not received resets the connection.
Close(c) ==
    /\ client[c] = "close" /\ wire[c] = 0
    /\ client' = [client EXCEPT ![c] = "closed"]
    /\ reset' = [reset EXCEPT ![c] = IF reply[c] > 0 /\ Connected(c) THEN "pending" ELSE @]
    /\ reply' = [reply EXCEPT ![c] = 0]
    /\ UNCHANGED <<listening, backlog, peer, wire, inbox, answered>>

\* The network delivers pieces of the message, in order.
Deliver(c) ==
    /\ wire[c] > 0
    /\ \E n \in 1 .. wire[c] :
         /\ wire' = [wire EXCEPT ![c] = @ - n]
         /\ inbox' = [inbox EXCEPT ![c] = @ + n]
    /\ UNCHANGED <<client, listening, backlog, peer, reply, answered, reset>>

Client(c) ==
    \/ Connect(c) \/ ConnectRefused(c) \/ SendMessage(c) \/ ReceiveReply(c) \/ Close(c)
Environment == \E c \in Clients : Client(c) \/ Deliver(c)

-----------------------------------------------------------------------------
(* What the kernel does for the server.                                    *)

Open     == {fd \in Fds : peer[fd] # NoClient}
Ended(c) == client[c] = "closed" \/ reset[c] # "no"

\* A descriptor on which recv, or accept, would not block.
Readable(fd) ==
    IF fd = ListenFd THEN backlog # <<>>
    ELSE peer[fd] # NoClient /\ (inbox[peer[fd]] > 0 \/ Ended(peer[fd]))

\* accept: the oldest connection gets the lowest descriptor that is free.
AcceptAs(fd) ==
    /\ backlog # <<>>
    /\ fd \in Fds \ Open /\ \A other \in Fds \ Open : fd <= other
    /\ peer' = [peer EXCEPT ![fd] = Head(backlog)]
    /\ backlog' = Tail(backlog)
    /\ UNCHANGED <<client, listening, wire, inbox, reply, answered, reset>>

\* recv returns n > 0 pieces.
ReceiveSome(fd, n) ==
    /\ n \in 1 .. inbox[peer[fd]]
    /\ inbox' = [inbox EXCEPT ![peer[fd]] = @ - n]
    /\ UNCHANGED <<client, listening, backlog, peer, wire, reply, answered, reset>>

\* recv returns -1: a reset is reported at most once, when the data is used up.
ReceiveFails(fd) ==
    /\ inbox[peer[fd]] = 0 /\ reset[peer[fd]] = "pending"
    /\ reset' = [reset EXCEPT ![peer[fd]] = "reported"]
    /\ UNCHANGED <<client, listening, backlog, peer, wire, inbox, reply, answered>>

\* recv returns 0.
AtEnd(fd) == inbox[peer[fd]] = 0 /\ Ended(peer[fd])

CloseFd(fd) ==
    /\ peer' = [peer EXCEPT ![fd] = NoClient]
    /\ UNCHANGED <<client, listening, backlog, wire, inbox, reply, answered, reset>>

\* send of n pieces on a connection that was not reset; a client that has
\* closed answers with a reset.
SendBack(fd, n) ==
    LET c == peer[fd] IN
    /\ reset[c] = "no"
    /\ IF client[c] = "closed"
         THEN reset' = [reset EXCEPT ![c] = "pending"] /\ UNCHANGED reply
         ELSE reply' = [reply EXCEPT ![c] = @ + n] /\ UNCHANGED reset
    /\ UNCHANGED <<client, listening, backlog, peer, wire, inbox, answered>>

\* send returns -1: the reset is reported here.
SendFails(fd) ==
    /\ reset[peer[fd]] = "pending"
    /\ reset' = [reset EXCEPT ![peer[fd]] = "reported"]
    /\ UNCHANGED <<client, listening, backlog, peer, wire, inbox, reply, answered>>

\* send on a connection that was reset raises SIGPIPE, which nothing handles:
\* the process ends, and with it every connection and the listen queue.
SendKills(fd) ==
    /\ reset[peer[fd]] # "no"
    /\ listening' = FALSE
    /\ peer' = [f \in Fds |-> NoClient]
    /\ backlog' = <<>>
    /\ UNCHANGED <<client, wire, inbox, reply, answered, reset>>
=============================================================================
