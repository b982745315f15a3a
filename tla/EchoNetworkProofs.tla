------------------------- MODULE EchoNetworkProofs -------------------------
(***************************************************************************)
(* What the clients and the kernel preserve, whatever server they meet:    *)
(* lemmas about each action of EchoNetwork for the proofs about EchoSelect *)
(* and EchoPoll.                                                           *)
(***************************************************************************)
EXTENDS EchoNetwork, SequenceTheorems, TLAPS

\* NetworkTypeOK without the bound on the pieces in each place, which Pieces
\* gives.
NetTypes ==
    /\ client \in [Clients -> {"connect", "send", "receive", "close", "closed"}]
    /\ listening \in BOOLEAN
    /\ backlog \in Seq(Clients)
    /\ peer \in [Fds -> Clients \cup {NoClient}]
    /\ wire \in [Clients -> Nat] /\ inbox \in [Clients -> Nat] /\ reply \in [Clients -> Nat]
    /\ answered \subseteq Clients
    /\ reset \in [Clients -> {"no", "pending", "reported"}]

\* A client connects once: it waits in the listen queue, or is at one
\* descriptor.
OneConnection ==
    /\ \A c \in Clients : client[c] = "connect" => ~Queued(c) /\ ~Connected(c)
    /\ \A j, k \in DOMAIN backlog : backlog[j] = backlog[k] => j = k
    /\ \A c \in Clients : Queued(c) => ~Connected(c)
    /\ \A f, g \in Fds : peer[f] = peer[g] /\ peer[f] # NoClient => f = g

\* The server has not closed what it or the kernel holds of the connection.
Live(c) == Connected(c) \/ Queued(c)

\* A client stops waiting once it is answered or its connection is closed, so
\* that only an answered client that has closed can meet a reset.
AnsweredFirst == \A c \in Clients :
    /\ client[c] \in {"close", "closed"} /\ Live(c) => c \in answered
    /\ reset[c] # "no" => client[c] = "closed" /\ c \in answered

NetIInv == NetTypes /\ OneConnection /\ AnsweredFirst

\* Where the pieces of a client's message are; held is what the server has
\* received from each client and not sent back.
Tally(c, held) == wire[c] + inbox[c] + reply[c] + held[c]

Pieces(held) == \A c \in Clients :
    /\ Tally(c, held) <= Segments
    /\ client[c] \in {"connect", "send"} => Tally(c, held) = 0
    /\ client[c] = "receive" /\ Live(c) => Tally(c, held) = Segments

\* What a server that sees nothing of the others' steps can rely on.
Patience ==
    /\ UNCHANGED <<listening, peer>>
    /\ backlog # <<>> => backlog' # <<>>
    /\ answered \subseteq answered'
    /\ \A c \in Clients :
         /\ client[c] = "closed" => client'[c] = "closed"
         /\ reset[c] # "no" => reset'[c] # "no"
         /\ inbox[c] <= inbox'[c]

-----------------------------------------------------------------------------
\* No client is connected at first.
LEMMA NetworkInitial == ASSUME NetworkInit PROVE NetIInv
<1> USE NetworkAssumption DEF NetworkInit
<1>1. backlog \in Seq(Clients) /\ DOMAIN backlog = {}
  BY EmptySeq
<1>2. \A c \in Clients : ~Queued(c) /\ ~Connected(c)
  BY <1>1 DEF Queued, Connected
<1>3. NetTypes /\ OneConnection
  BY <1>1, <1>2 DEF NetTypes, OneConnection
<1>4. AnsweredFirst
  BY DEF AnsweredFirst
<1> QED
  BY <1>3, <1>4 DEF NetIInv

LEMMA PiecesInitial ==
    ASSUME NetworkInit, NEW held \in [Clients -> {0}]
    PROVE  Pieces(held)
<1>1. \A c \in Clients : wire[c] = 0 /\ inbox[c] = 0 /\ reply[c] = 0 /\ held[c] = 0 /\ client[c] = "connect"
  BY DEF NetworkInit
<1>2. ASSUME NEW c \in Clients PROVE Tally(c, held) = 0
  <2>1. wire[c] = 0 /\ inbox[c] = 0 /\ reply[c] = 0 /\ held[c] = 0
    BY <1>1
  <2> QED
    BY <2>1 DEF Tally
<1>3. ASSUME NEW c \in Clients
      PROVE  /\ Tally(c, held) <= Segments
             /\ client[c] \in {"connect", "send"} => Tally(c, held) = 0
             /\ client[c] = "receive" /\ Live(c) => Tally(c, held) = Segments
  <2>1. Tally(c, held) = 0 /\ Segments \in Nat
    BY <1>2, NetworkAssumption
  <2>2. Tally(c, held) <= Segments
    BY <2>1
  <2> QED
    BY <1>1, <2>1, <2>2
<1> QED
  BY <1>3 DEF Pieces

\* Descriptors are numbers above that of the listening socket.
LEMMA DescriptorNumbers ==
    /\ ListenFd \in Nat /\ ListenFd \notin Fds
    /\ \A fd \in Fds : fd \in Nat /\ fd > ListenFd
BY NetworkAssumption

\* The pieces in one place are at most those of the message.
LEMMA PiecesBound ==
    ASSUME NetTypes, NEW held \in [Clients -> Nat], Pieces(held)
    PROVE  NetworkTypeOK
<1>1. \A c \in Clients : wire[c] \in 0 .. Segments /\ inbox[c] \in 0 .. Segments /\ reply[c] \in 0 .. Segments
  <2> TAKE c \in Clients
  <2>1. wire[c] \in Nat /\ inbox[c] \in Nat /\ reply[c] \in Nat /\ held[c] \in Nat /\ Segments \in Nat
    BY NetworkAssumption DEF NetTypes
  <2>2. wire[c] + inbox[c] + reply[c] + held[c] <= Segments
    BY DEF Pieces, Tally
  <2> QED
    BY <2>1, <2>2
<1>2. /\ wire \in [Clients -> 0 .. Segments] /\ inbox \in [Clients -> 0 .. Segments]
      /\ reply \in [Clients -> 0 .. Segments]
  BY <1>1 DEF NetTypes
<1> QED
  BY <1>2 DEF NetTypes, NetworkTypeOK

\* Where nothing is, nothing is in any part.
LEMMA NothingAnywhere ==
    ASSUME NEW a \in Nat, NEW b \in Nat, NEW c \in Nat, NEW d \in Nat, a + b + c + d = 0
    PROVE  a = 0 /\ b = 0 /\ c = 0 /\ d = 0
OBVIOUS

\* Pieces that only change place, or are dropped with their connection, still
\* add up.
LEMMA PiecesMove ==
    ASSUME NetTypes, NetTypes', UNCHANGED client,
           NEW h \in [Clients -> Nat], NEW k \in [Clients -> Nat], Pieces(h),
           \A c \in Clients : Live(c)' => Live(c),
           \A c \in Clients :
             \/ wire'[c] + inbox'[c] + reply'[c] + k[c] = wire[c] + inbox[c] + reply[c] + h[c]
             \/ /\ wire'[c] + inbox'[c] + reply'[c] + k[c] <= wire[c] + inbox[c] + reply[c] + h[c]
                /\ ~(client[c] = "receive" /\ Live(c)')
    PROVE  Pieces(k)'
<1> SUFFICES ASSUME NEW c \in Clients
             PROVE  /\ Tally(c, k)' <= Segments
                    /\ client'[c] \in {"connect", "send"} => Tally(c, k)' = 0
                    /\ client'[c] = "receive" /\ Live(c)' => Tally(c, k)' = Segments
  BY DEF Pieces
<1> DEFINE now == wire[c] + inbox[c] + reply[c] + h[c]
           new == wire'[c] + inbox'[c] + reply'[c] + k[c]
<1>1. now \in Nat /\ new \in Nat /\ Segments \in Nat
  BY NetworkAssumption DEF NetTypes
<1>2. now = Tally(c, h) /\ new = Tally(c, k)'
  BY DEF Tally
<1>3. /\ now <= Segments
      /\ client[c] \in {"connect", "send"} => now = 0
      /\ client[c] = "receive" /\ Live(c) => now = Segments
  BY <1>2 DEF Pieces
<1>4. new = now \/ (new <= now /\ ~(client[c] = "receive" /\ Live(c)'))
  OBVIOUS
<1> HIDE DEF now, new
<1>5. new <= Segments
  BY <1>1, <1>3, <1>4
<1>6. client'[c] \in {"connect", "send"} => new = 0
  BY <1>1, <1>3, <1>4
<1>7. client'[c] = "receive" /\ Live(c)' => new = Segments
  BY <1>1, <1>3, <1>4
<1> QED
  BY <1>2, <1>5, <1>6, <1>7

-----------------------------------------------------------------------------
(* Clients and the network.                                                *)

\* A client connects before it is queued or accepted anywhere.
LEMMA ConnectKeepsNetwork ==
    ASSUME NetIInv, NEW c \in Clients, Connect(c)
    PROVE  /\ NetIInv' /\ Patience
           /\ \A held \in [Clients -> Nat] : Pieces(held) => Pieces(held)'
<1>1. /\ client[c] = "connect" /\ client' = [client EXCEPT ![c] = "send"]
      /\ backlog' = Append(backlog, c)
      /\ UNCHANGED <<listening, peer, wire, inbox, reply, answered, reset>>
  BY DEF Connect
<1>2. backlog \in Seq(Clients) /\ client \in [Clients -> {"connect", "send", "receive", "close", "closed"}]
  BY DEF NetIInv, NetTypes
<1>3. /\ backlog' \in Seq(Clients) /\ Len(backlog') = Len(backlog) + 1 /\ Len(backlog) \in Nat
      /\ \A k \in 1 .. Len(backlog) : backlog'[k] = backlog[k]
      /\ backlog'[Len(backlog) + 1] = c
      /\ DOMAIN backlog = 1 .. Len(backlog) /\ DOMAIN backlog' = 1 .. Len(backlog) + 1
  BY <1>1, <1>2, AppendProperties, LenProperties
<1>4. NetTypes'
  BY <1>1, <1>2, <1>3 DEF NetIInv, NetTypes
<1>5. ~Queued(c) /\ ~Connected(c)
  BY <1>1 DEF NetIInv, OneConnection
<1>6. \A d \in Clients : (Queued(d)' => Queued(d) \/ d = c) /\ (Connected(d)' <=> Connected(d))
  BY <1>1, <1>3 DEF Queued, Connected
<1>7. client'[c] = "send" /\ \A d \in Clients \ {c} : client'[d] = client[d]
  BY <1>1, <1>2
<1>8. OneConnection'
  <2>1. \A j, k \in DOMAIN backlog' : backlog'[j] = backlog'[k] => j = k
    BY <1>3, <1>5 DEF NetIInv, OneConnection, Queued
  <2>2. \A d \in Clients : client'[d] = "connect" => client[d] = "connect" /\ d # c
    BY <1>1, <1>7
  <2> QED
    BY <1>1, <1>5, <1>6, <2>1, <2>2 DEF NetIInv, OneConnection
<1>9. AnsweredFirst'
  BY <1>1, <1>6, <1>7 DEF NetIInv, AnsweredFirst, Live
<1>10. Patience
  <2>1. \A d \in Clients : inbox[d] <= inbox'[d]
    BY <1>1 DEF NetIInv, NetTypes
  <2>2. backlog' # <<>>
    BY <1>3, EmptySeq
  <2>3. \A d \in Clients : client[d] = "closed" => client'[d] = "closed"
    BY <1>1, <1>7
  <2> QED
    BY <1>1, <2>1, <2>2, <2>3 DEF Patience
<1>11. ASSUME NEW held \in [Clients -> Nat], Pieces(held) PROVE Pieces(held)'
  <2>1. \A d \in Clients : Tally(d, held)' = Tally(d, held)
    BY <1>1 DEF Tally
  <2> QED
    BY <1>1, <1>6, <1>7, <1>11, <2>1 DEF Pieces, Live
<1> QED
  BY <1>4, <1>8, <1>9, <1>10, <1>11 DEF NetIInv

\* While the queue and the connections stay, so does who is connected where.
LEMMA SameConnections ==
    ASSUME NetIInv, UNCHANGED <<backlog, peer>>,
           \A c \in Clients : client'[c] = "connect" => client[c] = "connect"
    PROVE  OneConnection' /\ \A c \in Clients : Live(c)' <=> Live(c)
BY DEF NetIInv, OneConnection, Live, Queued, Connected

LEMMA ConnectRefusedKeepsNetwork ==
    ASSUME NetIInv, NEW c \in Clients, ConnectRefused(c)
    PROVE  /\ NetIInv' /\ Patience
           /\ \A held \in [Clients -> Nat] : Pieces(held) => Pieces(held)'
<1>1. /\ client[c] = "connect" /\ client' = [client EXCEPT ![c] = "closed"]
      /\ UNCHANGED <<listening, backlog, peer, wire, inbox, reply, answered, reset>>
  BY DEF ConnectRefused
<1>2. NetTypes'
  BY <1>1 DEF NetIInv, NetTypes
<1>3. client'[c] = "closed" /\ \A d \in Clients \ {c} : client'[d] = client[d]
  BY <1>1 DEF NetIInv, NetTypes
<1>4. OneConnection' /\ \A d \in Clients : Live(d)' <=> Live(d)
  BY <1>1, <1>3, SameConnections
<1>5. AnsweredFirst'
  BY <1>1, <1>3, <1>4 DEF NetIInv, AnsweredFirst, Live, OneConnection
<1>6. Patience
  BY <1>1, <1>3, NetworkAssumption DEF Patience, NetIInv, NetTypes
<1>7. ASSUME NEW held \in [Clients -> Nat], Pieces(held) PROVE Pieces(held)'
  <2>1. \A d \in Clients : Tally(d, held)' = Tally(d, held)
    BY <1>1 DEF Tally
  <2> QED
    BY <1>1, <1>3, <1>4, <1>7, <2>1 DEF Pieces
<1> QED
  BY <1>2, <1>4, <1>5, <1>6, <1>7 DEF NetIInv

\* All of the message is in the network.
LEMMA SendMessageKeepsNetwork ==
    ASSUME NetIInv, NEW c \in Clients, SendMessage(c)
    PROVE  /\ NetIInv' /\ Patience
           /\ \A held \in [Clients -> Nat] : Pieces(held) => Pieces(held)'
<1>1. /\ client[c] = "send" /\ client' = [client EXCEPT ![c] = "receive"]
      /\ wire' = [wire EXCEPT ![c] = Segments]
      /\ UNCHANGED <<listening, backlog, peer, inbox, reply, answered, reset>>
  BY DEF SendMessage
<1>2. NetTypes'
  BY <1>1, NetworkAssumption DEF NetIInv, NetTypes
<1>3. client'[c] = "receive" /\ \A d \in Clients \ {c} : client'[d] = client[d] /\ wire'[d] = wire[d]
  BY <1>1 DEF NetIInv, NetTypes
<1>4. OneConnection' /\ \A d \in Clients : Live(d)' <=> Live(d)
  BY <1>1, <1>3, SameConnections
<1>5. AnsweredFirst'
  BY <1>1, <1>3, <1>4 DEF NetIInv, AnsweredFirst
<1>6. Patience
  BY <1>1, <1>3, NetworkAssumption DEF Patience, NetIInv, NetTypes
<1>7. ASSUME NEW held \in [Clients -> Nat], Pieces(held) PROVE Pieces(held)'
  <2>1. \A d \in Clients \ {c} : Tally(d, held)' = Tally(d, held)
    BY <1>1, <1>3 DEF Tally
  <2>2. Tally(c, held)' = Segments
    <3>1. wire[c] \in Nat /\ inbox[c] \in Nat /\ reply[c] \in Nat /\ held[c] \in Nat
      BY DEF NetIInv, NetTypes
    <3>2. wire[c] + inbox[c] + reply[c] + held[c] = 0
      BY <1>1, <1>7 DEF Pieces, Tally
    <3>3. inbox[c] = 0 /\ reply[c] = 0 /\ held[c] = 0
      BY <3>1, <3>2, NothingAnywhere
    <3>4. wire'[c] = Segments /\ inbox'[c] = 0 /\ reply'[c] = 0
      BY <1>1, <3>3 DEF NetIInv, NetTypes
    <3> QED
      BY <3>3, <3>4, NetworkAssumption DEF Tally
  <2> QED
    BY <1>1, <1>3, <1>4, <1>7, <2>1, <2>2, NetworkAssumption DEF Pieces
<1> QED
  BY <1>2, <1>4, <1>5, <1>6, <1>7 DEF NetIInv

\* A client stops waiting when it has an answer, or when no one will answer.
LEMMA ReceiveReplyKeepsNetwork ==
    ASSUME NetIInv, NEW c \in Clients, ReceiveReply(c)
    PROVE  /\ NetIInv' /\ Patience
           /\ \A held \in [Clients -> Nat] : Pieces(held) => Pieces(held)'
<1>1. /\ client[c] = "receive" /\ client' = [client EXCEPT ![c] = "close"]
      /\ UNCHANGED <<listening, backlog, peer, wire, inbox, reset>>
  BY DEF ReceiveReply
<1>2. client'[c] = "close" /\ \A d \in Clients \ {c} : client'[d] = client[d]
  BY <1>1 DEF NetIInv, NetTypes
<1>3. /\ reply' \in [Clients -> Nat] /\ \A d \in Clients : reply'[d] <= reply[d]
      /\ \A d \in Clients \ {c} : reply'[d] = reply[d]
      /\ answered \subseteq answered' /\ answered' \subseteq Clients
      /\ c \in answered' \/ ~Live(c)
  <2>1. CASE reply[c] > 0 /\ (\E n \in 1 .. reply[c] : reply' = [reply EXCEPT ![c] = @ - n])
             /\ answered' = answered \cup {c}
    <3>1. reply' \in [Clients -> Nat]
      BY <2>1 DEF NetIInv, NetTypes
    <3>2. \A d \in Clients : reply'[d] <= reply[d]
      BY <2>1 DEF NetIInv, NetTypes
    <3>3. \A d \in Clients \ {c} : reply'[d] = reply[d]
      BY <2>1 DEF NetIInv, NetTypes
    <3> QED
      BY <2>1, <3>1, <3>2, <3>3 DEF NetIInv, NetTypes
  <2>2. CASE reply[c] = 0 /\ ~Connected(c) /\ ~Queued(c) /\ UNCHANGED <<reply, answered>>
    BY <2>2 DEF NetIInv, NetTypes, Live
  <2> QED
    BY <2>1, <2>2 DEF ReceiveReply
<1>4. NetTypes'
  BY <1>1, <1>3 DEF NetIInv, NetTypes
<1>5. OneConnection' /\ \A d \in Clients : Live(d)' <=> Live(d)
  BY <1>1, <1>2, SameConnections
<1>6. AnsweredFirst'
  BY <1>1, <1>2, <1>3, <1>5 DEF NetIInv, AnsweredFirst
<1>7. Patience
  <2>1. \A d \in Clients : inbox[d] <= inbox'[d]
    BY <1>1 DEF NetIInv, NetTypes
  <2> QED
    BY <1>1, <1>2, <1>3, <2>1 DEF Patience
<1>8. ASSUME NEW held \in [Clients -> Nat], Pieces(held) PROVE Pieces(held)'
  <2>1. \A d \in Clients \ {c} : Tally(d, held)' = Tally(d, held)
    BY <1>1, <1>3 DEF Tally
  <2>2. Tally(c, held)' <= Segments
    <3>1. /\ wire[c] \in Nat /\ inbox[c] \in Nat /\ reply[c] \in Nat /\ held[c] \in Nat
          /\ reply'[c] \in Nat /\ reply'[c] <= reply[c] /\ Segments \in Nat
      BY <1>3, NetworkAssumption DEF NetIInv, NetTypes
    <3>2. wire[c] + inbox[c] + reply[c] + held[c] <= Segments
      BY <1>8 DEF Pieces, Tally
    <3>3. wire[c] + inbox[c] + reply'[c] + held[c] <= Segments
      BY <3>1, <3>2
    <3> QED
      BY <1>1, <3>3 DEF Tally
  <2> QED
    BY <1>1, <1>2, <1>5, <1>8, <2>1, <2>2 DEF Pieces
<1> QED
  BY <1>4, <1>5, <1>6, <1>7, <1>8 DEF NetIInv

\* The connection that a close resets is of an answered client.
LEMMA CloseKeepsNetwork ==
    ASSUME NetIInv, NEW c \in Clients, Close(c)
    PROVE  /\ NetIInv' /\ Patience
           /\ \A held \in [Clients -> Nat] : Pieces(held) => Pieces(held)'
<1>1. /\ client[c] = "close" /\ client' = [client EXCEPT ![c] = "closed"]
      /\ reset' = [reset EXCEPT ![c] = IF reply[c] > 0 /\ Connected(c) THEN "pending" ELSE @]
      /\ reply' = [reply EXCEPT ![c] = 0]
      /\ UNCHANGED <<listening, backlog, peer, wire, inbox, answered>>
  BY DEF Close
<1>2. client'[c] = "closed" /\ \A d \in Clients \ {c} : client'[d] = client[d]
  BY <1>1 DEF NetIInv, NetTypes
<1>3. NetTypes'
  BY <1>1, NetworkAssumption DEF NetIInv, NetTypes
<1>4. OneConnection' /\ \A d \in Clients : Live(d)' <=> Live(d)
  BY <1>1, <1>2, SameConnections
<1>5. /\ \A d \in Clients \ {c} : reset'[d] = reset[d] /\ reply'[d] = reply[d]
      /\ reset'[c] = reset[c] \/ Connected(c)
      /\ reset[c] = "no" /\ reply'[c] = 0
  BY <1>1 DEF NetIInv, NetTypes, AnsweredFirst
<1>6. AnsweredFirst'
  BY <1>1, <1>2, <1>4, <1>5 DEF NetIInv, AnsweredFirst, Live
<1>7. Patience
  <2>1. \A d \in Clients : inbox[d] <= inbox'[d]
    BY <1>1 DEF NetIInv, NetTypes
  <2> QED
    BY <1>1, <1>2, <1>5, <2>1 DEF Patience
<1>8. ASSUME NEW held \in [Clients -> Nat], Pieces(held) PROVE Pieces(held)'
  <2>1. \A d \in Clients \ {c} : Tally(d, held)' = Tally(d, held)
    BY <1>1, <1>5 DEF Tally
  <2>2. Tally(c, held)' <= Segments
    <3>1. /\ wire[c] \in Nat /\ inbox[c] \in Nat /\ reply[c] \in Nat /\ held[c] \in Nat
          /\ Segments \in Nat
      BY NetworkAssumption DEF NetIInv, NetTypes
    <3>2. wire[c] + inbox[c] + reply[c] + held[c] <= Segments
      BY <1>8 DEF Pieces, Tally
    <3>3. wire[c] + inbox[c] + 0 + held[c] <= Segments
      BY <3>1, <3>2
    <3> QED
      BY <1>1, <1>5, <3>3 DEF Tally
  <2> QED
    BY <1>1, <1>2, <1>4, <1>8, <2>1, <2>2 DEF Pieces
<1> QED
  BY <1>3, <1>4, <1>6, <1>7, <1>8 DEF NetIInv

LEMMA DeliverKeepsNetwork ==
    ASSUME NetIInv, NEW c \in Clients, Deliver(c)
    PROVE  /\ NetIInv' /\ Patience
           /\ \A held \in [Clients -> Nat] : Pieces(held) => Pieces(held)'
<1>1. PICK n \in 1 .. wire[c] :
         /\ wire' = [wire EXCEPT ![c] = @ - n]
         /\ inbox' = [inbox EXCEPT ![c] = @ + n]
         /\ UNCHANGED <<client, listening, backlog, peer, reply, answered, reset>>
  BY DEF Deliver
<1>2. /\ wire' \in [Clients -> Nat] /\ inbox' \in [Clients -> Nat]
      /\ \A d \in Clients : inbox[d] <= inbox'[d] /\ wire'[d] + inbox'[d] = wire[d] + inbox[d]
  BY <1>1 DEF NetIInv, NetTypes
<1>3. NetTypes'
  BY <1>1, <1>2 DEF NetIInv, NetTypes
<1>4. OneConnection' /\ \A d \in Clients : Live(d)' <=> Live(d)
  BY <1>1, SameConnections
<1>5. AnsweredFirst'
  BY <1>1, <1>4 DEF NetIInv, AnsweredFirst
<1>6. Patience
  BY <1>1, <1>2 DEF Patience
<1>7. ASSUME NEW held \in [Clients -> Nat], Pieces(held) PROVE Pieces(held)'
  <2>1. \A d \in Clients : wire'[d] + inbox'[d] + reply'[d] + held[d] = wire[d] + inbox[d] + reply[d] + held[d]
    BY <1>1, <1>2 DEF NetIInv, NetTypes
  <2> QED
    BY <1>1, <1>3, <1>4, <1>7, <2>1, PiecesMove DEF NetIInv
<1> QED
  BY <1>3, <1>4, <1>5, <1>6, <1>7 DEF NetIInv

\* Whatever a client or the network does.
LEMMA EnvironmentKeepsNetwork ==
    ASSUME NetIInv, Environment
    PROVE  /\ NetIInv' /\ Patience
           /\ \A held \in [Clients -> Nat] : Pieces(held) => Pieces(held)'
<1>1. PICK c \in Clients : Client(c) \/ Deliver(c)
  BY DEF Environment
<1> QED
  BY <1>1, ConnectKeepsNetwork, ConnectRefusedKeepsNetwork, SendMessageKeepsNetwork,
     ReceiveReplyKeepsNetwork, CloseKeepsNetwork, DeliverKeepsNetwork DEF Client

-----------------------------------------------------------------------------
(* What the kernel does for the server.                                    *)

\* The queue loses its first client, which is at one place only.
LEMMA QueueHead ==
    ASSUME NetIInv, backlog # <<>>, backlog' = Tail(backlog)
    PROVE  /\ Head(backlog) \in Clients /\ backlog' \in Seq(Clients)
           /\ Queued(Head(backlog)) /\ ~Connected(Head(backlog)) /\ client[Head(backlog)] # "connect"
           /\ \A d \in Clients : Queued(d)' => Queued(d) /\ d # Head(backlog)
           /\ \A j, k \in DOMAIN backlog' : backlog'[j] = backlog'[k] => j = k
<1>1. backlog \in Seq(Clients)
  BY DEF NetIInv, NetTypes
<1>2. /\ Head(backlog) \in Clients /\ Head(backlog) = backlog[1] /\ Tail(backlog) \in Seq(Clients)
      /\ Len(backlog) \in Nat /\ Len(backlog) >= 1 /\ Len(Tail(backlog)) = Len(backlog) - 1
      /\ \A k \in 1 .. Len(Tail(backlog)) : Tail(backlog)[k] = backlog[k + 1]
  BY <1>1, HeadTailProperties, LenProperties, EmptySeq
<1>3. DOMAIN backlog = 1 .. Len(backlog) /\ DOMAIN backlog' = 1 .. Len(backlog) - 1
  BY <1>1, <1>2, LenProperties
<1>4. Queued(backlog[1])
  BY <1>2, <1>3 DEF Queued
<1>5. \A d \in Clients : Queued(d)' => Queued(d) /\ d # backlog[1]
  <2> SUFFICES ASSUME NEW d \in Clients, NEW k \in DOMAIN backlog', backlog'[k] = d
               PROVE  Queued(d) /\ d # backlog[1]
    BY DEF Queued
  <2>1. k + 1 \in DOMAIN backlog /\ backlog[k + 1] = d /\ 1 \in DOMAIN backlog /\ k + 1 # 1
    BY <1>2, <1>3
  <2> QED
    BY <2>1 DEF Queued, NetIInv, OneConnection
<1>6. \A j, k \in DOMAIN backlog' : backlog'[j] = backlog'[k] => j = k
  <2> SUFFICES ASSUME NEW j \in DOMAIN backlog', NEW k \in DOMAIN backlog', backlog'[j] = backlog'[k]
               PROVE  j = k
    OBVIOUS
  <2>1. j + 1 \in DOMAIN backlog /\ k + 1 \in DOMAIN backlog /\ backlog[j + 1] = backlog[k + 1]
    BY <1>2, <1>3
  <2>2. j + 1 = k + 1
    BY <2>1 DEF NetIInv, OneConnection
  <2> QED
    BY <1>3, <2>2
<1> QED
  BY <1>2, <1>4, <1>5, <1>6 DEF NetIInv, OneConnection

\* The accepted client leaves the queue for a descriptor that was free.
LEMMA AcceptKeepsNetwork ==
    ASSUME NetIInv, NEW fd \in Fds, AcceptAs(fd)
    PROVE  /\ NetIInv'
           /\ peer[fd] = NoClient /\ peer'[fd] \in Clients /\ Open' = Open \cup {fd}
           /\ \A f \in Fds \ {fd} : peer'[f] = peer[f]
           /\ \A held \in [Clients -> Nat] : Pieces(held) => Pieces(held)'
<1>1. /\ backlog # <<>> /\ fd \in Fds /\ peer[fd] = NoClient
      /\ peer' = [peer EXCEPT ![fd] = Head(backlog)] /\ backlog' = Tail(backlog)
      /\ UNCHANGED <<client, listening, wire, inbox, reply, answered, reset>>
  BY DEF AcceptAs, Open
<1>2. /\ Head(backlog) \in Clients /\ backlog' \in Seq(Clients)
      /\ Queued(Head(backlog)) /\ ~Connected(Head(backlog)) /\ client[Head(backlog)] # "connect"
      /\ \A d \in Clients : Queued(d)' => Queued(d) /\ d # Head(backlog)
      /\ \A j, k \in DOMAIN backlog' : backlog'[j] = backlog'[k] => j = k
  BY <1>1, QueueHead
<1>3. /\ peer' \in [Fds -> Clients \cup {NoClient}] /\ peer'[fd] = Head(backlog)
      /\ \A f \in Fds \ {fd} : peer'[f] = peer[f]
  BY <1>1, <1>2 DEF NetIInv, NetTypes
<1>4. \A d \in Clients : Connected(d)' => Connected(d) \/ d = Head(backlog)
  BY <1>3 DEF Connected
<1>5. NetTypes'
  BY <1>1, <1>2, <1>3 DEF NetIInv, NetTypes
<1>6. OneConnection'
  <2>1. \A f, g \in Fds : peer'[f] = peer'[g] /\ peer'[f] # NoClient => f = g
    BY <1>2, <1>3 DEF NetIInv, OneConnection, Connected
  <2>2. \A d \in Clients : client'[d] = "connect" => ~Queued(d)' /\ ~Connected(d)'
    BY <1>1, <1>2, <1>4 DEF NetIInv, OneConnection
  <2>3. \A d \in Clients : Queued(d)' => ~Connected(d)'
    BY <1>2, <1>4 DEF NetIInv, OneConnection
  <2> QED
    BY <1>2, <2>1, <2>2, <2>3 DEF OneConnection
<1>7. \A d \in Clients : Live(d)' => Live(d)
  BY <1>2, <1>4 DEF Live
<1>8. AnsweredFirst'
  BY <1>1, <1>7 DEF NetIInv, AnsweredFirst
<1>9. Open' = Open \cup {fd}
  BY <1>2, <1>3, NetworkAssumption DEF Open
<1>10. ASSUME NEW held \in [Clients -> Nat], Pieces(held) PROVE Pieces(held)'
  BY <1>1, <1>5, <1>7, <1>10, PiecesMove DEF NetIInv
<1> QED
  BY <1>1, <1>2, <1>3, <1>5, <1>6, <1>8, <1>9, <1>10 DEF NetIInv

\* A connection that is accepted and closed at once.
LEMMA DropKeepsNetwork ==
    ASSUME NetIInv, backlog # <<>>, backlog' = Tail(backlog),
           UNCHANGED <<client, listening, peer, wire, inbox, reply, answered, reset>>
    PROVE  /\ NetIInv'
           /\ \A held \in [Clients -> Nat] : Pieces(held) => Pieces(held)'
<1>1. /\ backlog' \in Seq(Clients)
      /\ \A d \in Clients : Queued(d)' => Queued(d)
      /\ \A j, k \in DOMAIN backlog' : backlog'[j] = backlog'[k] => j = k
  BY QueueHead
<1>2. \A d \in Clients : Connected(d)' <=> Connected(d)
  BY DEF Connected
<1>3. NetTypes'
  BY <1>1 DEF NetIInv, NetTypes
<1>4. OneConnection' /\ AnsweredFirst'
  BY <1>1, <1>2 DEF NetIInv, OneConnection, AnsweredFirst, Live
<1>5. \A d \in Clients : Live(d)' => Live(d)
  BY <1>1, <1>2 DEF Live
<1>6. ASSUME NEW held \in [Clients -> Nat], Pieces(held) PROVE Pieces(held)'
  BY <1>3, <1>5, <1>6, PiecesMove DEF NetIInv
<1> QED
  BY <1>3, <1>4, <1>6 DEF NetIInv

\* What the server receives it holds.
LEMMA ReceiveKeepsNetwork ==
    ASSUME NetIInv, NEW fd \in Fds, peer[fd] \in Clients, NEW n \in Nat, ReceiveSome(fd, n)
    PROVE  /\ NetIInv' /\ n \in 1 .. inbox[peer[fd]]
           /\ UNCHANGED <<client, listening, backlog, peer, answered, reset>>
           /\ \A d \in Clients \ {peer[fd]} : inbox'[d] = inbox[d]
           /\ \A h, k \in [Clients -> Nat] :
                Pieces(h) /\ k = [h EXCEPT ![peer[fd]] = @ + n] => Pieces(k)'
<1>1. /\ n \in 1 .. inbox[peer[fd]] /\ inbox' = [inbox EXCEPT ![peer[fd]] = @ - n]
      /\ UNCHANGED <<client, listening, backlog, peer, wire, reply, answered, reset>>
  BY DEF ReceiveSome
<1>2. /\ inbox' \in [Clients -> Nat] /\ inbox'[peer[fd]] = inbox[peer[fd]] - n
      /\ \A d \in Clients \ {peer[fd]} : inbox'[d] = inbox[d]
  BY <1>1 DEF NetIInv, NetTypes
<1>3. NetTypes'
  BY <1>1, <1>2 DEF NetIInv, NetTypes
<1>4. OneConnection' /\ \A d \in Clients : Live(d)' <=> Live(d)
  BY <1>1, SameConnections
<1>5. AnsweredFirst'
  BY <1>1, <1>4 DEF NetIInv, AnsweredFirst
<1>6. ASSUME NEW h \in [Clients -> Nat], NEW k \in [Clients -> Nat], Pieces(h),
             k = [h EXCEPT ![peer[fd]] = @ + n]
      PROVE  Pieces(k)'
  <2>1. ASSUME NEW d \in Clients
        PROVE  wire'[d] + inbox'[d] + reply'[d] + k[d] = wire[d] + inbox[d] + reply[d] + h[d]
    <3>1. wire[d] \in Nat /\ inbox[d] \in Nat /\ reply[d] \in Nat /\ h[d] \in Nat
      BY DEF NetIInv, NetTypes
    <3>2. CASE d = peer[fd]
      BY <1>1, <1>2, <1>6, <3>1, <3>2
    <3>3. CASE d # peer[fd]
      BY <1>1, <1>2, <1>6, <3>1, <3>3
    <3> QED
      BY <3>2, <3>3
  <2> QED
    BY <1>1, <1>3, <1>4, <1>6, <2>1, PiecesMove DEF NetIInv
<1> QED
  BY <1>1, <1>2, <1>3, <1>4, <1>5, <1>6 DEF NetIInv

\* recv and send report a reset once.
LEMMA FailureKeepsNetwork ==
    ASSUME NetIInv, NEW fd \in Fds, ReceiveFails(fd) \/ SendFails(fd)
    PROVE  /\ NetIInv'
           /\ UNCHANGED <<client, listening, backlog, peer, inbox, answered>>
           /\ \A d \in Clients : reset[d] # "no" => reset'[d] # "no"
           /\ reset[peer[fd]] = "pending"
           /\ \A held \in [Clients -> Nat] : Pieces(held) => Pieces(held)'
<1>1. /\ reset[peer[fd]] = "pending" /\ reset' = [reset EXCEPT ![peer[fd]] = "reported"]
      /\ UNCHANGED <<client, listening, backlog, peer, wire, inbox, reply, answered>>
  BY DEF ReceiveFails, SendFails
<1>2. NetTypes'
  BY <1>1 DEF NetIInv, NetTypes
<1>3. OneConnection' /\ \A d \in Clients : Live(d)' <=> Live(d)
  BY <1>1, SameConnections
<1>4. \A d \in Clients : reset'[d] # "no" <=> reset[d] # "no"
  BY <1>1 DEF NetIInv, NetTypes
<1>5. AnsweredFirst'
  BY <1>1, <1>3, <1>4 DEF NetIInv, AnsweredFirst
<1>6. ASSUME NEW held \in [Clients -> Nat], Pieces(held) PROVE Pieces(held)'
  BY <1>1, <1>2, <1>3, <1>6, PiecesMove DEF NetIInv
<1> QED
  BY <1>1, <1>2, <1>3, <1>4, <1>5, <1>6 DEF NetIInv

\* A connection that the server closes is closed for good.
LEMMA CloseFdKeepsNetwork ==
    ASSUME NetIInv, NEW fd \in Fds, CloseFd(fd)
    PROVE  /\ NetIInv'
           /\ UNCHANGED <<client, listening, backlog, inbox, answered, reset>>
           /\ \A f \in Fds \ {fd} : peer'[f] = peer[f]
           /\ Open' = Open \ {fd}
           /\ \A held \in [Clients -> Nat] : Pieces(held) => Pieces(held)'
<1>1. /\ peer' = [peer EXCEPT ![fd] = NoClient]
      /\ UNCHANGED <<client, listening, backlog, wire, inbox, reply, answered, reset>>
  BY DEF CloseFd
<1>2. NetTypes'
  BY <1>1 DEF NetIInv, NetTypes
<1>3. peer'[fd] = NoClient /\ \A f \in Fds \ {fd} : peer'[f] = peer[f]
  BY <1>1 DEF NetIInv, NetTypes
<1>4. \A d \in Clients : (Connected(d)' => Connected(d)) /\ (Queued(d)' <=> Queued(d))
  BY <1>1, <1>3, NetworkAssumption DEF Connected, Queued
<1>5. OneConnection'
  BY <1>1, <1>3, <1>4 DEF NetIInv, OneConnection
<1>6. \A d \in Clients : Live(d)' => Live(d)
  BY <1>4 DEF Live
<1>7. AnsweredFirst'
  BY <1>1, <1>6 DEF NetIInv, AnsweredFirst
<1>8. ASSUME NEW held \in [Clients -> Nat], Pieces(held) PROVE Pieces(held)'
  BY <1>1, <1>2, <1>6, <1>8, PiecesMove DEF NetIInv
<1>9. Open' = Open \ {fd}
  BY <1>3 DEF Open
<1> QED
  BY <1>1, <1>2, <1>3, <1>5, <1>7, <1>8, <1>9 DEF NetIInv

\* What the server held goes back to the client it came from, or is dropped
\* when that client has closed.
LEMMA SendBackKeepsNetwork ==
    ASSUME NetIInv, NEW fd \in Fds, peer[fd] \in Clients, NEW n \in Nat,
           SendBack(fd, n) \/ SendFails(fd)
    PROVE  /\ NetIInv'
           /\ UNCHANGED <<client, listening, backlog, peer, inbox, answered>>
           /\ \A d \in Clients : reset[d] # "no" => reset'[d] # "no"
           /\ \A h, k \in [Clients -> Nat] :
                Pieces(h) /\ h[peer[fd]] = n /\ k = [h EXCEPT ![peer[fd]] = 0] => Pieces(k)'
<1> DEFINE c == peer[fd]
<1>1. UNCHANGED <<client, listening, backlog, peer, wire, inbox, answered>>
  BY DEF SendBack, SendFails
<1>2. Live(c)
  BY DEF Live, Connected
<1>3. \/ client[c] # "closed" /\ reset' = reset /\ reply' = [reply EXCEPT ![c] = @ + n]
      \/ client[c] = "closed" /\ reply' = reply
         /\ (reset' = [reset EXCEPT ![c] = "pending"] \/ reset' = [reset EXCEPT ![c] = "reported"])
  BY DEF SendBack, SendFails, NetIInv, AnsweredFirst
<1> HIDE DEF c
<1>4. /\ c \in Clients /\ c = peer[fd]
      /\ reply' \in [Clients -> Nat] /\ reset' \in [Clients -> {"no", "pending", "reported"}]
      /\ \A d \in Clients : reset[d] # "no" => reset'[d] # "no"
      /\ \A d \in Clients : reset'[d] # "no" => reset[d] # "no" \/ (d = c /\ client[c] = "closed")
      /\ \A d \in Clients \ {c} : reply'[d] = reply[d]
      /\ reply'[c] = reply[c] + n \/ (client[c] = "closed" /\ reply'[c] = reply[c])
  <2>1. c \in Clients /\ c = peer[fd]
    BY DEF c
  <2>2. reply' \in [Clients -> Nat] /\ reset' \in [Clients -> {"no", "pending", "reported"}]
    <3>1. reply \in [Clients -> Nat] /\ reset \in [Clients -> {"no", "pending", "reported"}]
      BY DEF NetIInv, NetTypes
    <3>2. reply' = reply \/ reply' = [reply EXCEPT ![c] = @ + n]
      BY <1>3
    <3>3. reset' = reset \/ reset' = [reset EXCEPT ![c] = "pending"] \/ reset' = [reset EXCEPT ![c] = "reported"]
      BY <1>3
    <3>4. reply' \in [Clients -> Nat]
      BY <3>1, <3>2
    <3> QED
      BY <3>1, <3>3, <3>4
  <2>3. /\ \A d \in Clients : reset[d] # "no" => reset'[d] # "no"
        /\ \A d \in Clients : reset'[d] # "no" => reset[d] # "no" \/ (d = c /\ client[c] = "closed")
    BY <1>3, <2>1 DEF NetIInv, NetTypes
  <2>4. /\ \A d \in Clients \ {c} : reply'[d] = reply[d]
        /\ reply'[c] = reply[c] + n \/ (client[c] = "closed" /\ reply'[c] = reply[c])
    BY <1>3, <2>1 DEF NetIInv, NetTypes
  <2> QED
    BY <2>1, <2>2, <2>3, <2>4
<1>5. NetTypes'
  BY <1>1, <1>4 DEF NetIInv, NetTypes
<1>6. OneConnection' /\ \A d \in Clients : Live(d)' <=> Live(d)
  BY <1>1, SameConnections
<1>7. AnsweredFirst'
  BY <1>1, <1>2, <1>4, <1>6 DEF NetIInv, AnsweredFirst
<1>8. ASSUME NEW h \in [Clients -> Nat], NEW k \in [Clients -> Nat], Pieces(h),
             h[c] = n, k = [h EXCEPT ![c] = 0]
      PROVE  Pieces(k)'
  <2>1. ASSUME NEW d \in Clients
        PROVE  \/ wire'[d] + inbox'[d] + reply'[d] + k[d] = wire[d] + inbox[d] + reply[d] + h[d]
               \/ /\ wire'[d] + inbox'[d] + reply'[d] + k[d] <= wire[d] + inbox[d] + reply[d] + h[d]
                  /\ ~(client[d] = "receive" /\ Live(d)')
    <3>1. wire[d] \in Nat /\ inbox[d] \in Nat /\ reply[d] \in Nat /\ h[d] \in Nat
      BY DEF NetIInv, NetTypes
    <3>2. CASE d = c
      <4>1. k[d] = 0 /\ h[d] = n
        BY <1>4, <1>8, <3>2
      <4> QED
        BY <1>1, <1>4, <3>1, <3>2, <4>1
    <3>3. CASE d # c
      BY <1>1, <1>4, <1>8, <3>1, <3>3
    <3> QED
      BY <3>2, <3>3
  <2> QED
    BY <1>1, <1>5, <1>6, <1>8, <2>1, PiecesMove DEF NetIInv
<1> QED
  BY <1>1, <1>4, <1>5, <1>6, <1>7, <1>8 DEF NetIInv

\* With the process every connection ends.
LEMMA SendKillsKeepsNetwork ==
    ASSUME NetIInv, NEW fd \in Fds, SendKills(fd)
    PROVE  /\ NetIInv'
           /\ UNCHANGED <<client, inbox, answered, reset>>
           /\ \A h \in [Clients -> Nat], k \in [Clients -> {0}] : Pieces(h) => Pieces(k)'
<1>1. /\ listening' = FALSE /\ peer' = [f \in Fds |-> NoClient] /\ backlog' = <<>>
      /\ UNCHANGED <<client, wire, inbox, reply, answered, reset>>
  BY DEF SendKills
<1>2. NetTypes'
  BY <1>1, EmptySeq DEF NetIInv, NetTypes
<1>3. (\A c \in Clients : ~Queued(c)' /\ ~Connected(c)') /\ DOMAIN backlog' = {}
  BY <1>1, NetworkAssumption DEF Queued, Connected
<1>4. OneConnection'
  BY <1>1, <1>3 DEF OneConnection
<1>5. AnsweredFirst'
  BY <1>1, <1>3 DEF NetIInv, AnsweredFirst, Live
<1>6. ASSUME NEW h \in [Clients -> Nat], NEW k \in [Clients -> {0}], Pieces(h) PROVE Pieces(k)'
  <2>1. k \in [Clients -> Nat]
    OBVIOUS
  <2>2. ASSUME NEW d \in Clients
        PROVE  wire'[d] + inbox'[d] + reply'[d] + k[d] <= wire[d] + inbox[d] + reply[d] + h[d]
    <3>1. wire[d] \in Nat /\ inbox[d] \in Nat /\ reply[d] \in Nat /\ h[d] \in Nat /\ k[d] = 0
      BY DEF NetIInv, NetTypes
    <3> QED
      BY <1>1, <3>1
  <2> QED
    BY <1>1, <1>2, <1>3, <1>6, <2>1, <2>2, PiecesMove DEF NetIInv, Live
<1> QED
  BY <1>1, <1>2, <1>4, <1>5, <1>6 DEF NetIInv
=============================================================================
