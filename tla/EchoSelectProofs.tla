-------------------------- MODULE EchoSelectProofs --------------------------
(***************************************************************************)
(* The safety of the select server, for any number of clients, descriptors *)
(* and pieces: its types, that it watches what is open, that its loop      *)
(* never blocks, that no piece of a message is lost or sent to another     *)
(* client, and what alone can kill it.                                     *)
(*                                                                         *)
(* Whether a descriptor is still readable when the loop gets to it is      *)
(* inductive only together with two facts: a client is at the other end of *)
(* one descriptor at most (OneConnection), so that what is received on one *)
(* descriptor is not missing on another; and nothing was added to readfds  *)
(* since select (Ahead), although max may have risen.  That pieces are     *)
(* conserved while a client waits needs where they are at all other times  *)
(* (Pieces), and the bounds of the types follow from it.                   *)
(***************************************************************************)
EXTENDS EchoSelect, EchoNetworkProofs

ServerTypes ==
    /\ master \subseteq AllFds /\ readfds \subseteq AllFds
    /\ max \in AllFds /\ i \in Nat /\ rcvd \in 0 .. Segments
    /\ pc \in {"select", "scan", "send", "dead"}

\* What the loop still has to serve is readable, but for the descriptor it is
\* serving.
Ahead == pc \in {"scan", "send"} =>
    /\ \A fd \in readfds : fd <= max
    /\ \A fd \in Due : pc = "scan" \/ (\E other \in Due : other < fd) => Readable(fd)

\* While the server has something to send back, it is serving its client.
Serving == pc = "send" => rcvd > 0 /\ \E fd \in Fds : Sends(fd) /\ peer[fd] \in Clients

\* What the server has received from each client and not sent back.
Held == [c \in Clients |-> IF pc = "send" /\ \E fd \in Fds : Sends(fd) /\ peer[fd] = c THEN rcvd ELSE 0]

SelectIInv ==
    /\ NetIInv /\ ServerTypes /\ WatchesWhatIsOpen /\ Ahead /\ Serving
    /\ Pieces(Held) /\ DiesOnlyOfEarlyClose

-----------------------------------------------------------------------------
(* Descriptors, and what the server holds.                                 *)

\* Descriptors are numbers above that of the listening socket.
LEMMA Descriptors ==
    /\ ListenFd \in Nat /\ ListenFd \notin Fds
    /\ \A fd \in Fds : fd \in Nat /\ fd > ListenFd
    /\ \A fd \in AllFds : fd \in Nat
BY NetworkAssumption DEF AllFds

\* The loop serves one descriptor at a time.
LEMMA OneServed ==
    ASSUME ServerTypes, NEW fd \in AllFds, NEW other \in AllFds,
           fd \in Due /\ \A g \in Due : fd <= g, other \in Due /\ \A g \in Due : other <= g
    PROVE  fd = other
<1>1. fd \in Nat /\ other \in Nat /\ fd <= other /\ other <= fd
  BY Descriptors
<1> QED
  BY <1>1

LEMMA HeldCount == ServerTypes => Held \in [Clients -> Nat]
BY NetworkAssumption DEF ServerTypes, Held

\* Outside of a send it holds nothing, and before a send what it received last.
LEMMA HeldIdle == pc # "send" => Held = [c \in Clients |-> 0]
BY DEF Held

LEMMA HeldServing ==
    ASSUME ServerTypes, NEW fd \in Fds, Sends(fd)
    PROVE  Held = [c \in Clients |-> IF c = peer[fd] THEN rcvd ELSE 0]
<1>1. \A other \in Fds : Sends(other) <=> other = fd
  BY OneServed DEF Sends, AllFds
<1>2. pc = "send"
  BY DEF Sends
<1>3. \A c \in Clients : (pc = "send" /\ \E other \in Fds : Sends(other) /\ peer[other] = c) <=> c = peer[fd]
  BY <1>1, <1>2
<1> HIDE DEF Sends
<1> QED
  BY <1>3 DEF Held

\* Pieces speaks of a function; these name what Held is before and after a step.
LEMMA PiecesNow ==
    ASSUME Pieces(Held), NEW h, h = Held
    PROVE  Pieces(h)
OBVIOUS

LEMMA PiecesNext ==
    ASSUME NEW k, k = Held', Pieces(k)'
    PROVE  Pieces(Held)'
BY DEF Pieces, Tally

\* A step of which the server holds as much afterwards.
LEMMA SameHeld ==
    ASSUME Held \in [Clients -> Nat], Held' = Held, Pieces(Held),
           \A held \in [Clients -> Nat] : Pieces(held) => Pieces(held)'
    PROVE  Pieces(Held)'
<1>1. PICK h \in [Clients -> Nat] : h = Held
  OBVIOUS
<1>2. Pieces(h)'
  BY <1>1, PiecesNow
<1> QED
  BY <1>1, <1>2, PiecesNext

-----------------------------------------------------------------------------
\* No client is connected at first, and the server watches its listening socket.
LEMMA SelectInitial == ASSUME Init PROVE SelectIInv
<1>1. NetIInv
  BY NetworkInitial DEF Init
<1>2. ServerTypes
  BY NetworkAssumption DEF Init, ServerTypes, AllFds
<1>3. WatchesWhatIsOpen /\ Ahead /\ Serving /\ DiesOnlyOfEarlyClose
  <2>1. Open = {} /\ ListenFd <= ListenFd
    BY NetworkAssumption DEF Init, NetworkInit, Open
  <2> QED
    BY <2>1 DEF Init, WatchesWhatIsOpen, Ahead, Serving, DiesOnlyOfEarlyClose
<1>4. Pieces(Held)
  <2>1. Held \in [Clients -> {0}]
    BY HeldIdle DEF Init
  <2> QED
    BY <2>1, PiecesInitial DEF Init
<1> QED
  BY <1>1, <1>2, <1>3, <1>4 DEF SelectIInv

\* Clients and the network: nothing that the server found readable stops being
\* so, and a client that killed it stays as it was.
LEMMA EnvironmentKeeps ==
    ASSUME SelectIInv, Environment, UNCHANGED server
    PROVE  SelectIInv'
<1>1. /\ NetIInv /\ NetIInv' /\ Patience
      /\ \A held \in [Clients -> Nat] : Pieces(held) => Pieces(held)'
  BY EnvironmentKeepsNetwork DEF SelectIInv
<1>2. UNCHANGED <<peer, master, readfds, max, i, pc, rcvd>>
  BY <1>1 DEF Patience, server
<1>3. ServerTypes'
  BY <1>2 DEF SelectIInv, ServerTypes
<1>4. WatchesWhatIsOpen'
  BY <1>2 DEF SelectIInv, WatchesWhatIsOpen, Open
<1>5. \A fd \in AllFds : Readable(fd) => Readable(fd)'
  <2> SUFFICES ASSUME NEW fd \in AllFds, Readable(fd) PROVE Readable(fd)'
    OBVIOUS
  <2>1. CASE fd = ListenFd
    BY <1>1, <2>1 DEF Readable, Patience
  <2>2. CASE fd # ListenFd
    <3>1. peer[fd] \in Clients /\ peer'[fd] = peer[fd]
      BY <1>1, <1>2, <2>2 DEF Readable, AllFds, NetIInv, NetTypes
    <3>2. inbox[peer[fd]] \in Nat /\ inbox'[peer[fd]] \in Nat /\ inbox[peer[fd]] <= inbox'[peer[fd]]
      BY <1>1, <3>1 DEF NetIInv, NetTypes, Patience
    <3> QED
      BY <1>1, <2>2, <3>1, <3>2 DEF Readable, Ended, Patience
  <2> QED
    BY <2>1, <2>2
<1>6. Ahead'
  BY <1>2, <1>5 DEF SelectIInv, ServerTypes, Ahead, Due
<1>7. Serving' /\ Held' = Held
  BY <1>2 DEF SelectIInv, Serving, Sends, Due, Held
<1>8. Pieces(Held)'
  BY <1>1, <1>7, SameHeld, HeldCount DEF SelectIInv
<1>9. DiesOnlyOfEarlyClose'
  BY <1>1, <1>2 DEF SelectIInv, DiesOnlyOfEarlyClose, Patience, NetIInv, NetTypes
<1> QED
  BY <1>1, <1>3, <1>4, <1>6, <1>7, <1>8, <1>9 DEF SelectIInv

-----------------------------------------------------------------------------
\* A step of the server that leaves the network alone.
LEMMA NetworkSame ==
    ASSUME NetIInv, UNCHANGED network
    PROVE  /\ NetIInv' /\ Open' = Open /\ \A fd \in AllFds : Readable(fd)' <=> Readable(fd)
           /\ \A held \in [Clients -> Nat] : Pieces(held) => Pieces(held)'
BY DEF network, NetIInv, NetTypes, OneConnection, AnsweredFirst, Live, Queued, Connected, Open,
   Readable, Ended, Pieces, Tally

\* After select, what readfds says is true.
LEMMA SelectKeeps ==
    ASSUME SelectIInv, Select
    PROVE  SelectIInv'
<1>1. /\ NetIInv' /\ Open' = Open /\ \A fd \in AllFds : Readable(fd)' <=> Readable(fd)
      /\ \A held \in [Clients -> Nat] : Pieces(held) => Pieces(held)'
  BY NetworkSame DEF SelectIInv, Select
<1>2. /\ pc = "select" /\ readfds' = {fd \in master : fd <= max /\ Readable(fd)}
      /\ i' = 0 /\ pc' = "scan" /\ UNCHANGED <<master, max, rcvd>>
  BY DEF Select, Replaced, Ready
<1>3. ServerTypes'
  BY <1>2 DEF SelectIInv, ServerTypes
<1>4. WatchesWhatIsOpen' /\ Serving' /\ DiesOnlyOfEarlyClose'
  BY <1>1, <1>2 DEF SelectIInv, WatchesWhatIsOpen, Serving, DiesOnlyOfEarlyClose
<1>5. Ahead'
  BY <1>1, <1>2 DEF Ahead, Due, SelectIInv, ServerTypes
<1>6. Held' = Held
  BY <1>2 DEF Held
<1>7. Pieces(Held)'
  BY <1>1, <1>6, SameHeld, HeldCount DEF SelectIInv
<1> QED
  BY <1>1, <1>3, <1>4, <1>5, <1>7 DEF SelectIInv

LEMMA EndScanKeeps ==
    ASSUME SelectIInv, EndScan
    PROVE  SelectIInv'
<1>1. /\ NetIInv' /\ Open' = Open
      /\ \A held \in [Clients -> Nat] : Pieces(held) => Pieces(held)'
  BY NetworkSame DEF SelectIInv, EndScan
<1>2. pc = "scan" /\ pc' = "select" /\ UNCHANGED <<master, readfds, max, i, rcvd>>
  BY DEF EndScan
<1>3. ServerTypes'
  BY <1>2 DEF SelectIInv, ServerTypes
<1>4. WatchesWhatIsOpen' /\ Serving' /\ DiesOnlyOfEarlyClose' /\ Ahead'
  BY <1>1, <1>2 DEF SelectIInv, WatchesWhatIsOpen, Serving, DiesOnlyOfEarlyClose, Ahead
<1>5. Held' = Held
  BY <1>2 DEF Held
<1>6. Pieces(Held)'
  BY <1>1, <1>5, SameHeld, HeldCount DEF SelectIInv
<1> QED
  BY <1>1, <1>3, <1>4, <1>6 DEF SelectIInv

\* The loop goes on after the descriptor it served: the others it has to serve
\* came after that one, and are as readable as before.
LEMMA ServedKeepsAhead ==
    ASSUME SelectIInv, NEW fd \in AllFds, pc \in {"scan", "send"}, pc' = "scan", fd \in Due,
           \A other \in Due : fd <= other,
           readfds' = readfds, i' = fd + 1, max <= max', max' \in Nat,
           \A g \in AllFds \ {fd} : Readable(g) => Readable(g)'
    PROVE  Ahead'
<1>1. max \in Nat /\ fd \in Nat /\ \A g \in readfds : g \in AllFds /\ g \in Nat /\ g <= max
  BY Descriptors DEF SelectIInv, ServerTypes, Ahead
<1>2. \A g \in readfds : g <= max'
  BY <1>1
<1>3. ASSUME NEW g \in Due' PROVE Readable(g)'
  <2>1. g \in readfds /\ fd + 1 <= g /\ i \in Nat
    BY <1>3 DEF Due, SelectIInv, ServerTypes
  <2>2. g \in Due /\ g # fd /\ fd < g
    BY <1>1, <2>1 DEF Due
  <2>3. Readable(g)
    BY <2>2 DEF SelectIInv, Ahead
  <2> QED
    BY <1>1, <2>1, <2>2, <2>3
<1> QED
  BY <1>2, <1>3 DEF Ahead

\* The accepted client gets the lowest free descriptor, which is watched from
\* then on and not in readfds yet.
LEMMA AcceptKeeps ==
    ASSUME SelectIInv, Accept
    PROVE  SelectIInv'
<1>1. PICK connfd \in Fds : AcceptAs(connfd) /\ master' = master \cup {connfd} /\ max' = RaisedMax(connfd)
  BY DEF Accept
<1>2. /\ pc = "scan" /\ ListenFd \in Due /\ \A other \in Due : ListenFd <= other
      /\ i' = ListenFd + 1 /\ UNCHANGED <<readfds, pc, rcvd>>
  BY DEF Accept, Serves
<1>3. /\ NetIInv' /\ peer'[connfd] \in Clients /\ Open' = Open \cup {connfd}
      /\ \A f \in Fds \ {connfd} : peer'[f] = peer[f]
      /\ \A held \in [Clients -> Nat] : Pieces(held) => Pieces(held)'
  BY <1>1, AcceptKeepsNetwork DEF SelectIInv
<1>4. max \in Nat /\ max \in AllFds /\ connfd \in AllFds /\ connfd \in Nat
  BY Descriptors DEF SelectIInv, ServerTypes, AllFds
<1>5. max' \in AllFds /\ max' \in Nat /\ max <= max' /\ connfd <= max'
  BY <1>1, <1>4 DEF RaisedMax
<1>6. ServerTypes'
  BY <1>1, <1>2, <1>4, <1>5, Descriptors DEF SelectIInv, ServerTypes
<1>7. WatchesWhatIsOpen'
  <2>1. \A f \in master : f <= max /\ f \in Nat
    BY <1>2, Descriptors DEF SelectIInv, ServerTypes, WatchesWhatIsOpen
  <2> QED
    BY <1>1, <1>2, <1>3, <1>4, <1>5, <2>1 DEF SelectIInv, WatchesWhatIsOpen
<1>8. \A g \in AllFds \ {ListenFd} : Readable(g) => Readable(g)'
  <2>1. peer[connfd] = NoClient /\ UNCHANGED <<client, inbox, reset>>
    BY <1>1 DEF AcceptAs, Open
  <2> QED
    BY <1>3, <2>1 DEF Readable, AllFds, Ended
<1>9. Ahead'
  BY <1>2, <1>4, <1>5, <1>8, ServedKeepsAhead DEF SelectIInv, AllFds
<1>10. Serving' /\ DiesOnlyOfEarlyClose' /\ Held' = Held
  BY <1>2 DEF Serving, DiesOnlyOfEarlyClose, Held
<1>11. Pieces(Held)'
  BY <1>3, <1>10, SameHeld, HeldCount DEF SelectIInv
<1> QED
  BY <1>3, <1>6, <1>7, <1>9, <1>10, <1>11 DEF SelectIInv

\* Data is taken from the one descriptor that is served, and held.
LEMMA ReceiveKeeps ==
    ASSUME SelectIInv, NEW fd \in Fds, Receive(fd)
    PROVE  SelectIInv'
<1>1. PICK n \in 1 .. Segments : ReceiveSome(fd, n) /\ rcvd' = n
  BY DEF Receive
<1>2. /\ pc = "scan" /\ fd \in Due /\ \A other \in Due : fd <= other
      /\ pc' = "send" /\ UNCHANGED <<master, readfds, max, i>>
  BY DEF Receive, Serves
<1>3. fd # ListenFd /\ Readable(fd)
  BY <1>2, Descriptors DEF SelectIInv, Ahead
<1>4. peer[fd] \in Clients
  BY <1>3 DEF Readable, SelectIInv, NetIInv, NetTypes
<1>5. n \in Nat /\ n > 0
  BY NetworkAssumption
<1>6. /\ NetIInv' /\ UNCHANGED <<client, listening, backlog, peer, answered, reset>>
      /\ \A d \in Clients \ {peer[fd]} : inbox'[d] = inbox[d]
      /\ \A h, k \in [Clients -> Nat] :
           Pieces(h) /\ k = [h EXCEPT ![peer[fd]] = @ + n] => Pieces(k)'
  BY <1>1, <1>4, <1>5, ReceiveKeepsNetwork DEF SelectIInv
<1>7. ServerTypes'
  BY <1>1, <1>2 DEF SelectIInv, ServerTypes
<1>8. WatchesWhatIsOpen'
  BY <1>2, <1>6 DEF SelectIInv, WatchesWhatIsOpen, Open
<1>9. Ahead'
  <2>1. \A g \in AllFds \ {fd} : Readable(g) => Readable(g)'
    BY <1>4, <1>6 DEF SelectIInv, NetIInv, NetTypes, OneConnection, Readable, AllFds, Ended
  <2>2. Due' = Due /\ \A g \in Due : g \in AllFds /\ Readable(g) /\ g \in Nat
    BY <1>2, Descriptors DEF Due, SelectIInv, ServerTypes, Ahead
  <2>3. \A g \in Due : (\E other \in Due : other < g) => g # fd
    BY <1>2, <2>2, Descriptors
  <2> QED
    BY <1>2, <2>1, <2>2, <2>3 DEF SelectIInv, Ahead
<1>10. Sends(fd)'
  BY <1>2 DEF Sends, Due
<1>11. Serving'
  BY <1>1, <1>4, <1>5, <1>6, <1>10 DEF Serving
<1>12. Pieces(Held)'
  <2>1. Held = [c \in Clients |-> 0]
    BY <1>2, HeldIdle
  <2>2. Held' = [c \in Clients |-> IF c = peer[fd] THEN n ELSE 0]
    <3>1. \A other \in Fds : Sends(other)' <=> other = fd
      <4>1. \A other \in Fds : Sends(other)' => other \in Due /\ \A g \in Due : other <= g
        BY <1>2 DEF Sends, Due
      <4> QED
        BY <1>2, <1>10, <4>1, OneServed DEF AllFds, SelectIInv
    <3>2. \A c \in Clients : (pc' = "send" /\ \E other \in Fds : Sends(other)' /\ peer'[other] = c) <=> c = peer[fd]
      BY <1>2, <1>6, <3>1
    <3> QED
      BY <1>1, <3>2 DEF Held
  <2>3. PICK h \in [Clients -> Nat] : h = Held
    BY <2>1
  <2>4. PICK k \in [Clients -> Nat] : k = Held'
    BY <1>5, <2>2
  <2>5. k = [h EXCEPT ![peer[fd]] = @ + n]
    BY <1>4, <1>5, <2>1, <2>2, <2>3, <2>4
  <2>6. Pieces(h)
    BY <2>3, PiecesNow DEF SelectIInv
  <2>7. Pieces(k)'
    BY <1>6, <2>5, <2>6
  <2> QED
    BY <2>4, <2>7, PiecesNext
<1>13. DiesOnlyOfEarlyClose'
  BY <1>2 DEF DiesOnlyOfEarlyClose
<1> QED
  BY <1>6, <1>7, <1>8, <1>9, <1>11, <1>12, <1>13 DEF SelectIInv

\* An error leaves the connection open; its end closes it.
LEMMA ReceiveErrorKeeps ==
    ASSUME SelectIInv, NEW fd \in Fds, ReceiveError(fd)
    PROVE  SelectIInv'
<1>1. /\ pc = "scan" /\ fd \in Due /\ \A other \in Due : fd <= other
      /\ i' = fd + 1 /\ UNCHANGED <<master, readfds, max, pc, rcvd>>
      /\ ReceiveFails(fd)
  BY DEF ReceiveError, Serves
<1>2. /\ NetIInv' /\ UNCHANGED <<client, listening, backlog, peer, inbox, answered>>
      /\ \A d \in Clients : reset[d] # "no" => reset'[d] # "no"
      /\ \A held \in [Clients -> Nat] : Pieces(held) => Pieces(held)'
  BY <1>1, FailureKeepsNetwork DEF SelectIInv
<1>3. max \in Nat /\ fd \in AllFds /\ fd + 1 \in Nat
  BY Descriptors DEF SelectIInv, ServerTypes, AllFds
<1>4. ServerTypes'
  BY <1>1, <1>3 DEF SelectIInv, ServerTypes
<1>5. WatchesWhatIsOpen'
  BY <1>1, <1>2 DEF SelectIInv, WatchesWhatIsOpen, Open
<1>6. \A g \in AllFds \ {fd} : Readable(g) => Readable(g)'
  BY <1>2 DEF SelectIInv, NetIInv, NetTypes, Readable, AllFds, Ended
<1>7. Ahead'
  BY <1>1, <1>3, <1>6, ServedKeepsAhead
<1>8. Serving' /\ DiesOnlyOfEarlyClose' /\ Held' = Held
  BY <1>1 DEF Serving, DiesOnlyOfEarlyClose, Held
<1>9. Pieces(Held)'
  BY <1>2, <1>8, SameHeld, HeldCount DEF SelectIInv
<1> QED
  BY <1>2, <1>4, <1>5, <1>7, <1>8, <1>9 DEF SelectIInv

LEMMA HangupKeeps ==
    ASSUME SelectIInv, NEW fd \in Fds, Hangup(fd)
    PROVE  SelectIInv'
<1>1. /\ pc = "scan" /\ fd \in Due /\ \A other \in Due : fd <= other
      /\ i' = fd + 1 /\ master' = master \ {fd} /\ UNCHANGED <<readfds, max, pc, rcvd>>
      /\ CloseFd(fd)
  BY DEF Hangup, Serves, Cleared
<1>2. /\ NetIInv' /\ UNCHANGED <<client, listening, backlog, inbox, answered, reset>>
      /\ \A f \in Fds \ {fd} : peer'[f] = peer[f]
      /\ Open' = Open \ {fd}
      /\ \A held \in [Clients -> Nat] : Pieces(held) => Pieces(held)'
  BY <1>1, CloseFdKeepsNetwork DEF SelectIInv
<1>3. max \in Nat /\ fd \in AllFds /\ fd + 1 \in Nat /\ fd # ListenFd
  BY Descriptors DEF SelectIInv, ServerTypes, AllFds
<1>4. ServerTypes'
  BY <1>1, <1>3 DEF SelectIInv, ServerTypes
<1>5. WatchesWhatIsOpen'
  BY <1>1, <1>2, <1>3 DEF SelectIInv, WatchesWhatIsOpen
<1>6. \A g \in AllFds \ {fd} : Readable(g) => Readable(g)'
  BY <1>2 DEF Readable, AllFds, Ended
<1>7. Ahead'
  BY <1>1, <1>3, <1>6, ServedKeepsAhead
<1>8. Serving' /\ DiesOnlyOfEarlyClose' /\ Held' = Held
  BY <1>1 DEF Serving, DiesOnlyOfEarlyClose, Held
<1>9. Pieces(Held)'
  BY <1>2, <1>8, SameHeld, HeldCount DEF SelectIInv
<1> QED
  BY <1>2, <1>4, <1>5, <1>7, <1>8, <1>9 DEF SelectIInv

\* A send gives all that was held to the client it came from, or the kernel
\* drops it with the connection.
LEMMA SendKeeps ==
    ASSUME SelectIInv, NEW fd \in Fds, Send(fd)
    PROVE  SelectIInv'
<1>1. /\ pc = "send" /\ Sends(fd) /\ fd \in Due /\ \A other \in Due : fd <= other
      /\ rcvd' = 0 /\ i' = fd + 1 /\ pc' = "scan" /\ UNCHANGED <<master, readfds, max>>
      /\ SendBack(fd, rcvd) \/ SendFails(fd)
  BY DEF Send, Sends, Echo
<1>2. peer[fd] \in Clients /\ rcvd \in Nat
  <2>1. PICK other \in Fds : Sends(other) /\ peer[other] \in Clients
    BY <1>1 DEF SelectIInv, Serving
  <2>2. other = fd
    BY <1>1, <2>1, OneServed DEF Sends, AllFds, SelectIInv
  <2> QED
    BY <2>1, <2>2, NetworkAssumption DEF SelectIInv, ServerTypes
<1>3. /\ NetIInv' /\ UNCHANGED <<client, listening, backlog, peer, inbox, answered>>
      /\ \A d \in Clients : reset[d] # "no" => reset'[d] # "no"
      /\ \A h, k \in [Clients -> Nat] :
           Pieces(h) /\ h[peer[fd]] = rcvd /\ k = [h EXCEPT ![peer[fd]] = 0] => Pieces(k)'
  BY <1>1, <1>2, SendBackKeepsNetwork DEF SelectIInv
<1>4. max \in Nat /\ fd \in AllFds /\ fd + 1 \in Nat
  BY Descriptors DEF SelectIInv, ServerTypes, AllFds
<1>5. ServerTypes'
  BY <1>1, <1>4, NetworkAssumption DEF SelectIInv, ServerTypes
<1>6. WatchesWhatIsOpen'
  BY <1>1, <1>3 DEF SelectIInv, WatchesWhatIsOpen, Open
<1>7. \A g \in AllFds \ {fd} : Readable(g) => Readable(g)'
  BY <1>3 DEF SelectIInv, NetIInv, NetTypes, Readable, AllFds, Ended
<1>8. Ahead'
  BY <1>1, <1>4, <1>7, ServedKeepsAhead
<1>9. Serving' /\ DiesOnlyOfEarlyClose'
  BY <1>1 DEF Serving, DiesOnlyOfEarlyClose
<1>10. Pieces(Held)'
  <2>1. Held = [c \in Clients |-> IF c = peer[fd] THEN rcvd ELSE 0]
    BY <1>1, HeldServing DEF SelectIInv
  <2>2. Held' = [c \in Clients |-> 0]
    BY <1>1 DEF Held
  <2>3. PICK h \in [Clients -> Nat] : h = Held
    BY <1>2, <2>1
  <2>4. PICK k \in [Clients -> Nat] : k = Held'
    BY <2>2
  <2>5. h[peer[fd]] = rcvd /\ k = [h EXCEPT ![peer[fd]] = 0]
    BY <1>2, <2>1, <2>2, <2>3, <2>4
  <2>6. Pieces(h)
    BY <2>3, PiecesNow DEF SelectIInv
  <2>7. Pieces(k)'
    BY <1>3, <2>5, <2>6
  <2> QED
    BY <2>4, <2>7, PiecesNext
<1> QED
  BY <1>3, <1>5, <1>6, <1>8, <1>9, <1>10 DEF SelectIInv

\* With the process every connection ends; the client it was serving had an
\* answer and has closed.
LEMMA SendToResetKeeps ==
    ASSUME SelectIInv, NEW fd \in Fds, SendToReset(fd)
    PROVE  SelectIInv'
<1>1. /\ Sends(fd) /\ pc = "send" /\ pc' = "dead" /\ UNCHANGED <<master, readfds, max, i, rcvd>>
      /\ SendKills(fd) /\ reset[peer[fd]] # "no"
  BY DEF SendToReset, SendKills, Sends
<1>2. /\ NetIInv' /\ UNCHANGED <<client, inbox, answered, reset>>
      /\ \A h \in [Clients -> Nat], k \in [Clients -> {0}] : Pieces(h) => Pieces(k)'
  BY <1>1, SendKillsKeepsNetwork DEF SelectIInv
<1>3. rcvd > 0 /\ peer[fd] \in Clients
  <2>1. PICK other \in Fds : Sends(other) /\ peer[other] \in Clients
    BY <1>1 DEF SelectIInv, Serving
  <2>2. other = fd
    BY <1>1, <2>1, OneServed DEF Sends, AllFds, SelectIInv
  <2> QED
    BY <1>1, <2>1, <2>2 DEF SelectIInv, Serving
<1>4. client[peer[fd]] = "closed" /\ peer[fd] \in answered
  BY <1>1, <1>3 DEF SelectIInv, NetIInv, AnsweredFirst
<1>5. DiesOnlyOfEarlyClose'
  BY <1>1, <1>2, <1>3, <1>4 DEF DiesOnlyOfEarlyClose
<1>6. ServerTypes'
  BY <1>1 DEF SelectIInv, ServerTypes
<1>7. WatchesWhatIsOpen' /\ Ahead' /\ Serving'
  BY <1>1 DEF WatchesWhatIsOpen, Ahead, Serving
<1>8. Pieces(Held)'
  <2>1. PICK h \in [Clients -> Nat] : h = Held
    BY HeldCount DEF SelectIInv
  <2>2. Held' = [c \in Clients |-> 0]
    BY <1>1 DEF Held
  <2>3. PICK k \in [Clients -> {0}] : k = Held'
    BY <2>2
  <2>4. Pieces(h)
    BY <2>1, PiecesNow DEF SelectIInv
  <2>5. Pieces(k)'
    BY <1>2, <2>4
  <2> QED
    BY <2>3, <2>5, PiecesNext
<1> QED
  BY <1>2, <1>5, <1>6, <1>7, <1>8 DEF SelectIInv

-----------------------------------------------------------------------------
LEMMA SelectInvariant == Spec => []SelectIInv
<1>1. Init => SelectIInv
  BY SelectInitial
<1>2. SelectIInv /\ [Next]_vars => SelectIInv'
  <2> SUFFICES ASSUME SelectIInv, [Next]_vars PROVE SelectIInv'
    OBVIOUS
  <2>1. CASE UNCHANGED vars
    <3>1. /\ NetIInv' /\ Open' = Open /\ \A fd \in AllFds : Readable(fd)' <=> Readable(fd)
          /\ \A held \in [Clients -> Nat] : Pieces(held) => Pieces(held)'
      BY <2>1, NetworkSame DEF SelectIInv, vars
    <3>2. UNCHANGED <<client, peer, answered, reset, master, readfds, max, i, pc, rcvd>>
      BY <2>1 DEF vars, network, server
    <3>3. ServerTypes' /\ WatchesWhatIsOpen' /\ Serving' /\ Held' = Held /\ DiesOnlyOfEarlyClose'
      BY <3>1, <3>2 DEF SelectIInv, ServerTypes, WatchesWhatIsOpen, Serving, Sends, Due, Held,
         DiesOnlyOfEarlyClose
    <3>4. Ahead'
      BY <3>1, <3>2 DEF SelectIInv, ServerTypes, Ahead, Due
    <3>5. Pieces(Held)'
      BY <3>1, <3>3, SameHeld, HeldCount DEF SelectIInv
    <3> QED
      BY <3>1, <3>3, <3>4, <3>5 DEF SelectIInv
  <2>2. CASE Server
    BY <2>2, SelectKeeps, AcceptKeeps, EndScanKeeps, ReceiveKeeps, ReceiveErrorKeeps, HangupKeeps,
       SendKeeps, SendToResetKeeps DEF Server
  <2>3. CASE Environment /\ UNCHANGED server
    BY <2>3, EnvironmentKeeps
  <2> QED
    BY <2>1, <2>2, <2>3 DEF Next
<1> QED
  BY <1>1, <1>2, PTL DEF Spec

\* The select server and the network keep their types; in particular no more
\* pieces are anywhere than the message of a client has.
THEOREM SelectTypes == Spec => []TypeOK
<1>1. SelectIInv => TypeOK
  <2> SUFFICES ASSUME SelectIInv PROVE TypeOK
    OBVIOUS
  <2>1. PICK h \in [Clients -> Nat] : h = Held
    BY HeldCount DEF SelectIInv
  <2>2. NetworkTypeOK
    BY <2>1, PiecesNow, PiecesBound DEF SelectIInv, NetIInv
  <2> QED
    BY <2>2 DEF SelectIInv, ServerTypes, TypeOK
<1> QED
  BY <1>1, SelectInvariant, PTL

\* The select server watches its listening socket and every connection that is
\* open, and nothing else, all below max, for any number of clients.
THEOREM WatchesAllOpen == Spec => []WatchesWhatIsOpen
<1>1. SelectIInv => WatchesWhatIsOpen
  BY DEF SelectIInv
<1> QED
  BY <1>1, SelectInvariant, PTL

\* accept and recv never block the select server: what select found ready is
\* ready when the loop gets there, whatever clients and the network did since.
THEOREM LoopNeverBlocks == Spec => []NeverBlocks
<1>1. SelectIInv => NeverBlocks
  BY DEF SelectIInv, Ahead, NeverBlocks
<1> QED
  BY <1>1, SelectInvariant, PTL

\* While a client waits for its echo and its connection is open, every piece of
\* its message is in the network, with the select server or echoed to it, for
\* any number of clients and pieces.
THEOREM NothingIsLost == Spec => []EchoConserved
<1>1. SelectIInv => EchoConserved
  <2> SUFFICES ASSUME SelectIInv, NEW c \in Clients, client[c] = "receive", Connected(c)
               PROVE  wire[c] + inbox[c] + reply[c]
                        + (IF pc = "send" /\ \E fd \in Fds : Sends(fd) /\ peer[fd] = c THEN rcvd ELSE 0)
                      = Segments
    BY DEF EchoConserved
  <2>1. Tally(c, Held) = Segments
    BY DEF SelectIInv, Pieces, Live
  <2> QED
    BY <2>1 DEF Tally, Held
<1> QED
  BY <1>1, SelectInvariant, PTL

\* SIGPIPE can end the select server only while it sends to a client that has
\* closed after an answer.
THEOREM DiesOnlyOfThat == Spec => []DiesOnlyOfEarlyClose
<1>1. SelectIInv => DiesOnlyOfEarlyClose
  BY DEF SelectIInv
<1> QED
  BY <1>1, SelectInvariant, PTL
=============================================================================
