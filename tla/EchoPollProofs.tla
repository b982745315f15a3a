--------------------------- MODULE EchoPollProofs ---------------------------
(***************************************************************************)
(* The safety of the poll server, for any number of clients, descriptors   *)
(* and pieces and any length of the array: its types, that removing        *)
(* entries by swapping keeps the array in step with what is open, and      *)
(* that no piece of a message is lost or sent to another client, although  *)
(* the loop may act on events that poll did not report.                    *)
(*                                                                         *)
(* The array is in step because its entries after the first are the open   *)
(* connections, each once (InStep): that is more than the equality of two  *)
(* sets that WatchesWhatIsOpen states.                                     *)
(***************************************************************************)
EXTENDS EchoPoll, EchoNetworkProofs, FiniteSetTheorems

ServerTypes ==
    /\ fds \in [Entries -> Fds \cup {ListenFd, Unset}]
    /\ revents \in [Entries -> Events]
    /\ count \in 1 .. Capacity + 1
    /\ i \in 0 .. Capacity
    /\ pc \in {"poll", "scan", "send", "dead", "overrun"}
    /\ rcvd \in 0 .. Segments

\* The first entry is the listening socket, the others are the connections.
InStep == pc \notin {"dead", "overrun"} =>
    /\ count <= Capacity
    /\ fds[0] = ListenFd
    /\ \A e \in 1 .. count - 1 : fds[e] \in Open
    /\ \A fd \in Open : \E e \in 1 .. count - 1 : fds[e] = fd
    /\ \A e, f \in 1 .. count - 1 : fds[e] = fds[f] => e = f

\* While the server has something to send back, it is at a connection.
Serving == pc = "send" => rcvd > 0 /\ i \in 1 .. count - 1

\* An event of the listening socket, whose entry poll always writes, is true
\* until the loop has served it.
Arrived == pc = "scan" /\ i = 0 /\ revents[0] = "in" => backlog # <<>>

\* What the server has received from each client and not sent back.
Held == [c \in Clients |-> IF pc = "send" /\ peer[fds[i]] = c THEN rcvd ELSE 0]

\* As for the select server: a client that receives its whole echo before it
\* closes cannot end the process.
DiesOnlyOfEarlyClose == pc = "dead" =>
    rcvd > 0 /\ \E c \in answered : client[c] = "closed" /\ reset[c] # "no"

PollIInv ==
    /\ NetIInv /\ ServerTypes /\ InStep /\ Serving /\ Arrived
    /\ Pieces(Held) /\ DiesOnlyOfEarlyClose

-----------------------------------------------------------------------------
\* An entry that the loop serves as a connection is one that is open.
LEMMA AtConnection ==
    ASSUME PollIInv, pc \in {"scan", "send"}, i < count, fds[i] # ListenFd \/ pc = "send"
    PROVE  /\ i \in 1 .. count - 1 /\ count \in Nat /\ count <= Capacity /\ i \in Entries
           /\ i + 1 \in 0 .. Capacity
           /\ fds[i] \in Fds /\ fds[i] \in Open /\ peer[fds[i]] \in Clients
<1>1. count \in Nat /\ count <= Capacity /\ i \in Nat /\ Capacity \in Nat
  BY PollAssumption DEF PollIInv, ServerTypes, InStep
<1>2. i # 0
  BY <1>1 DEF PollIInv, InStep, Serving
<1>3. i \in 1 .. count - 1
  BY <1>1, <1>2
<1>4. fds[i] \in Open
  BY <1>3 DEF PollIInv, InStep
<1>5. fds[i] \in Fds /\ peer[fds[i]] \in Clients
  BY <1>4 DEF Open, PollIInv, NetIInv, NetTypes
<1> QED
  BY <1>1, <1>3, <1>4, <1>5 DEF Entries

LEMMA HeldCount ==
    ASSUME ServerTypes
    PROVE  Held \in [Clients -> Nat]
BY NetworkAssumption DEF ServerTypes, Held

\* Pieces speaks of a function; these name what Held is before and after a step.
LEMMA PiecesNow ==
    ASSUME Pieces(Held), NEW h, h = Held
    PROVE  Pieces(h)
OBVIOUS

LEMMA PiecesNext ==
    ASSUME NEW k, k = Held', Pieces(k)'
    PROVE  Pieces(Held)'
BY DEF Pieces, Tally

\* A step of which the server holds as much afterwards.
LEMMA SameHeld ==
    ASSUME ServerTypes, Held' = Held, Pieces(Held),
           \A held \in [Clients -> Nat] : Pieces(held) => Pieces(held)'
    PROVE  Pieces(Held)'
<1>1. PICK h \in [Clients -> Nat] : h = Held
  BY HeldCount
<1>2. Pieces(h)'
  BY <1>1, PiecesNow
<1> QED
  BY <1>1, <1>2, PiecesNext

\* A step of the server that leaves the network alone.
LEMMA NetworkSame ==
    ASSUME NetIInv, UNCHANGED network
    PROVE  /\ NetIInv' /\ Open' = Open /\ UNCHANGED <<client, backlog, peer, answered, reset>>
           /\ \A held \in [Clients -> Nat] : Pieces(held) => Pieces(held)'
BY DEF network, NetIInv, NetTypes, OneConnection, AnsweredFirst, Live, Queued, Connected, Open,
   Pieces, Tally

-----------------------------------------------------------------------------
\* The array holds the listening socket only.
LEMMA PollInitial == ASSUME Init PROVE PollIInv
<1>1. NetIInv
  BY NetworkInitial DEF Init
<1>2. ServerTypes
  BY NetworkAssumption, PollAssumption DEF Init, ServerTypes, Entries, Unset
<1>3. InStep
  <2>1. 0 \in Entries
    BY PollAssumption DEF Entries
  <2>2. fds[0] = ListenFd /\ count = 1 /\ Open = {} /\ 1 .. count - 1 = {}
    BY <2>1 DEF Init, NetworkInit, Open
  <2> QED
    BY <2>2, PollAssumption DEF InStep
<1>4. Serving /\ Arrived /\ DiesOnlyOfEarlyClose
  BY DEF Init, Serving, Arrived, DiesOnlyOfEarlyClose
<1>5. Pieces(Held)
  <2>1. Held \in [Clients -> {0}]
    BY DEF Init, Held
  <2> QED
    BY <2>1, PiecesInitial DEF Init
<1> QED
  BY <1>1, <1>2, <1>3, <1>4, <1>5 DEF PollIInv

\* Clients and the network.
LEMMA EnvironmentKeeps ==
    ASSUME PollIInv, Environment, UNCHANGED server
    PROVE  PollIInv'
<1>1. /\ NetIInv' /\ Patience
      /\ \A held \in [Clients -> Nat] : Pieces(held) => Pieces(held)'
  BY EnvironmentKeepsNetwork DEF PollIInv
<1>2. UNCHANGED <<peer, fds, revents, count, i, pc, rcvd>>
  BY <1>1 DEF Patience, server
<1>3. ServerTypes' /\ Serving' /\ InStep' /\ Held' = Held
  BY <1>2 DEF PollIInv, ServerTypes, Serving, InStep, Open, Held
<1>4. Arrived'
  BY <1>1, <1>2 DEF PollIInv, Arrived, Patience
<1>5. Pieces(Held)'
  BY <1>1, <1>3, SameHeld DEF PollIInv
<1>6. DiesOnlyOfEarlyClose'
  BY <1>1, <1>2 DEF PollIInv, DiesOnlyOfEarlyClose, Patience, NetIInv, NetTypes
<1> QED
  BY <1>1, <1>3, <1>4, <1>5, <1>6 DEF PollIInv

\* poll writes the event of the listening socket.
LEMMA PollKeeps ==
    ASSUME PollIInv, Poll
    PROVE  PollIInv'
<1>1. /\ NetIInv' /\ Open' = Open /\ UNCHANGED <<client, backlog, peer, answered, reset>>
      /\ \A held \in [Clients -> Nat] : Pieces(held) => Pieces(held)'
  BY NetworkSame DEF PollIInv, Poll
<1>2. /\ pc = "poll" /\ revents' \in [Entries -> Events]
      /\ \A e \in Entries :
           IF e < count THEN revents'[e] \in Reports(fds[e]) ELSE revents'[e] = revents[e]
      /\ i' = 0 /\ pc' = "scan" /\ UNCHANGED <<fds, count, rcvd>>
  BY DEF Poll
<1>3. ServerTypes' /\ Serving' /\ DiesOnlyOfEarlyClose' /\ Held' = Held
  BY <1>2, PollAssumption DEF PollIInv, ServerTypes, Serving, DiesOnlyOfEarlyClose, Held
<1>4. InStep'
  BY <1>1, <1>2 DEF PollIInv, InStep
<1>5. Arrived'
  <2>1. 0 \in Entries /\ 0 < count /\ fds[0] = ListenFd
    BY <1>2, PollAssumption DEF PollIInv, ServerTypes, InStep, Entries
  <2>2. revents'[0] \in Reports(ListenFd)
    BY <1>2, <2>1
  <2>3. revents'[0] = "in" => backlog # <<>>
    BY <2>2 DEF Reports, Readable
  <2> QED
    BY <1>1, <2>3 DEF Arrived
<1>6. Pieces(Held)'
  BY <1>1, <1>3, SameHeld DEF PollIInv
<1> QED
  BY <1>1, <1>3, <1>4, <1>5, <1>6 DEF PollIInv

\* A step of the loop that changes nothing but where it is.
LEMMA MovesKeeps ==
    ASSUME PollIInv, NetIInv', Open' = Open, pc = "scan", pc' \in {"scan", "poll"},
           i' \in 0 .. Capacity, pc' = "scan" => i' # 0,
           UNCHANGED <<fds, revents, count, rcvd>>,
           \A held \in [Clients -> Nat] : Pieces(held) => Pieces(held)'
    PROVE  PollIInv'
<1>1. ServerTypes' /\ Serving' /\ DiesOnlyOfEarlyClose' /\ Held' = Held /\ Arrived'
  BY DEF PollIInv, ServerTypes, Serving, DiesOnlyOfEarlyClose, Held, Arrived
<1>2. InStep'
  BY DEF PollIInv, InStep
<1>3. Pieces(Held)'
  BY <1>1, SameHeld DEF PollIInv
<1> QED
  BY <1>1, <1>2, <1>3 DEF PollIInv

LEMMA SkipKeeps ==
    ASSUME PollIInv, Skip
    PROVE  PollIInv'
<1>1. pc = "scan" /\ i < count /\ i' = i + 1 /\ UNCHANGED <<network, fds, revents, count, pc, rcvd>>
  BY DEF Skip, At
<1>2. i' \in 0 .. Capacity /\ i' # 0
  BY <1>1, PollAssumption DEF PollIInv, ServerTypes, InStep
<1>3. /\ NetIInv' /\ Open' = Open
      /\ \A held \in [Clients -> Nat] : Pieces(held) => Pieces(held)'
  BY <1>1, NetworkSame DEF PollIInv
<1> QED
  BY <1>1, <1>2, <1>3, MovesKeeps

LEMMA EndScanKeeps ==
    ASSUME PollIInv, EndScan
    PROVE  PollIInv'
<1>1. pc = "scan" /\ pc' = "poll" /\ UNCHANGED <<network, fds, revents, count, i, rcvd>>
  BY DEF EndScan
<1>2. i' \in 0 .. Capacity
  BY <1>1 DEF PollIInv, ServerTypes
<1>3. /\ NetIInv' /\ Open' = Open
      /\ \A held \in [Clients -> Nat] : Pieces(held) => Pieces(held)'
  BY <1>1, NetworkSame DEF PollIInv
<1> QED
  BY <1>1, <1>2, <1>3, MovesKeeps

\* The new connection is the new last entry; with no room for it the array is
\* overrun, or, with the comparison that the code makes, the connection closed.
LEMMA AcceptKeeps ==
    ASSUME PollIInv, Accept
    PROVE  PollIInv'
<1>1. /\ pc = "scan" /\ i < count /\ revents[i] = "in" /\ fds[i] = ListenFd
      /\ i' = i + 1 /\ UNCHANGED <<revents, rcvd>>
  BY DEF Accept, At, Connection
<1>2. count \in Nat /\ i \in Nat /\ Capacity \in Nat /\ count <= Capacity /\ count >= 1
  BY <1>1, PollAssumption DEF PollIInv, ServerTypes, InStep
<1>3. i = 0
  <2>1. \A e \in 1 .. count - 1 : fds[e] # ListenFd
    BY <1>1, DescriptorNumbers DEF PollIInv, InStep, Open
  <2> QED
    BY <1>1, <1>2, <2>1
<1>4. i' \in 0 .. Capacity /\ i' # 0
  BY <1>1, <1>2
<1>5. CASE ArrayFull
  <2>1. /\ backlog' = Tail(backlog)
        /\ UNCHANGED <<client, listening, peer, wire, inbox, reply, answered, reset>>
        /\ UNCHANGED <<fds, count, pc>>
    BY <1>5 DEF Accept
  <2>2. backlog # <<>>
    BY <1>1, <1>3 DEF PollIInv, Arrived
  <2>3. NetIInv' /\ \A held \in [Clients -> Nat] : Pieces(held) => Pieces(held)'
    BY <2>1, <2>2, DropKeepsNetwork DEF PollIInv
  <2>4. Open' = Open
    BY <2>1 DEF Open
  <2> QED
    BY <1>1, <1>4, <2>1, <2>3, <2>4, MovesKeeps
<1>6. CASE ~ArrayFull
  <2>1. PICK connfd \in Fds :
           AcceptAs(connfd) /\ fds' = [e \in Entries |-> IF e = count THEN connfd ELSE fds[e]]
    BY <1>6 DEF Accept
  <2>2. count' = count + 1 /\ pc' = IF count = Capacity THEN "overrun" ELSE pc
    BY <1>6 DEF Accept, Counted
  <2>3. /\ NetIInv' /\ peer[connfd] = NoClient /\ Open' = Open \cup {connfd}
        /\ \A held \in [Clients -> Nat] : Pieces(held) => Pieces(held)'
    BY <2>1, AcceptKeepsNetwork DEF PollIInv
  <2>4. fds' \in [Entries -> Fds \cup {ListenFd, Unset}]
    BY <2>1 DEF PollIInv, ServerTypes
  <2>5. ServerTypes'
    BY <1>1, <1>2, <1>4, <2>2, <2>4 DEF PollIInv, ServerTypes
  <2>6. InStep'
    <3> SUFFICES ASSUME count # Capacity
                 PROVE  /\ count' <= Capacity
                        /\ fds'[0] = ListenFd
                        /\ \A e \in 1 .. count' - 1 : fds'[e] \in Open'
                        /\ \A fd \in Open' : \E e \in 1 .. count' - 1 : fds'[e] = fd
                        /\ \A e, f \in 1 .. count' - 1 : fds'[e] = fds'[f] => e = f
      BY <2>2 DEF InStep
    <3>1. /\ count' - 1 = count /\ count' <= Capacity /\ count \in Entries /\ 0 \in Entries
          /\ \A e \in 1 .. count - 1 : e \in Entries /\ e # count
      BY <1>2, <2>2 DEF Entries
    <3>2. /\ fds'[count] = connfd /\ fds'[0] = fds[0]
          /\ \A e \in 1 .. count - 1 : fds'[e] = fds[e]
      BY <1>2, <2>1, <3>1
    <3>3. \A e \in 1 .. count : e = count \/ e \in 1 .. count - 1
      BY <1>2
    <3>4. connfd \notin Open
      BY <2>3 DEF Open
    <3>5. /\ fds[0] = ListenFd
          /\ \A e \in 1 .. count - 1 : fds[e] \in Open
          /\ \A fd \in Open : \E e \in 1 .. count - 1 : fds[e] = fd
          /\ \A e, f \in 1 .. count - 1 : fds[e] = fds[f] => e = f
      BY <1>1 DEF PollIInv, InStep
    <3>6. \A e \in 1 .. count : fds'[e] \in Open'
      BY <2>3, <3>2, <3>3, <3>5
    <3>7. \A fd \in Open' : \E e \in 1 .. count : fds'[e] = fd
      <4> SUFFICES ASSUME NEW fd \in Open' PROVE \E e \in 1 .. count : fds'[e] = fd
        OBVIOUS
      <4>1. CASE fd = connfd
        BY <1>2, <3>2, <4>1
      <4>2. CASE fd \in Open
        <5>1. PICK e \in 1 .. count - 1 : fds[e] = fd
          BY <3>5, <4>2
        <5>2. e \in 1 .. count
          BY <1>2
        <5> QED
          BY <3>2, <5>1, <5>2
      <4> QED
        BY <2>3, <4>1, <4>2
    <3>8. \A e, f \in 1 .. count : fds'[e] = fds'[f] => e = f
      BY <3>2, <3>3, <3>4, <3>5
    <3> QED
      BY <3>1, <3>2, <3>5, <3>6, <3>7, <3>8
  <2>7. Serving' /\ DiesOnlyOfEarlyClose' /\ Arrived' /\ Held' = Held
    BY <1>1, <1>4, <2>2 DEF Serving, DiesOnlyOfEarlyClose, Arrived, Held
  <2>8. Pieces(Held)'
    BY <2>3, <2>7, SameHeld DEF PollIInv
  <2> QED
    BY <2>3, <2>5, <2>6, <2>7, <2>8 DEF PollIInv
<1> QED
  BY <1>5, <1>6

\* What is received from a connection is held.
LEMMA ReceiveKeeps ==
    ASSUME PollIInv, Receive
    PROVE  PollIInv'
<1>1. PICK n \in 1 .. Segments : ReceiveSome(fds[i], n) /\ rcvd' = n
  BY DEF Receive
<1>2. /\ pc = "scan" /\ i < count /\ fds[i] # ListenFd
      /\ pc' = "send" /\ UNCHANGED <<fds, revents, count, i>>
  BY DEF Receive, At, Connection
<1>3. i \in 1 .. count - 1 /\ fds[i] \in Fds /\ peer[fds[i]] \in Clients
  BY <1>2, AtConnection
<1>4. n \in Nat /\ n > 0
  BY NetworkAssumption
<1>5. /\ NetIInv' /\ UNCHANGED <<client, listening, backlog, peer, answered, reset>>
      /\ \A h, k \in [Clients -> Nat] :
           Pieces(h) /\ k = [h EXCEPT ![peer[fds[i]]] = @ + n] => Pieces(k)'
  BY <1>1, <1>3, <1>4, ReceiveKeepsNetwork DEF PollIInv
<1>6. ServerTypes'
  BY <1>1, <1>2 DEF PollIInv, ServerTypes
<1>7. InStep'
  BY <1>2, <1>5 DEF PollIInv, InStep, Open
<1>8. Serving' /\ Arrived' /\ DiesOnlyOfEarlyClose'
  BY <1>1, <1>2, <1>3, <1>4 DEF Serving, Arrived, DiesOnlyOfEarlyClose
<1>9. Pieces(Held)'
  <2>1. Held = [c \in Clients |-> 0]
    BY <1>2 DEF Held
  <2>2. Held' = [c \in Clients |-> IF peer[fds[i]] = c THEN n ELSE 0]
    BY <1>1, <1>2, <1>5 DEF Held
  <2>3. PICK h \in [Clients -> Nat] : h = Held
    BY <2>1
  <2>4. PICK k \in [Clients -> Nat] : k = Held'
    BY <1>4, <2>2
  <2>5. k = [h EXCEPT ![peer[fds[i]]] = @ + n]
    BY <1>3, <1>4, <2>1, <2>2, <2>3, <2>4
  <2>6. Pieces(h)
    BY <2>3, PiecesNow DEF PollIInv
  <2>7. Pieces(k)'
    BY <1>5, <2>5, <2>6
  <2> QED
    BY <2>4, <2>7, PiecesNext
<1> QED
  BY <1>5, <1>6, <1>7, <1>8, <1>9 DEF PollIInv

LEMMA ReceiveErrorKeeps ==
    ASSUME PollIInv, ReceiveError
    PROVE  PollIInv'
<1>1. /\ pc = "scan" /\ i < count /\ fds[i] # ListenFd /\ ReceiveFails(fds[i])
      /\ i' = i + 1 /\ UNCHANGED <<fds, revents, count, pc, rcvd>>
  BY DEF ReceiveError, At, Connection
<1>2. fds[i] \in Fds /\ i + 1 \in 0 .. Capacity /\ i \in 1 .. count - 1 /\ count \in Nat
  BY <1>1, AtConnection
<1>3. /\ NetIInv' /\ peer' = peer
      /\ \A held \in [Clients -> Nat] : Pieces(held) => Pieces(held)'
  BY <1>1, <1>2, FailureKeepsNetwork DEF PollIInv
<1>4. Open' = Open /\ i' \in 0 .. Capacity /\ i' # 0
  BY <1>1, <1>2, <1>3 DEF Open
<1> QED
  BY <1>1, <1>3, <1>4, MovesKeeps

\* The last entry takes the place of the one that is removed: the entries are
\* then the others that are open, each once.
LEMMA RemoveKeeps ==
    ASSUME PollIInv, pc = "scan", i < count, fds[i] # ListenFd, Remove
    PROVE  PollIInv'
<1>1. /\ CloseFd(fds[i])
      /\ fds' = [fds EXCEPT ![i] = fds[count - 1]]
      /\ revents' = [revents EXCEPT ![i] = revents[count - 1]]
      /\ count' = count - 1 /\ i' = i + 1 /\ UNCHANGED <<pc, rcvd>>
  BY DEF Remove, LastEntry
<1>2. /\ i \in 1 .. count - 1 /\ count \in Nat /\ count <= Capacity /\ i \in Entries
      /\ i + 1 \in 0 .. Capacity /\ fds[i] \in Fds /\ fds[i] \in Open
  BY AtConnection
<1>3. count - 1 \in 1 .. count - 1 /\ count - 1 \in Entries /\ Capacity \in Nat
  BY <1>2, PollAssumption DEF Entries
<1>4. /\ NetIInv' /\ Open' = Open \ {fds[i]}
      /\ \A held \in [Clients -> Nat] : Pieces(held) => Pieces(held)'
  BY <1>1, <1>2, CloseFdKeepsNetwork DEF PollIInv
<1>5. ServerTypes'
  <2>1. fds' \in [Entries -> Fds \cup {ListenFd, Unset}] /\ revents' \in [Entries -> Events]
    BY <1>1, <1>3 DEF PollIInv, ServerTypes
  <2>2. count' \in 1 .. Capacity + 1
    BY <1>1, <1>2, <1>3
  <2> QED
    BY <1>1, <1>2, <2>1, <2>2 DEF PollIInv, ServerTypes
<1>6. InStep'
  <2>1. /\ fds[0] = ListenFd
        /\ \A e \in 1 .. count - 1 : fds[e] \in Open
        /\ \A fd \in Open : \E e \in 1 .. count - 1 : fds[e] = fd
        /\ \A e, f \in 1 .. count - 1 : fds[e] = fds[f] => e = f
    BY DEF PollIInv, InStep
  <2>2. fds'[i] = fds[count - 1] /\ \A e \in Entries \ {i} : fds'[e] = fds[e]
    BY <1>1, <1>2 DEF PollIInv, ServerTypes
  <2>3. /\ 0 \in Entries \ {i}
        /\ \A e \in 1 .. count - 1 : e \in Entries
        /\ \A e \in 1 .. count' - 1 : e \in 1 .. count - 1 /\ e # count - 1
        /\ \A e \in 1 .. count - 1 : e # count - 1 => e \in 1 .. count' - 1
        /\ count' <= Capacity
    BY <1>1, <1>2, <1>3 DEF Entries
  <2>4. fds'[0] = ListenFd
    BY <2>1, <2>2, <2>3
  <2>5. \A e \in 1 .. count' - 1 : fds'[e] = IF e = i THEN fds[count - 1] ELSE fds[e]
    BY <2>2, <2>3
  <2>6. \A e \in 1 .. count' - 1 : fds'[e] \in Open'
    BY <1>2, <1>3, <1>4, <2>1, <2>3, <2>5
  <2>7. ASSUME NEW fd \in Open' PROVE \E e \in 1 .. count' - 1 : fds'[e] = fd
    <3>1. PICK e \in 1 .. count - 1 : fds[e] = fd
      BY <1>4, <2>1, <2>7
    <3>2. e # i
      BY <1>4, <2>7, <3>1
    <3>3. CASE e = count - 1
      <4>1. i \in 1 .. count' - 1
        BY <1>2, <2>3, <3>2, <3>3
      <4> QED
        BY <2>5, <3>1, <3>3, <4>1
    <3>4. CASE e # count - 1
      <4>1. e \in 1 .. count' - 1
        BY <2>3, <3>4
      <4> QED
        BY <2>5, <3>1, <3>2, <4>1
    <3> QED
      BY <3>3, <3>4
  <2>8. \A e, f \in 1 .. count' - 1 : fds'[e] = fds'[f] => e = f
    BY <1>2, <1>3, <2>1, <2>3, <2>5
  <2> QED
    BY <2>3, <2>4, <2>6, <2>7, <2>8 DEF InStep
<1>7. Serving' /\ DiesOnlyOfEarlyClose' /\ Arrived' /\ Held' = Held
  BY <1>1, <1>2 DEF Serving, DiesOnlyOfEarlyClose, Arrived, Held
<1>8. Pieces(Held)'
  BY <1>4, <1>7, SameHeld DEF PollIInv
<1> QED
  BY <1>4, <1>5, <1>6, <1>7, <1>8 DEF PollIInv

\* What was held goes back to the client at the entry.
LEMMA SendKeeps ==
    ASSUME PollIInv, Send
    PROVE  PollIInv'
<1>1. /\ pc = "send" /\ (SendBack(fds[i], rcvd) \/ SendFails(fds[i]))
      /\ rcvd' = 0 /\ i' = i + 1 /\ pc' = "scan" /\ UNCHANGED <<fds, revents, count>>
  BY DEF Send, Echo
<1>2. i < count
  BY <1>1, PollAssumption DEF PollIInv, Serving, ServerTypes
<1>3. /\ i \in 1 .. count - 1 /\ i + 1 \in 0 .. Capacity /\ count \in Nat
      /\ fds[i] \in Fds /\ peer[fds[i]] \in Clients /\ rcvd \in Nat
  BY <1>1, <1>2, AtConnection, NetworkAssumption DEF PollIInv, ServerTypes
<1>4. /\ NetIInv' /\ UNCHANGED <<client, listening, backlog, peer, inbox, answered>>
      /\ \A h, k \in [Clients -> Nat] :
           Pieces(h) /\ h[peer[fds[i]]] = rcvd /\ k = [h EXCEPT ![peer[fds[i]]] = 0] => Pieces(k)'
  BY <1>1, <1>3, SendBackKeepsNetwork DEF PollIInv
<1>5. ServerTypes'
  BY <1>1, <1>3, NetworkAssumption DEF PollIInv, ServerTypes
<1>6. InStep'
  BY <1>1, <1>4 DEF PollIInv, InStep, Open
<1>7. Serving' /\ Arrived' /\ DiesOnlyOfEarlyClose'
  BY <1>1, <1>3 DEF Serving, Arrived, DiesOnlyOfEarlyClose
<1>8. Pieces(Held)'
  <2>1. Held = [c \in Clients |-> IF peer[fds[i]] = c THEN rcvd ELSE 0]
    BY <1>1 DEF Held
  <2>2. Held' = [c \in Clients |-> 0]
    BY <1>1 DEF Held
  <2>3. PICK h \in [Clients -> Nat] : h = Held
    BY <1>3, <2>1
  <2>4. PICK k \in [Clients -> Nat] : k = Held'
    BY <2>2
  <2>5. h[peer[fds[i]]] = rcvd /\ k = [h EXCEPT ![peer[fds[i]]] = 0]
    BY <1>3, <2>1, <2>2, <2>3, <2>4
  <2>6. Pieces(h)
    BY <2>3, PiecesNow DEF PollIInv
  <2>7. Pieces(k)'
    BY <1>4, <2>5, <2>6
  <2> QED
    BY <2>4, <2>7, PiecesNext
<1> QED
  BY <1>4, <1>5, <1>6, <1>7, <1>8 DEF PollIInv

LEMMA SendToResetKeeps ==
    ASSUME PollIInv, SendToReset
    PROVE  PollIInv'
<1>1. /\ pc = "send" /\ pc' = "dead" /\ UNCHANGED <<fds, revents, count, i, rcvd>>
      /\ SendKills(fds[i]) /\ reset[peer[fds[i]]] # "no"
  BY DEF SendToReset, SendKills
<1>2. i < count
  BY <1>1, PollAssumption DEF PollIInv, Serving, ServerTypes
<1>3. fds[i] \in Fds /\ peer[fds[i]] \in Clients /\ rcvd > 0
  BY <1>1, <1>2, AtConnection DEF PollIInv, Serving
<1>4. /\ NetIInv' /\ UNCHANGED <<client, inbox, answered, reset>>
      /\ \A h \in [Clients -> Nat], k \in [Clients -> {0}] : Pieces(h) => Pieces(k)'
  BY <1>1, <1>3, SendKillsKeepsNetwork DEF PollIInv
<1>5. client[peer[fds[i]]] = "closed" /\ peer[fds[i]] \in answered
  BY <1>1, <1>3 DEF PollIInv, NetIInv, AnsweredFirst
<1>6. DiesOnlyOfEarlyClose'
  BY <1>1, <1>3, <1>4, <1>5 DEF DiesOnlyOfEarlyClose
<1>7. ServerTypes'
  BY <1>1 DEF PollIInv, ServerTypes
<1>8. InStep' /\ Serving' /\ Arrived'
  BY <1>1 DEF InStep, Serving, Arrived
<1>9. Pieces(Held)'
  <2>1. PICK h \in [Clients -> Nat] : h = Held
    BY HeldCount DEF PollIInv
  <2>2. Held' = [c \in Clients |-> 0]
    BY <1>1 DEF Held
  <2>3. PICK k \in [Clients -> {0}] : k = Held'
    BY <2>2
  <2>4. Pieces(h)
    BY <2>1, PiecesNow DEF PollIInv
  <2>5. Pieces(k)'
    BY <1>4, <2>4
  <2> QED
    BY <2>3, <2>5, PiecesNext
<1> QED
  BY <1>4, <1>6, <1>7, <1>8, <1>9 DEF PollIInv

-----------------------------------------------------------------------------
LEMMA PollInvariant == Spec => []PollIInv
<1>1. Init => PollIInv
  BY PollInitial
<1>2. PollIInv /\ [Next]_vars => PollIInv'
  <2> SUFFICES ASSUME PollIInv, [Next]_vars PROVE PollIInv'
    OBVIOUS
  <2>1. CASE UNCHANGED vars
    <3>1. /\ NetIInv' /\ Open' = Open /\ UNCHANGED <<client, backlog, peer, answered, reset>>
          /\ \A held \in [Clients -> Nat] : Pieces(held) => Pieces(held)'
      BY <2>1, NetworkSame DEF PollIInv, vars
    <3>2. UNCHANGED <<fds, revents, count, i, pc, rcvd>>
      BY <2>1 DEF vars, server
    <3>3. ServerTypes' /\ InStep' /\ Serving' /\ Arrived' /\ Held' = Held /\ DiesOnlyOfEarlyClose'
      BY <3>1, <3>2 DEF PollIInv, ServerTypes, InStep, Serving, Arrived, Held, DiesOnlyOfEarlyClose
    <3>4. Pieces(Held)'
      BY <3>1, <3>3, SameHeld DEF PollIInv
    <3> QED
      BY <3>1, <3>3, <3>4 DEF PollIInv
  <2>2. CASE Hangup \/ HangupEvent
    BY <2>2, RemoveKeeps DEF Hangup, HangupEvent, At, Connection
  <2>3. CASE Server
    BY <2>2, <2>3, PollKeeps, SkipKeeps, AcceptKeeps, ReceiveKeeps, ReceiveErrorKeeps, SendKeeps,
       SendToResetKeeps, EndScanKeeps DEF Server
  <2>4. CASE Environment /\ UNCHANGED server
    BY <2>4, EnvironmentKeeps
  <2> QED
    BY <2>1, <2>3, <2>4 DEF Next
<1> QED
  BY <1>1, <1>2, PTL DEF Spec

\* The poll server and the network keep their types: the count stays within one
\* of the capacity, and no more pieces are anywhere than a message has.
THEOREM PollTypes == Spec => []TypeOK
<1>1. PollIInv => TypeOK
  <2> SUFFICES ASSUME PollIInv PROVE TypeOK
    OBVIOUS
  <2>1. PICK h \in [Clients -> Nat] : h = Held
    BY HeldCount DEF PollIInv
  <2>2. NetworkTypeOK
    BY <2>1, PiecesNow, PiecesBound DEF PollIInv, NetIInv
  <2> QED
    BY <2>2 DEF PollIInv, ServerTypes, TypeOK
<1> QED
  BY <1>1, PollInvariant, PTL

\* The first pfd_count entries of the array are the listening socket and every
\* connection that is open, each once, through any sequence of accepted
\* connections and of removals by swapping.
THEOREM ArrayInStep == Spec => []WatchesWhatIsOpen
<1>1. PollIInv => WatchesWhatIsOpen
  <2> SUFFICES ASSUME PollIInv, pc \notin {"dead", "overrun"}
               PROVE  fds[0] = ListenFd /\ Watched = Open \cup {ListenFd} /\ Cardinality(Watched) = count
    BY DEF WatchesWhatIsOpen
  <2>1. /\ fds[0] = ListenFd
        /\ \A e \in 1 .. count - 1 : fds[e] \in Open
        /\ \A fd \in Open : \E e \in 1 .. count - 1 : fds[e] = fd
        /\ \A e, f \in 1 .. count - 1 : fds[e] = fds[f] => e = f
    BY DEF PollIInv, InStep
  <2>2. count \in Nat /\ count >= 1
    BY PollAssumption DEF PollIInv, ServerTypes
  <2>3. \A e \in 0 .. count - 1 : e = 0 \/ e \in 1 .. count - 1
    BY <2>2
  <2>4. 0 \in 0 .. count - 1 /\ \A e \in 1 .. count - 1 : e \in 0 .. count - 1
    BY <2>2
  <2>5. Watched = Open \cup {ListenFd}
    <3>1. Watched \subseteq Open \cup {ListenFd}
      BY <2>1, <2>3 DEF Watched
    <3>2. Open \subseteq Watched
      BY <2>1, <2>4 DEF Watched
    <3>3. ListenFd \in Watched
      BY <2>1, <2>4 DEF Watched
    <3> QED
      BY <3>1, <3>2, <3>3
  <2>6. ListenFd \notin Open
    BY DescriptorNumbers DEF Open
  <2> DEFINE at == [e \in 0 .. count - 1 |-> fds[e]]
  <2>7. at \in Surjection(0 .. count - 1, Watched)
    BY DEF Watched, Surjection
  <2>8. at \in Injection(0 .. count - 1, Watched)
    <3>1. \A e, f \in 0 .. count - 1 : fds[e] = fds[f] => e = f
      BY <2>1, <2>3, <2>6
    <3> QED
      BY <2>7, <3>1 DEF Injection, IsInjective, Surjection
  <2>9. IsFiniteSet(0 .. count - 1) /\ Cardinality(0 .. count - 1) = count
    BY <2>2, FS_Interval
  <2>10. Cardinality(Watched) = count
    BY <2>7, <2>8, <2>9, FS_Surjection
  <2> QED
    BY <2>1, <2>5, <2>10
<1> QED
  BY <1>1, PollInvariant, PTL

\* While a client waits for its echo and its connection is open, every piece of
\* its message is in the network, with the poll server or echoed to it, even
\* when the loop acts on events of other descriptors.
THEOREM NothingIsLostByPoll ==
    Spec => [](\A c \in Clients : client[c] = "receive" /\ Connected(c) => Tally(c, Held) = Segments)
<1>1. PollIInv => \A c \in Clients : client[c] = "receive" /\ Connected(c) => Tally(c, Held) = Segments
  BY DEF PollIInv, Pieces, Live
<1> QED
  BY <1>1, PollInvariant, PTL

\* As with select, SIGPIPE can end the poll server only while it sends to a
\* client that has closed after an answer.
THEOREM PollDiesOnlyOfThat == Spec => []DiesOnlyOfEarlyClose
<1>1. PollIInv => DiesOnlyOfEarlyClose
  BY DEF PollIInv
<1> QED
  BY <1>1, PollInvariant, PTL
=============================================================================
