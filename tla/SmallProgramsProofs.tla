------------------------- MODULE SmallProgramsProofs -------------------------
(***************************************************************************)
(* What the small programs keep, for all buffers, datagrams, pointers,     *)
(* objects, limits and numbers of calls.  Each program has an invariant of *)
(* its own, which the steps of the others leave alone.                     *)
(***************************************************************************)
EXTENDS SmallPrograms, FiniteSetTheorems, FunctionTheorems, SequenceTheorems,
        WellFoundedInduction, TLAPS

-----------------------------------------------------------------------------
(* The owning pointers.  OwnedOnce is inductive together with the type     *)
(* invariant: a new object is one that is still free, which no pointer and *)
(* no caller can hold, for they hold objects that are alive or deleted.    *)

OwnIInv == OwnTypeOK /\ OwnedOnce

\* The initial states satisfy the invariant.
LEMMA OwnInitial == OwnInit => OwnIInv
BY PointerAssumption DEF OwnInit, Unborn, OwnIInv, OwnTypeOK, OwnedOnce, OneOwnerEach,
   DanglesOnlyAfterThrow, UniquePtrIsSafe, Owns, Classes

\* Deleting what p refers to leaves every other object as it is.
LEMMA DeletedHeap ==
    ASSUME OwnTypeOK, NEW p \in Pointers
    PROVE  /\ Deleted(p) \in [Objects -> {"free", "live", "deleted"}]
           /\ \A o \in Objects : Deleted(p)[o] = IF o = ptr[p] THEN "deleted" ELSE heap[o]
BY DEF OwnTypeOK, Deleted, Owns

\* Under the invariant no pointer, and no caller, holds a free object.
LEMMA NewIsFree ==
    ASSUME OwnIInv, NEW o \in Objects, New(o)
    PROVE  o \notin raw /\ \A p \in Pointers : ptr[p] # o
BY DEF OwnIInv, OwnTypeOK, OwnedOnce, DanglesOnlyAfterThrow, Owns, New

\* Undefined behaviour needs Auto_ptr4.
LEMMA UndefKeeps ==
    ASSUME OwnIInv, Undef, class = "Auto_ptr4"
    PROVE  OwnIInv'
BY DEF OwnIInv, OwnTypeOK, OwnedOnce, OneOwnerEach, DanglesOnlyAfterThrow, UniquePtrIsSafe,
   Owns, Undef, Classes

\* A pointer dangles only in Auto_ptr4.
LEMMA DanglesInAuto ==
    ASSUME OwnIInv, NEW p \in Pointers, Dangles(p)
    PROVE  class = "Auto_ptr4"
BY DEF OwnIInv, OwnTypeOK, OwnedOnce, DanglesOnlyAfterThrow, UniquePtrIsSafe, Owns, Dangles, Classes

\* Every step keeps the invariant.
LEMMA OwnStepKeeps ==
    ASSUME OwnIInv, OwnNext
    PROVE  OwnIInv'
<1> USE PointerAssumption
    DEF OwnIInv, OwnTypeOK, OwnedOnce, OneOwnerEach, DanglesOnlyAfterThrow, UniquePtrIsSafe,
        Owns, Dangles, Constructed, New, Classes
<1>1. ASSUME NEW p \in Pointers, Default(p) PROVE OwnIInv'
  BY <1>1 DEF Default
<1>2. ASSUME NEW p \in Pointers, DestroyOwner(p) PROVE OwnIInv'
  <2>1. CASE Dangles(p)
    BY <1>2, <2>1, DanglesInAuto, UndefKeeps DEF DestroyOwner
  <2>2. CASE ~Dangles(p)
    <3>1. OwnTypeOK'
      <4>1. Deleted(p) \in [Objects -> {"free", "live", "deleted"}]
        BY DeletedHeap
      <4>2. heap' \in [Objects -> {"free", "live", "deleted"}]
        BY <4>1, <1>2, <2>2, DeletedHeap DEF DestroyOwner
      <4>3. ptr' \in [Pointers -> Objects \cup {Null, Absent}]
        BY <1>2, <2>2, DeletedHeap DEF DestroyOwner
      <4> QED BY <4>2, <4>3, <1>2, <2>2, DeletedHeap DEF DestroyOwner
    <3>2. OneOwnerEach'
      BY <1>2, <2>2, DeletedHeap DEF DestroyOwner
    <3>3. UniquePtrIsSafe'
      BY <1>2, <2>2, DeletedHeap DEF DestroyOwner
    <3>4. DanglesOnlyAfterThrow'
      <4>1. \A r \in Pointers : Owns(r)' => heap'[ptr'[r]] = "live"
                \/ (heap'[ptr'[r]] = "deleted" /\ "assignment" \in thrown')
        BY <1>2, <2>2, DeletedHeap DEF DestroyOwner
      <4>2. \A x \in raw' : heap'[x] = "live"
        BY <1>2, <2>2, DeletedHeap DEF DestroyOwner
      <4>3. \A x \in Objects : heap'[x] = "live" =>
                x \in raw' \/ (\E r \in Pointers : ptr'[r] = x) \/ "construction" \in thrown'
        BY <1>2, <2>2, DeletedHeap DEF DestroyOwner
      <4> QED BY <4>1, <4>2, <4>3
    <3> QED BY <3>1, <3>2, <3>3, <3>4
  <2> QED BY <2>1, <2>2
<1>3. ASSUME NEW p \in Pointers, ReleaseOwner(p) PROVE OwnIInv'
  BY <1>3 DEF ReleaseOwner
<1>4. ASSUME NEW p \in Pointers, NEW o \in Objects, ConstructNew(p, o) PROVE OwnIInv'
  BY <1>4, NewIsFree DEF ConstructNew
<1>5. ASSUME NEW p \in Pointers, NEW o \in Objects, AssignGenerated(p, o) PROVE OwnIInv'
  <2>1. CASE Dangles(p)
    BY <1>5, <2>1, DanglesInAuto, UndefKeeps DEF AssignGenerated
  <2>2. CASE ~Dangles(p)
    <3>1. OwnTypeOK'
      <4>1. Deleted(p) \in [Objects -> {"free", "live", "deleted"}]
        BY DeletedHeap
      <4>2. heap' \in [Objects -> {"free", "live", "deleted"}]
        BY <4>1, <1>5, <2>2, NewIsFree, DeletedHeap DEF AssignGenerated
      <4>3. ptr' \in [Pointers -> Objects \cup {Null, Absent}]
        BY <1>5, <2>2, NewIsFree, DeletedHeap DEF AssignGenerated
      <4> QED BY <4>2, <4>3, <1>5, <2>2, NewIsFree, DeletedHeap DEF AssignGenerated
    <3>2. OneOwnerEach'
      BY <1>5, <2>2, NewIsFree, DeletedHeap DEF AssignGenerated
    <3>3. UniquePtrIsSafe'
      BY <1>5, <2>2, NewIsFree, DeletedHeap DEF AssignGenerated
    <3>4. DanglesOnlyAfterThrow'
      <4>1. \A r \in Pointers : Owns(r)' => heap'[ptr'[r]] = "live"
                \/ (heap'[ptr'[r]] = "deleted" /\ "assignment" \in thrown')
        BY <1>5, <2>2, NewIsFree, DeletedHeap DEF AssignGenerated
      <4>2. \A x \in raw' : heap'[x] = "live"
        BY <1>5, <2>2, NewIsFree, DeletedHeap DEF AssignGenerated
      <4>3. \A x \in Objects : heap'[x] = "live" =>
                x \in raw' \/ (\E r \in Pointers : ptr'[r] = x) \/ "construction" \in thrown'
        BY <1>5, <2>2, NewIsFree, DeletedHeap DEF AssignGenerated
      <4> QED BY <4>1, <4>2, <4>3
    <3> QED BY <3>1, <3>2, <3>3, <3>4
  <2> QED BY <2>1, <2>2
<1>6. ASSUME NEW p \in Pointers, NEW target \in Objects \cup {Null}, ResetOwner(p, target)
      PROVE  OwnIInv'
  <2>1. CASE target = Null
    BY <1>6, <2>1, DeletedHeap DEF ResetOwner
  <2>2. CASE target \in Objects /\ New(target)
    BY <1>6, <2>2, NewIsFree, DeletedHeap DEF ResetOwner
  <2>3. CASE target \in raw
    BY <1>6, <2>3, DeletedHeap DEF ResetOwner
  <2> QED BY <1>6, <2>1, <2>2, <2>3 DEF ResetOwner
<1>7. ASSUME NEW p \in Pointers, NEW q \in Pointers, MoveConstructOwner(p, q) PROVE OwnIInv'
  BY <1>7 DEF MoveConstructOwner, Stolen
<1>8. ASSUME NEW p \in Pointers, NEW q \in Pointers, MoveAssignOwner(p, q) PROVE OwnIInv'
  <2>1. CASE Dangles(p)
    BY <1>8, <2>1, DanglesInAuto, UndefKeeps DEF MoveAssignOwner
  <2>2. CASE ~Dangles(p)
    <3>1. OwnTypeOK'
      <4>1. Deleted(p) \in [Objects -> {"free", "live", "deleted"}]
        BY DeletedHeap
      <4>2. heap' \in [Objects -> {"free", "live", "deleted"}]
        BY <4>1, <1>8, <2>2, DeletedHeap DEF MoveAssignOwner, Stolen
      <4>3. ptr' \in [Pointers -> Objects \cup {Null, Absent}]
        BY <1>8, <2>2, DeletedHeap DEF MoveAssignOwner, Stolen
      <4> QED BY <4>2, <4>3, <1>8, <2>2, DeletedHeap DEF MoveAssignOwner, Stolen
    <3>2. OneOwnerEach'
      BY <1>8, <2>2, DeletedHeap DEF MoveAssignOwner, Stolen
    <3>3. UniquePtrIsSafe'
      BY <1>8, <2>2, DeletedHeap DEF MoveAssignOwner, Stolen
    <3>4. DanglesOnlyAfterThrow'
      <4>1. \A r \in Pointers : Owns(r)' => heap'[ptr'[r]] = "live"
                \/ (heap'[ptr'[r]] = "deleted" /\ "assignment" \in thrown')
        BY <1>8, <2>2, DeletedHeap DEF MoveAssignOwner, Stolen
      <4>2. \A x \in raw' : heap'[x] = "live"
        BY <1>8, <2>2, DeletedHeap DEF MoveAssignOwner, Stolen
      <4>3. \A x \in Objects : heap'[x] = "live" =>
                x \in raw' \/ (\E r \in Pointers : ptr'[r] = x) \/ "construction" \in thrown'
        <5> SUFFICES ASSUME NEW x \in Objects, heap'[x] = "live"
                     PROVE  x \in raw \/ (\E r \in Pointers : ptr'[r] = x) \/ "construction" \in thrown
          BY <1>8, <2>2 DEF MoveAssignOwner
        <5>1. heap' = Deleted(p) /\ p # q /\ ptr' = Stolen(p, q)
          BY <1>8, <2>2 DEF MoveAssignOwner
        <5>2. ptr'[p] = ptr[q] /\ \A r \in Pointers \ {p, q} : ptr'[r] = ptr[r]
          BY <5>1 DEF Stolen
        <5>3. heap[x] = "live" /\ ptr[p] # x
          BY <5>1, DeletedHeap DEF Deleted, Owns
        <5>4. x \in raw \/ (\E r \in Pointers : ptr[r] = x) \/ "construction" \in thrown
          BY <5>3
        <5> QED BY <5>2, <5>3, <5>4
      <4> QED BY <4>1, <4>2, <4>3
    <3> QED BY <3>1, <3>2, <3>3, <3>4
  <2> QED BY <2>1, <2>2
<1>9. ASSUME NEW p \in Pointers, NEW q \in Pointers, CopyRefused(p, q) PROVE OwnIInv'
  BY <1>9 DEF CopyRefused
<1>10. ASSUME NEW p \in Pointers, NEW q \in Pointers, SwapOwners(p, q) PROVE OwnIInv'
  BY <1>10 DEF SwapOwners
<1>11. ASSUME NEW p \in Pointers, NEW q \in Pointers, NEW o \in Objects, CopyConstructOwner(p, q, o)
       PROVE  OwnIInv'
  <2>1. CASE Undef
    BY <1>11, <2>1, UndefKeeps DEF CopyConstructOwner
  <2>2. CASE heap' = [heap EXCEPT ![o] = "live"] /\ ptr' = [ptr EXCEPT ![p] = o] /\ outcome' = "ok"
             /\ UNCHANGED <<class, raw, thrown>>
    BY <1>11, <2>2, NewIsFree DEF CopyConstructOwner
  <2>3. CASE /\ heap' \in {heap, [heap EXCEPT ![o] = "live"]} /\ outcome' = "threw"
             /\ thrown' = thrown \cup {"construction"} /\ UNCHANGED <<class, ptr, raw>>
    BY <1>11, <2>3, NewIsFree DEF CopyConstructOwner
  <2> QED BY <1>11, <2>1, <2>2, <2>3 DEF CopyConstructOwner
<1>12. ASSUME NEW p \in Pointers, NEW q \in Pointers, NEW o \in Objects, CopyAssignOwner(p, q, o)
       PROVE  OwnIInv'
  <2>1. CASE Undef
    BY <1>12, <2>1, UndefKeeps DEF CopyAssignOwner
  <2>2. CASE /\ ~Dangles(p) /\ heap' = [Deleted(p) EXCEPT ![o] = "live"]
             /\ ptr' = [ptr EXCEPT ![p] = o] /\ outcome' \in {"ok", "threw"}
             /\ thrown' \in {thrown, thrown \cup {"assignment"}} /\ UNCHANGED <<class, raw>>
    BY <1>12, <2>2, NewIsFree, DeletedHeap DEF CopyAssignOwner
  <2>3. CASE /\ ~Dangles(p) /\ heap' = Deleted(p) /\ outcome' = "threw"
             /\ thrown' = thrown \cup {"assignment"} /\ UNCHANGED <<class, ptr, raw>>
    BY <1>12, <2>3, DeletedHeap DEF CopyAssignOwner
  <2> QED BY <1>12, <2>1, <2>2, <2>3 DEF CopyAssignOwner
<1> QED
  BY <1>1, <1>2, <1>3, <1>4, <1>5, <1>6, <1>7, <1>8, <1>9, <1>10, <1>11, <1>12
  DEF OwnNext, OwnStep

-----------------------------------------------------------------------------
(* The connection factory.  The limit alone is not inductive: a            *)
(* disconnection must find the count above zero, which needs the count to  *)
(* be that of the connections and the lost slots, and main is refused as   *)
(* often as the property says because none of its connections is closed    *)
(* while it still asks.                                                    *)

FactoryTypeOK ==
    /\ user \in {"main", "library"}
    /\ factory \in Databases \cup {"none", "destroyed"}
    /\ num \in Nat /\ conns \in Nat /\ slotsLost \in Nat /\ failures \in Nat
    /\ attempts \in 0 .. Attempts

\* main, as long as it asks, has every connection it was given.
MainKeepsAll ==
    user = "main" =>
        /\ slotsLost = 0
        /\ factory = "none" => attempts = 0
        /\ attempts < Attempts => conns = attempts - failures
        /\ failures = IF attempts <= MaxConnections THEN 0 ELSE attempts - MaxConnections
        /\ factory = "destroyed" => conns = 0

Counted ==
    /\ factory # "destroyed" => num = conns + slotsLost
    /\ num <= MaxConnections
    /\ broken => user = "library" /\ factory = "destroyed"

FactoryIInv == FactoryTypeOK /\ MainKeepsAll /\ Counted

\* Nothing is made and nothing asked for.
LEMMA FactoryInitial == FactoryInit => FactoryIInv
BY FactoryAssumption
   DEF FactoryInit, NothingMade, FactoryIInv, FactoryTypeOK, MainKeepsAll, Counted, Databases

\* Every call keeps the counts.
LEMMA FactoryStepKeeps ==
    ASSUME FactoryIInv, FactoryNext
    PROVE  FactoryIInv'
<1> USE FactoryAssumption DEF FactoryIInv, FactoryTypeOK, MainKeepsAll, Counted, Databases
<1>1. ASSUME NEW db \in Databases, MakeFactory(db) PROVE FactoryIInv'
  BY <1>1 DEF MakeFactory
<1>2. CASE CreateRefused
  BY <1>2 DEF CreateRefused, Asked
<1>3. CASE CreateConn
  BY <1>3 DEF CreateConn, Asked
<1>4. CASE CreateThrows
  BY <1>4 DEF CreateThrows, Asked
<1>5. CASE CloseConn
  BY <1>5 DEF CloseConn, Disconnected
<1>6. CASE DestroyFactory
  BY <1>6 DEF DestroyFactory
<1> QED
  BY <1>1, <1>2, <1>3, <1>4, <1>5, <1>6 DEF FactoryNext

-----------------------------------------------------------------------------
(* The socket programs.  A script has a path: the stages its process goes   *)
(* through, one before each call and one at the end, in which every call    *)
(* finds what it needs.  A stage holds the address list, the descriptors    *)
(* and what has been done with the peer: "in", nothing sent back yet;       *)
(* "echo", the request received; "held", a datagram received; "over".       *)

Stages == [addresses : {"none", "found", "freed"},
           sock : {"none", "made", "bound", "listening", "connected", "closed"},
           conn : {"none", "connected", "closed"}, phase : {"in", "echo", "held", "over"}]

Stage(addresses, sock, conn, phase) == [addresses |-> addresses, sock |-> sock, conn |-> conn, phase |-> phase]

\* The call leads from stage s, where it finds what it needs, to stage t.
Takes(call, s, t) ==
    LET Listed(addresses) == t = Stage(addresses, s.sock, s.conn, s.phase)
        Socketed(sock)    == t = Stage(s.addresses, sock, s.conn, s.phase)
        Linked(conn)      == t = Stage(s.addresses, s.sock, conn, s.phase)
        Met(phase)        == t = Stage(s.addresses, s.sock, s.conn, phase)
    IN \/ call = "getaddrinfo" /\ Listed("found")
       \/ call = "freeaddrinfo" /\ s.addresses = "found" /\ Listed("freed")
       \/ call = "socket" /\ s.addresses = "found" /\ Socketed("made")
       \/ call = "setsockopt" /\ s.sock = "made" /\ Socketed("made")
       \/ call = "bind" /\ s.addresses = "found" /\ s.sock = "made" /\ Socketed("bound")
       \/ call = "connect" /\ s.addresses = "found" /\ s.sock = "made" /\ Socketed("connected")
       \/ call = "listen" /\ s.sock = "bound" /\ Socketed("listening")
       \/ call = "accept" /\ s.sock = "listening" /\ Linked("connected")
       \/ call = "recv_loop" /\ s.conn = "connected" /\ s.phase = "in" /\ Met("echo")
       \/ call = "send_loop" /\ s.conn = "connected" /\ s.phase = "echo" /\ Met("over")
       \/ call = "recvfrom" /\ s.sock = "bound" /\ s.phase = "in" /\ Met("held")
       \/ call = "print" /\ s.sock = "bound" /\ s.phase = "held" /\ Met("over")
       \/ call = "sendto" /\ s.sock # "none" /\ s.phase = "held" /\ Met("over")
       \/ call = "close_conn" /\ s.conn = "connected" /\ Linked("closed")
       \/ call = "close_sock" /\ s.sock \notin {"none", "closed"} /\ Socketed("closed")

\* G is the path of the script S from the phase first.
Path(S, G, first) ==
    /\ Len(S) \in Nat
    /\ \A k \in 1 .. Len(S) + 1 : G[k] \in Stages
    /\ G[1] = [addresses |-> "none", sock |-> "none", conn |-> "none", phase |-> first]
    /\ \A k \in 1 .. Len(S) : /\ Takes(S[k].call, G[k], G[k + 1])
                              /\ S[k].tests = "-1" => S = LoopSetup /\ k = 1
    /\ S # LoopSetup => /\ G[Len(S) + 1].sock \in {"none", "closed"}
                        /\ G[Len(S) + 1].conn \in {"none", "closed"}

\* The path of a client that only sends.
LEMMA TargetClientPath == \E G : Path(TargetClient, G, "held")
<1>1. /\ Len(TargetClient) = 5
      /\ TargetClient[1].call = "getaddrinfo" /\ TargetClient[2].call = "socket"
      /\ TargetClient[3].call = "sendto" /\ TargetClient[4].call = "freeaddrinfo"
      /\ TargetClient[5].call = "close_sock"
  BY DEF TargetClient, Try, Cleanly, Do
<1>2. PICK G : /\ G[1] = Stage("none", "none", "none", "held")
               /\ G[2] = Stage("found", "none", "none", "held")
               /\ G[3] = Stage("found", "made", "none", "held")
               /\ G[4] = Stage("found", "made", "none", "over")
               /\ G[5] = Stage("freed", "made", "none", "over")
               /\ G[6] = Stage("freed", "closed", "none", "over")
  <2> WITNESS <<Stage("none", "none", "none", "held"), Stage("found", "none", "none", "held"),
              Stage("found", "made", "none", "held"), Stage("found", "made", "none", "over"),
              Stage("freed", "made", "none", "over"), Stage("freed", "closed", "none", "over")>>
  <2> QED
    OBVIOUS
<1>3. \A k \in 1 .. 6 : G[k] \in Stages
  <2>1. \A k \in 1 .. 6 : k \in {1, 2, 3, 4, 5, 6}
    OBVIOUS
  <2> QED
    BY <1>2, <2>1 DEF Stages, Stage
<1>4. \A k \in 1 .. 5 : Takes(TargetClient[k].call, G[k], G[k + 1])
  <2>1. \A k \in 1 .. 5 : k \in {1, 2, 3, 4, 5}
    OBVIOUS
  <2> QED
    BY <1>1, <1>2, <2>1 DEF Takes, Stage
<1>5. \A k \in 1 .. 5 : TargetClient[k].tests # "-1"
  <2>1. \A k \in 1 .. 5 : k \in {1, 2, 3, 4, 5}
    OBVIOUS
  <2> QED
    BY <2>1 DEF TargetClient, Try, Cleanly, Do
<1>6. G[6].sock \in {"none", "closed"} /\ G[6].conn \in {"none", "closed"}
  BY <1>2 DEF Stage
<1>7. Path(TargetClient, G, "held")
  BY <1>1, <1>2, <1>3, <1>4, <1>5, <1>6 DEF Path, Stage
<1> QED
  BY <1>7

\* The path of target.c as a server.
LEMMA TargetServerPath == \E G : Path(TargetServer, G, "in")
<1>1. /\ Len(TargetServer) = 8
      /\ TargetServer[1].call = "getaddrinfo" /\ TargetServer[2].call = "socket"
      /\ TargetServer[3].call = "setsockopt" /\ TargetServer[4].call = "bind"
      /\ TargetServer[5].call = "recvfrom" /\ TargetServer[6].call = "print"
      /\ TargetServer[7].call = "freeaddrinfo" /\ TargetServer[8].call = "close_sock"
  BY DEF TargetServer, Try, Cleanly, Do
<1>2. PICK G : /\ G[1] = Stage("none", "none", "none", "in")
               /\ G[2] = Stage("found", "none", "none", "in")
               /\ G[3] = Stage("found", "made", "none", "in")
               /\ G[4] = Stage("found", "made", "none", "in")
               /\ G[5] = Stage("found", "bound", "none", "in")
               /\ G[6] = Stage("found", "bound", "none", "held")
               /\ G[7] = Stage("found", "bound", "none", "over")
               /\ G[8] = Stage("freed", "bound", "none", "over")
               /\ G[9] = Stage("freed", "closed", "none", "over")
  <2> WITNESS <<Stage("none", "none", "none", "in"), Stage("found", "none", "none", "in"),
              Stage("found", "made", "none", "in"), Stage("found", "made", "none", "in"),
              Stage("found", "bound", "none", "in"), Stage("found", "bound", "none", "held"),
              Stage("found", "bound", "none", "over"), Stage("freed", "bound", "none", "over"),
              Stage("freed", "closed", "none", "over")>>
  <2> QED
    OBVIOUS
<1>3. \A k \in 1 .. 9 : G[k] \in Stages
  <2>1. \A k \in 1 .. 9 : k \in {1, 2, 3, 4, 5, 6, 7, 8, 9}
    OBVIOUS
  <2> QED
    BY <1>2, <2>1 DEF Stages, Stage
<1>4. \A k \in 1 .. 8 : Takes(TargetServer[k].call, G[k], G[k + 1])
  <2>1. \A k \in 1 .. 8 : k \in {1, 2, 3, 4, 5, 6, 7, 8}
    OBVIOUS
  <2> QED
    BY <1>1, <1>2, <2>1 DEF Takes, Stage
<1>5. \A k \in 1 .. 8 : TargetServer[k].tests # "-1"
  <2>1. \A k \in 1 .. 8 : k \in {1, 2, 3, 4, 5, 6, 7, 8}
    OBVIOUS
  <2> QED
    BY <2>1 DEF TargetServer, Try, Cleanly, Do
<1>6. G[9].sock \in {"none", "closed"} /\ G[9].conn \in {"none", "closed"}
  BY <1>2 DEF Stage
<1>7. Path(TargetServer, G, "in")
  BY <1>1, <1>2, <1>3, <1>4, <1>5, <1>6 DEF Path, Stage
<1> QED
  BY <1>7

\* The path of socket.c.
LEMMA SocketPath == \E G : Path(Socket, G, "in")
<1>1. /\ Len(Socket) = 3
      /\ Socket[1].call = "getaddrinfo" /\ Socket[2].call = "socket"
      /\ Socket[3].call = "close_sock"
  BY DEF Socket, Try, Cleanly, Do
<1>2. PICK G : /\ G[1] = Stage("none", "none", "none", "in")
               /\ G[2] = Stage("found", "none", "none", "in")
               /\ G[3] = Stage("found", "made", "none", "in")
               /\ G[4] = Stage("found", "closed", "none", "in")
  <2> WITNESS <<Stage("none", "none", "none", "in"), Stage("found", "none", "none", "in"),
              Stage("found", "made", "none", "in"), Stage("found", "closed", "none", "in")>>
  <2> QED
    OBVIOUS
<1>3. \A k \in 1 .. 4 : G[k] \in Stages
  <2>1. \A k \in 1 .. 4 : k \in {1, 2, 3, 4}
    OBVIOUS
  <2> QED
    BY <1>2, <2>1 DEF Stages, Stage
<1>4. \A k \in 1 .. 3 : Takes(Socket[k].call, G[k], G[k + 1])
  <2>1. \A k \in 1 .. 3 : k \in {1, 2, 3}
    OBVIOUS
  <2> QED
    BY <1>1, <1>2, <2>1 DEF Takes, Stage
<1>5. \A k \in 1 .. 3 : Socket[k].tests # "-1"
  <2>1. \A k \in 1 .. 3 : k \in {1, 2, 3}
    OBVIOUS
  <2> QED
    BY <2>1 DEF Socket, Try, Cleanly, Do
<1>6. G[4].sock \in {"none", "closed"} /\ G[4].conn \in {"none", "closed"}
  BY <1>2 DEF Stage
<1>7. Path(Socket, G, "in")
  BY <1>1, <1>2, <1>3, <1>4, <1>5, <1>6 DEF Path, Stage
<1> QED
  BY <1>7

\* The path of connect.c.
LEMMA ConnectPath == \E G : Path(Connect, G, "in")
<1>1. /\ Len(Connect) = 4
      /\ Connect[1].call = "getaddrinfo" /\ Connect[2].call = "socket"
      /\ Connect[3].call = "connect" /\ Connect[4].call = "close_sock"
  BY DEF Connect, Try, Cleanly, Do
<1>2. PICK G : /\ G[1] = Stage("none", "none", "none", "in")
               /\ G[2] = Stage("found", "none", "none", "in")
               /\ G[3] = Stage("found", "made", "none", "in")
               /\ G[4] = Stage("found", "connected", "none", "in")
               /\ G[5] = Stage("found", "closed", "none", "in")
  <2> WITNESS <<Stage("none", "none", "none", "in"), Stage("found", "none", "none", "in"),
              Stage("found", "made", "none", "in"), Stage("found", "connected", "none", "in"),
              Stage("found", "closed", "none", "in")>>
  <2> QED
    OBVIOUS
<1>3. \A k \in 1 .. 5 : G[k] \in Stages
  <2>1. \A k \in 1 .. 5 : k \in {1, 2, 3, 4, 5}
    OBVIOUS
  <2> QED
    BY <1>2, <2>1 DEF Stages, Stage
<1>4. \A k \in 1 .. 4 : Takes(Connect[k].call, G[k], G[k + 1])
  <2>1. \A k \in 1 .. 4 : k \in {1, 2, 3, 4}
    OBVIOUS
  <2> QED
    BY <1>1, <1>2, <2>1 DEF Takes, Stage
<1>5. \A k \in 1 .. 4 : Connect[k].tests # "-1"
  <2>1. \A k \in 1 .. 4 : k \in {1, 2, 3, 4}
    OBVIOUS
  <2> QED
    BY <2>1 DEF Connect, Try, Cleanly, Do
<1>6. G[5].sock \in {"none", "closed"} /\ G[5].conn \in {"none", "closed"}
  BY <1>2 DEF Stage
<1>7. Path(Connect, G, "in")
  BY <1>1, <1>2, <1>3, <1>4, <1>5, <1>6 DEF Path, Stage
<1> QED
  BY <1>7

\* The path of bind.c.
LEMMA BindPath == \E G : Path(Bind, G, "in")
<1>1. /\ Len(Bind) = 5
      /\ Bind[1].call = "getaddrinfo" /\ Bind[2].call = "socket"
      /\ Bind[3].call = "setsockopt" /\ Bind[4].call = "bind"
      /\ Bind[5].call = "close_sock"
  BY DEF Bind, Bound, Try, Cleanly, Do
<1>2. PICK G : /\ G[1] = Stage("none", "none", "none", "in")
               /\ G[2] = Stage("found", "none", "none", "in")
               /\ G[3] = Stage("found", "made", "none", "in")
               /\ G[4] = Stage("found", "made", "none", "in")
               /\ G[5] = Stage("found", "bound", "none", "in")
               /\ G[6] = Stage("found", "closed", "none", "in")
  <2> WITNESS <<Stage("none", "none", "none", "in"), Stage("found", "none", "none", "in"),
              Stage("found", "made", "none", "in"), Stage("found", "made", "none", "in"),
              Stage("found", "bound", "none", "in"), Stage("found", "closed", "none", "in")>>
  <2> QED
    OBVIOUS
<1>3. \A k \in 1 .. 6 : G[k] \in Stages
  <2>1. \A k \in 1 .. 6 : k \in {1, 2, 3, 4, 5, 6}
    OBVIOUS
  <2> QED
    BY <1>2, <2>1 DEF Stages, Stage
<1>4. \A k \in 1 .. 5 : Takes(Bind[k].call, G[k], G[k + 1])
  <2>1. \A k \in 1 .. 5 : k \in {1, 2, 3, 4, 5}
    OBVIOUS
  <2> QED
    BY <1>1, <1>2, <2>1 DEF Takes, Stage
<1>5. \A k \in 1 .. 5 : Bind[k].tests # "-1"
  <2>1. \A k \in 1 .. 5 : k \in {1, 2, 3, 4, 5}
    OBVIOUS
  <2> QED
    BY <2>1 DEF Bind, Bound, Try, Cleanly, Do
<1>6. G[6].sock \in {"none", "closed"} /\ G[6].conn \in {"none", "closed"}
  BY <1>2 DEF Stage
<1>7. Path(Bind, G, "in")
  BY <1>1, <1>2, <1>3, <1>4, <1>5, <1>6 DEF Path, Stage
<1> QED
  BY <1>7

\* The path of listen_accept.c.
LEMMA ListenAcceptPath == \E G : Path(ListenAccept, G, "in")
<1>1. /\ Len(ListenAccept) = 8
      /\ ListenAccept[1].call = "getaddrinfo" /\ ListenAccept[2].call = "socket"
      /\ ListenAccept[3].call = "setsockopt" /\ ListenAccept[4].call = "bind"
      /\ ListenAccept[5].call = "listen" /\ ListenAccept[6].call = "accept"
      /\ ListenAccept[7].call = "close_conn" /\ ListenAccept[8].call = "close_sock"
  BY DEF ListenAccept, Accepted, Bound, Try, Cleanly, Do
<1>2. PICK G : /\ G[1] = Stage("none", "none", "none", "in")
               /\ G[2] = Stage("found", "none", "none", "in")
               /\ G[3] = Stage("found", "made", "none", "in")
               /\ G[4] = Stage("found", "made", "none", "in")
               /\ G[5] = Stage("found", "bound", "none", "in")
               /\ G[6] = Stage("found", "listening", "none", "in")
               /\ G[7] = Stage("found", "listening", "connected", "in")
               /\ G[8] = Stage("found", "listening", "closed", "in")
               /\ G[9] = Stage("found", "closed", "closed", "in")
  <2> WITNESS <<Stage("none", "none", "none", "in"), Stage("found", "none", "none", "in"),
              Stage("found", "made", "none", "in"), Stage("found", "made", "none", "in"),
              Stage("found", "bound", "none", "in"), Stage("found", "listening", "none", "in"),
              Stage("found", "listening", "connected", "in"), Stage("found", "listening", "closed", "in"),
              Stage("found", "closed", "closed", "in")>>
  <2> QED
    OBVIOUS
<1>3. \A k \in 1 .. 9 : G[k] \in Stages
  <2>1. \A k \in 1 .. 9 : k \in {1, 2, 3, 4, 5, 6, 7, 8, 9}
    OBVIOUS
  <2> QED
    BY <1>2, <2>1 DEF Stages, Stage
<1>4. \A k \in 1 .. 8 : Takes(ListenAccept[k].call, G[k], G[k + 1])
  <2>1. \A k \in 1 .. 8 : k \in {1, 2, 3, 4, 5, 6, 7, 8}
    OBVIOUS
  <2> QED
    BY <1>1, <1>2, <2>1 DEF Takes, Stage
<1>5. \A k \in 1 .. 8 : ListenAccept[k].tests # "-1"
  <2>1. \A k \in 1 .. 8 : k \in {1, 2, 3, 4, 5, 6, 7, 8}
    OBVIOUS
  <2> QED
    BY <2>1 DEF ListenAccept, Accepted, Bound, Try, Cleanly, Do
<1>6. G[9].sock \in {"none", "closed"} /\ G[9].conn \in {"none", "closed"}
  BY <1>2 DEF Stage
<1>7. Path(ListenAccept, G, "in")
  BY <1>1, <1>2, <1>3, <1>4, <1>5, <1>6 DEF Path, Stage
<1> QED
  BY <1>7

\* The path of send_recv.c.
LEMMA SendRecvPath == \E G : Path(SendRecv, G, "in")
<1>1. /\ Len(SendRecv) = 10
      /\ SendRecv[1].call = "getaddrinfo" /\ SendRecv[2].call = "socket"
      /\ SendRecv[3].call = "setsockopt" /\ SendRecv[4].call = "bind"
      /\ SendRecv[5].call = "listen" /\ SendRecv[6].call = "accept"
      /\ SendRecv[7].call = "recv_loop" /\ SendRecv[8].call = "send_loop"
      /\ SendRecv[9].call = "close_conn" /\ SendRecv[10].call = "close_sock"
  BY DEF SendRecv, Accepted, Bound, Try, Cleanly, Do
<1>2. PICK G : /\ G[1] = Stage("none", "none", "none", "in")
               /\ G[2] = Stage("found", "none", "none", "in")
               /\ G[3] = Stage("found", "made", "none", "in")
               /\ G[4] = Stage("found", "made", "none", "in")
               /\ G[5] = Stage("found", "bound", "none", "in")
               /\ G[6] = Stage("found", "listening", "none", "in")
               /\ G[7] = Stage("found", "listening", "connected", "in")
               /\ G[8] = Stage("found", "listening", "connected", "echo")
               /\ G[9] = Stage("found", "listening", "connected", "over")
               /\ G[10] = Stage("found", "listening", "closed", "over")
               /\ G[11] = Stage("found", "closed", "closed", "over")
  <2> WITNESS <<Stage("none", "none", "none", "in"), Stage("found", "none", "none", "in"),
              Stage("found", "made", "none", "in"), Stage("found", "made", "none", "in"),
              Stage("found", "bound", "none", "in"), Stage("found", "listening", "none", "in"),
              Stage("found", "listening", "connected", "in"), Stage("found", "listening", "connected", "echo"),
              Stage("found", "listening", "connected", "over"), Stage("found", "listening", "closed", "over"),
              Stage("found", "closed", "closed", "over")>>
  <2> QED
    OBVIOUS
<1>3. \A k \in 1 .. 11 : G[k] \in Stages
  <2>1. \A k \in 1 .. 11 : k \in {1, 2, 3, 4, 5, 6, 7, 8, 9, 10, 11}
    OBVIOUS
  <2> QED
    BY <1>2, <2>1 DEF Stages, Stage
<1>4. \A k \in 1 .. 10 : Takes(SendRecv[k].call, G[k], G[k + 1])
  <2>1. \A k \in 1 .. 10 : k \in {1, 2, 3, 4, 5, 6, 7, 8, 9, 10}
    OBVIOUS
  <2> QED
    BY <1>1, <1>2, <2>1 DEF Takes, Stage
<1>5. \A k \in 1 .. 10 : SendRecv[k].tests # "-1"
  <2>1. \A k \in 1 .. 10 : k \in {1, 2, 3, 4, 5, 6, 7, 8, 9, 10}
    OBVIOUS
  <2> QED
    BY <2>1 DEF SendRecv, Accepted, Bound, Try, Cleanly, Do
<1>6. G[11].sock \in {"none", "closed"} /\ G[11].conn \in {"none", "closed"}
  BY <1>2 DEF Stage
<1>7. Path(SendRecv, G, "in")
  BY <1>1, <1>2, <1>3, <1>4, <1>5, <1>6 DEF Path, Stage
<1> QED
  BY <1>7

\* The path of sendto_recvfrom.c.
LEMMA SendtoRecvfromPath == \E G : Path(SendtoRecvfrom, G, "in")
<1>1. /\ Len(SendtoRecvfrom) = 7
      /\ SendtoRecvfrom[1].call = "getaddrinfo" /\ SendtoRecvfrom[2].call = "socket"
      /\ SendtoRecvfrom[3].call = "setsockopt" /\ SendtoRecvfrom[4].call = "bind"
      /\ SendtoRecvfrom[5].call = "recvfrom" /\ SendtoRecvfrom[6].call = "sendto"
      /\ SendtoRecvfrom[7].call = "close_sock"
  BY DEF SendtoRecvfrom, Bound, Try, Cleanly, Do
<1>2. PICK G : /\ G[1] = Stage("none", "none", "none", "in")
               /\ G[2] = Stage("found", "none", "none", "in")
               /\ G[3] = Stage("found", "made", "none", "in")
               /\ G[4] = Stage("found", "made", "none", "in")
               /\ G[5] = Stage("found", "bound", "none", "in")
               /\ G[6] = Stage("found", "bound", "none", "held")
               /\ G[7] = Stage("found", "bound", "none", "over")
               /\ G[8] = Stage("found", "closed", "none", "over")
  <2> WITNESS <<Stage("none", "none", "none", "in"), Stage("found", "none", "none", "in"),
              Stage("found", "made", "none", "in"), Stage("found", "made", "none", "in"),
              Stage("found", "bound", "none", "in"), Stage("found", "bound", "none", "held"),
              Stage("found", "bound", "none", "over"), Stage("found", "closed", "none", "over")>>
  <2> QED
    OBVIOUS
<1>3. \A k \in 1 .. 8 : G[k] \in Stages
  <2>1. \A k \in 1 .. 8 : k \in {1, 2, 3, 4, 5, 6, 7, 8}
    OBVIOUS
  <2> QED
    BY <1>2, <2>1 DEF Stages, Stage
<1>4. \A k \in 1 .. 7 : Takes(SendtoRecvfrom[k].call, G[k], G[k + 1])
  <2>1. \A k \in 1 .. 7 : k \in {1, 2, 3, 4, 5, 6, 7}
    OBVIOUS
  <2> QED
    BY <1>1, <1>2, <2>1 DEF Takes, Stage
<1>5. \A k \in 1 .. 7 : SendtoRecvfrom[k].tests # "-1"
  <2>1. \A k \in 1 .. 7 : k \in {1, 2, 3, 4, 5, 6, 7}
    OBVIOUS
  <2> QED
    BY <2>1 DEF SendtoRecvfrom, Bound, Try, Cleanly, Do
<1>6. G[8].sock \in {"none", "closed"} /\ G[8].conn \in {"none", "closed"}
  BY <1>2 DEF Stage
<1>7. Path(SendtoRecvfrom, G, "in")
  BY <1>1, <1>2, <1>3, <1>4, <1>5, <1>6 DEF Path, Stage
<1> QED
  BY <1>7

\* The path of getaddrinfo.c.
LEMMA GetAddrInfoPath == \E G : Path(GetAddrInfo, G, "in")
<1>1. /\ Len(GetAddrInfo) = 4
      /\ GetAddrInfo[1].call = "getaddrinfo" /\ GetAddrInfo[2].call = "freeaddrinfo"
      /\ GetAddrInfo[3].call = "getaddrinfo" /\ GetAddrInfo[4].call = "freeaddrinfo"
  BY DEF GetAddrInfo, Try, Cleanly, Do
<1>2. PICK G : /\ G[1] = Stage("none", "none", "none", "in")
               /\ G[2] = Stage("found", "none", "none", "in")
               /\ G[3] = Stage("freed", "none", "none", "in")
               /\ G[4] = Stage("found", "none", "none", "in")
               /\ G[5] = Stage("freed", "none", "none", "in")
  <2> WITNESS <<Stage("none", "none", "none", "in"), Stage("found", "none", "none", "in"),
              Stage("freed", "none", "none", "in"), Stage("found", "none", "none", "in"),
              Stage("freed", "none", "none", "in")>>
  <2> QED
    OBVIOUS
<1>3. \A k \in 1 .. 5 : G[k] \in Stages
  <2>1. \A k \in 1 .. 5 : k \in {1, 2, 3, 4, 5}
    OBVIOUS
  <2> QED
    BY <1>2, <2>1 DEF Stages, Stage
<1>4. \A k \in 1 .. 4 : Takes(GetAddrInfo[k].call, G[k], G[k + 1])
  <2>1. \A k \in 1 .. 4 : k \in {1, 2, 3, 4}
    OBVIOUS
  <2> QED
    BY <1>1, <1>2, <2>1 DEF Takes, Stage
<1>5. \A k \in 1 .. 4 : GetAddrInfo[k].tests # "-1"
  <2>1. \A k \in 1 .. 4 : k \in {1, 2, 3, 4}
    OBVIOUS
  <2> QED
    BY <2>1 DEF GetAddrInfo, Try, Cleanly, Do
<1>6. G[5].sock \in {"none", "closed"} /\ G[5].conn \in {"none", "closed"}
  BY <1>2 DEF Stage
<1>7. Path(GetAddrInfo, G, "in")
  BY <1>1, <1>2, <1>3, <1>4, <1>5, <1>6 DEF Path, Stage
<1> QED
  BY <1>7

\* The path of select.c and poll.c before their loops.
LEMMA LoopSetupPath == \E G : Path(LoopSetup, G, "in")
<1>1. /\ Len(LoopSetup) = 5
      /\ LoopSetup[1].call = "getaddrinfo" /\ LoopSetup[2].call = "socket"
      /\ LoopSetup[3].call = "setsockopt" /\ LoopSetup[4].call = "bind"
      /\ LoopSetup[5].call = "listen"
  BY DEF LoopSetup, Try, Cleanly, Do, TryMinus1
<1>2. PICK G : /\ G[1] = Stage("none", "none", "none", "in")
               /\ G[2] = Stage("found", "none", "none", "in")
               /\ G[3] = Stage("found", "made", "none", "in")
               /\ G[4] = Stage("found", "made", "none", "in")
               /\ G[5] = Stage("found", "bound", "none", "in")
               /\ G[6] = Stage("found", "listening", "none", "in")
  <2> WITNESS <<Stage("none", "none", "none", "in"), Stage("found", "none", "none", "in"),
              Stage("found", "made", "none", "in"), Stage("found", "made", "none", "in"),
              Stage("found", "bound", "none", "in"), Stage("found", "listening", "none", "in")>>
  <2> QED
    OBVIOUS
<1>3. \A k \in 1 .. 6 : G[k] \in Stages
  <2>1. \A k \in 1 .. 6 : k \in {1, 2, 3, 4, 5, 6}
    OBVIOUS
  <2> QED
    BY <1>2, <2>1 DEF Stages, Stage
<1>4. \A k \in 1 .. 5 : Takes(LoopSetup[k].call, G[k], G[k + 1])
  <2>1. \A k \in 1 .. 5 : k \in {1, 2, 3, 4, 5}
    OBVIOUS
  <2> QED
    BY <1>1, <1>2, <2>1 DEF Takes, Stage
<1>5. \A k \in 1 .. 5 : k # 1 => LoopSetup[k].tests # "-1"
  <2>1. \A k \in 1 .. 5 : k \in {1, 2, 3, 4, 5}
    OBVIOUS
  <2> QED
    BY <2>1 DEF LoopSetup, Try, Cleanly, Do, TryMinus1
<1>7. Path(LoopSetup, G, "in")
  BY <1>1, <1>2, <1>3, <1>4, <1>5 DEF Path, Stage
<1> QED
  BY <1>7

\* The path of a process without a script, that never starts.
LEMMA NoPath == ASSUME NEW first \in {"in", "held"} PROVE \E G : Path(<<>>, G, first)
<1>1. Len(<<>>) = 0 /\ <<>> # LoopSetup /\ \A k \in 1 .. 1 : k = 1
  BY DEF LoopSetup
<1>2. PICK G : G[1] = Stage("none", "none", "none", first)
  <2> WITNESS <<Stage("none", "none", "none", first)>>
  <2> QED
    OBVIOUS
<1>3. G[1] \in Stages /\ G[1].sock = "none" /\ G[1].conn = "none"
  BY <1>2 DEF Stages, Stage
<1>4. Path(<<>>, G, first)
  BY <1>1, <1>2, <1>3 DEF Path, Stage
<1> QED
  BY <1>4

First(p) == IF p = "server" THEN "in" ELSE "held"

\* Every program has a path for each of its processes.
LEMMA ProgramsHavePaths ==
    ASSUME NEW S \in Programs \cup {[server |-> <<>>, client |-> <<>>]}, NEW p \in Processes
    PROVE  \E G : Path(S[p], G, First(p))
<1>1. CASE p = "server"
  <2>1. S.server \in {<<>>, Socket, Connect, Bind, ListenAccept, SendRecv, SendtoRecvfrom,
                      GetAddrInfo, LoopSetup, TargetServer}
    BY DEF Programs
  <2>2. \E G : Path(S.server, G, "in")
    BY <2>1, NoPath, SocketPath, ConnectPath, BindPath, ListenAcceptPath, SendRecvPath,
       SendtoRecvfromPath, GetAddrInfoPath, LoopSetupPath, TargetServerPath
  <2> QED
    BY <1>1, <2>2 DEF First
<1>2. CASE p = "client"
  <2>1. S.client \in {<<>>, TargetClient}
    BY DEF Programs
  <2>2. \E G : Path(S.client, G, "held")
    BY <2>1, NoPath, TargetClientPath
  <2> QED
    BY <1>2, <2>2 DEF First
<1> QED
  BY <1>1, <1>2 DEF Processes

-----------------------------------------------------------------------------
(* Where the processes are.                                                *)

ProcStates ==
    [at : Nat, addresses : {"none", "found", "freed", "garbage"},
     sock : {"none", "made", "bound", "listening", "connected", "closed"},
     conn : {"none", "connected", "closed"},
     outcome : {"running", "done", "failed", "killed", "undefined"}]

ProcTypes == proc \in [Processes -> ProcStates]

Matches(is, s) == is.addresses = s.addresses /\ is.sock = s.sock /\ is.conn = s.conn

\* A process of the script S in the state is, on the path G.  It leaves the path
\* when a call fails, and when the failure of getaddrinfo goes unnoticed.
OnPath(S, is, G) ==
    /\ is.at \in 1 .. Len(S) + 1
    /\ is.outcome \in {"running", "done"} /\ is.addresses # "garbage" => Matches(is, G[is.at])
    /\ is.addresses = "garbage" => S = LoopSetup /\ is.at = 2 /\ is.outcome \in {"running", "undefined"}
    /\ is.outcome = "undefined" => S = LoopSetup
    /\ is.outcome = "done" => is.at = Len(S) + 1

OnPaths(P) == \A p \in Processes : Path(script[p], P[p], First(p)) /\ OnPath(script[p], proc[p], P[p])

\* What the server has reached.
ServerPhase(P) == P["server"][proc["server"].at].phase

\* What the call at which a process is running does on its path.
LEMMA RunsOnPath ==
    ASSUME ProcTypes, NEW P, OnPaths(P), NEW p \in Processes, Running(p)
    PROVE  /\ proc[p].at \in 1 .. Len(script[p]) /\ Len(script[p]) \in Nat
           /\ Takes(NextCall(p).call, P[p][proc[p].at], P[p][proc[p].at + 1])
           /\ P[p][proc[p].at] \in Stages /\ P[p][proc[p].at + 1] \in Stages
           /\ proc[p].addresses # "garbage" => Matches(proc[p], P[p][proc[p].at])
           /\ NextCall(p).tests = "-1" => script[p] = LoopSetup /\ proc[p].at = 1
<1>1. Path(script[p], P[p], First(p)) /\ OnPath(script[p], proc[p], P[p])
  BY DEF OnPaths
<1>2. proc[p].outcome = "running" /\ proc[p].at <= Len(script[p])
  BY DEF Running
<1>3. proc[p].at \in 1 .. Len(script[p]) /\ Len(script[p]) \in Nat
  BY <1>1, <1>2 DEF Path, OnPath
<1>4. P[p][proc[p].at] \in Stages /\ P[p][proc[p].at + 1] \in Stages
  BY <1>1, <1>3 DEF Path
<1>5. /\ Takes(script[p][proc[p].at].call, P[p][proc[p].at], P[p][proc[p].at + 1])
      /\ script[p][proc[p].at].tests = "-1" => script[p] = LoopSetup /\ proc[p].at = 1
  BY <1>1, <1>3 DEF Path
<1>6. proc[p].addresses # "garbage" => Matches(proc[p], P[p][proc[p].at])
  BY <1>1, <1>2 DEF OnPath
<1> QED
  BY <1>3, <1>4, <1>5, <1>6 DEF NextCall

\* Going on to the next stage keeps to the path.
LEMMA ProceedsOnPath ==
    ASSUME ProcTypes, NEW P, OnPaths(P), NEW p \in Processes, Running(p),
           NEW is \in ProcStates, is.at = proc[p].at, is.outcome = "running",
           is.addresses # "garbage" => Matches(is, P[p][proc[p].at + 1]),
           is.addresses = "garbage" => script[p] = LoopSetup /\ proc[p].at = 1,
           Proceeds(p, is), UNCHANGED script
    PROVE  /\ ProcTypes' /\ OnPaths(P)'
           /\ proc'[p].at = proc[p].at + 1
           /\ \A q \in Processes : q # p => proc'[q] = proc[q]
<1>1. /\ proc[p].at \in 1 .. Len(script[p]) /\ Len(script[p]) \in Nat
      /\ P[p][proc[p].at + 1] \in Stages
  BY RunsOnPath
<1> DEFINE next == [is EXCEPT !.at = @ + 1,
                              !.outcome = IF proc[p].at = Len(script[p]) THEN "done" ELSE @]
<1>2. proc' = [proc EXCEPT ![p] = next]
  BY DEF Proceeds
<1>3. /\ next \in ProcStates /\ next.at = proc[p].at + 1
      /\ next.addresses = is.addresses /\ next.sock = is.sock /\ next.conn = is.conn
      /\ next.outcome = IF proc[p].at = Len(script[p]) THEN "done" ELSE "running"
  <2> DEFINE ends == IF proc[p].at = Len(script[p]) THEN "done" ELSE is.outcome
  <2>1. next = [is EXCEPT !.at = is.at + 1, !.outcome = ends]
    OBVIOUS
  <2>2. is.at + 1 \in Nat /\ ends \in {"running", "done", "failed", "killed", "undefined"}
    BY DEF ProcStates
  <2> HIDE DEF next, ends
  <2>3. next \in ProcStates /\ next.at = is.at + 1 /\ next.outcome = ends
    BY <2>1, <2>2 DEF ProcStates
  <2>4. next.addresses = is.addresses /\ next.sock = is.sock /\ next.conn = is.conn
    BY <2>1 DEF ProcStates
  <2> QED
    BY <2>3, <2>4 DEF ends
<1> HIDE DEF next
<1>4. ProcTypes' /\ proc'[p] = next /\ \A q \in Processes : q # p => proc'[q] = proc[q]
  BY <1>2, <1>3 DEF ProcTypes
<1>5. OnPath(script[p], next, P[p])
  <2>1. Len(LoopSetup) = 5
    BY DEF LoopSetup
  <2>2. next.addresses # "garbage" => Matches(next, P[p][next.at])
    BY <1>3 DEF Matches
  <2>3. next.at \in 1 .. Len(script[p]) + 1
    BY <1>1, <1>3
  <2>4. next.outcome \in {"running", "done"} /\ (next.outcome = "done" => next.at = Len(script[p]) + 1)
    BY <1>3
  <2>5. ASSUME is.addresses = "garbage"
        PROVE  script[p] = LoopSetup /\ next.at = 2 /\ next.outcome = "running"
    <3>1. script[p] = LoopSetup /\ proc[p].at = 1
      BY <2>5
    <3>2. Len(script[p]) = 5 /\ proc[p].at # Len(script[p])
      BY <3>1, <2>1
    <3> QED
      BY <1>3, <3>1, <3>2
  <2> QED
    BY <1>3, <2>2, <2>3, <2>4, <2>5 DEF OnPath
<1>6. OnPaths(P)'
  BY <1>4, <1>5 DEF OnPaths
<1> QED
  BY <1>3, <1>4, <1>6

-----------------------------------------------------------------------------
(* The calls of a process that meet no peer.                                *)

\* A step of a process that only goes on leaves the server in its phase.
KeepsPhase(P) ==
    proc'["server"].outcome = "running" =>
        proc["server"].outcome = "running" /\ ServerPhase(P)' = ServerPhase(P)

\* A call of the process alone keeps to the path.
LEMMA LocalOnPath ==
    ASSUME ProcTypes, NEW P, OnPaths(P), NEW p \in Processes, Local(p)
    PROVE  ProcTypes' /\ OnPaths(P)' /\ KeepsPhase(P)
<1> DEFINE is == proc[p]
           call == NextCall(p).call
           s == P[p][proc[p].at]
           t == P[p][proc[p].at + 1]
<1>1. /\ Running(p) /\ is.addresses # "garbage" /\ UNCHANGED script
      /\ call \in {"getaddrinfo", "freeaddrinfo", "socket", "setsockopt", "bind", "listen", "connect"}
  BY DEF Local
<1>2. /\ Takes(call, s, t) /\ s \in Stages /\ t \in Stages /\ Matches(is, s)
      /\ proc[p].at \in 1 .. Len(script[p])
  BY <1>1, RunsOnPath
<1>3. is \in ProcStates /\ is.outcome = "running"
  BY <1>1 DEF ProcTypes, Running
<1>4. PICK state \in ProcStates :
        /\ Proceeds(p, state) /\ state.at = is.at /\ state.outcome = "running"
        /\ state.addresses # "garbage" /\ Matches(state, t) /\ t.phase = s.phase
  <2>1. CASE call = "getaddrinfo"
    <3> DEFINE state == [is EXCEPT !.addresses = "found"]
    <3>1. Proceeds(p, state)
      BY <2>1 DEF Local
    <3>2. t.addresses = "found" /\ t.sock = s.sock /\ t.conn = s.conn /\ t.phase = s.phase
      BY <1>2, <2>1 DEF Takes, Stage
    <3> QED
      BY <1>2, <1>3, <3>1, <3>2 DEF ProcStates, Matches
  <2>2. CASE call = "freeaddrinfo"
    <3> DEFINE state == [is EXCEPT !.addresses = "freed"]
    <3>1. Proceeds(p, state)
      BY <2>2 DEF Local
    <3>2. t.addresses = "freed" /\ t.sock = s.sock /\ t.conn = s.conn /\ t.phase = s.phase
      BY <1>2, <2>2 DEF Takes, Stage
    <3> QED
      BY <1>2, <1>3, <3>1, <3>2 DEF ProcStates, Matches
  <2>3. CASE call = "setsockopt"
    <3>1. Proceeds(p, is)
      BY <2>3 DEF Local
    <3>2. t.addresses = s.addresses /\ t.sock = s.sock /\ t.conn = s.conn /\ t.phase = s.phase
      BY <1>2, <2>3 DEF Takes, Stage
    <3> QED
      BY <1>1, <1>2, <1>3, <3>1, <3>2 DEF ProcStates, Matches
  <2>4. ASSUME NEW sock \in {"made", "bound", "listening", "connected"},
               Proceeds(p, [is EXCEPT !.sock = sock]),
               t = Stage(s.addresses, sock, s.conn, s.phase)
        PROVE  \E state \in ProcStates :
                  /\ Proceeds(p, state) /\ state.at = is.at /\ state.outcome = "running"
                  /\ state.addresses # "garbage" /\ Matches(state, t) /\ t.phase = s.phase
    <3> DEFINE state == [is EXCEPT !.sock = sock]
    <3>1. t.addresses = s.addresses /\ t.sock = sock /\ t.conn = s.conn /\ t.phase = s.phase
      BY <2>4 DEF Stage
    <3> QED
      BY <1>1, <1>2, <1>3, <2>4, <3>1 DEF ProcStates, Matches
  <2>5. CASE call = "socket"
    <3>1. Proceeds(p, [is EXCEPT !.sock = "made"])
      BY <2>5 DEF Local
    <3>2. t = Stage(s.addresses, "made", s.conn, s.phase)
      BY <1>2, <2>5 DEF Takes
    <3> QED
      BY <3>1, <3>2, <2>4
  <2>6. CASE call = "bind"
    <3>1. Proceeds(p, [is EXCEPT !.sock = "bound"])
      BY <2>6 DEF Local
    <3>2. t = Stage(s.addresses, "bound", s.conn, s.phase)
      BY <1>2, <2>6 DEF Takes
    <3> QED
      BY <3>1, <3>2, <2>4
  <2>7. CASE call = "listen"
    <3>1. Proceeds(p, [is EXCEPT !.sock = "listening"])
      BY <2>7 DEF Local
    <3>2. t = Stage(s.addresses, "listening", s.conn, s.phase)
      BY <1>2, <2>7 DEF Takes
    <3> QED
      BY <3>1, <3>2, <2>4
  <2>8. CASE call = "connect"
    <3>1. Proceeds(p, [is EXCEPT !.sock = "connected"])
      BY <2>8 DEF Local
    <3>2. t = Stage(s.addresses, "connected", s.conn, s.phase)
      BY <1>2, <2>8 DEF Takes
    <3> QED
      BY <3>1, <3>2, <2>4
  <2> QED
    BY <1>1, <2>1, <2>2, <2>3, <2>5, <2>6, <2>7, <2>8
<1>5. /\ ProcTypes' /\ OnPaths(P)' /\ proc'[p].at = is.at + 1
      /\ \A q \in Processes : q # p => proc'[q] = proc[q]
  BY <1>1, <1>4, ProceedsOnPath
<1>6. KeepsPhase(P)
  BY <1>3, <1>4, <1>5 DEF KeepsPhase, ServerPhase, Processes
<1> QED
  BY <1>5, <1>6

\* A call that fails ends its process.
LEMMA FailsOnPath ==
    ASSUME ProcTypes, NEW P, OnPaths(P), NEW p \in Processes, Fails(p)
    PROVE  ProcTypes' /\ OnPaths(P)' /\ KeepsPhase(P)
<1> DEFINE sock == IF NextCall(p).closes THEN "closed" ELSE proc[p].sock
           next == [proc[p] EXCEPT !.outcome = "failed", !.sock = sock]
<1>1. proc' = [proc EXCEPT ![p] = next] /\ script' = script /\ proc[p].addresses # "garbage"
  BY DEF Fails, ProcTypes
<1>2. proc[p] \in ProcStates /\ sock \in {"none", "made", "bound", "listening", "connected", "closed"}
  BY DEF ProcTypes, ProcStates
<1> HIDE DEF sock
<1>3. /\ next \in ProcStates /\ next.outcome = "failed" /\ next.at = proc[p].at
      /\ next.addresses = proc[p].addresses
  BY <1>2 DEF ProcStates
<1> HIDE DEF next
<1>4. ProcTypes' /\ proc'[p] = next /\ \A q \in Processes : q # p => proc'[q] = proc[q]
  BY <1>1, <1>3 DEF ProcTypes
<1>5. OnPath(script[p], next, P[p])
  BY <1>1, <1>3 DEF OnPaths, OnPath
<1>6. OnPaths(P)'
  BY <1>1, <1>4, <1>5 DEF OnPaths
<1>7. KeepsPhase(P)
  BY <1>3, <1>4 DEF KeepsPhase, ServerPhase, Processes
<1> QED
  BY <1>4, <1>6, <1>7

\* Only a call of select.c and poll.c fails unnoticed, and leaves res unset.
LEMMA FailsUnnoticedOnPath ==
    ASSUME ProcTypes, NEW P, OnPaths(P), NEW p \in Processes, FailsUnnoticed(p)
    PROVE  ProcTypes' /\ OnPaths(P)' /\ KeepsPhase(P)
<1> DEFINE is == [proc[p] EXCEPT !.addresses = "garbage"]
<1>1. /\ Running(p) /\ NextCall(p).call = "getaddrinfo" /\ NextCall(p).tests = "-1"
      /\ Proceeds(p, is) /\ UNCHANGED script
  BY DEF FailsUnnoticed, Calls
<1>2. proc[p] \in ProcStates /\ proc[p].outcome = "running"
  BY <1>1 DEF ProcTypes, Running
<1>3. is \in ProcStates /\ is.at = proc[p].at /\ is.outcome = "running" /\ is.addresses = "garbage"
  BY <1>2 DEF ProcStates
<1>4. /\ script[p] = LoopSetup /\ proc[p].at = 1
      /\ Takes("getaddrinfo", P[p][proc[p].at], P[p][proc[p].at + 1])
  BY <1>1, RunsOnPath
<1> HIDE DEF is
<1>5. /\ ProcTypes' /\ OnPaths(P)' /\ proc'[p].at = proc[p].at + 1
      /\ \A q \in Processes : q # p => proc'[q] = proc[q]
  BY <1>1, <1>3, <1>4, ProceedsOnPath
<1>6. P[p][proc[p].at + 1].phase = P[p][proc[p].at].phase
  BY <1>4 DEF Takes, Stage
<1>7. KeepsPhase(P)
  BY <1>2, <1>5, <1>6 DEF KeepsPhase, ServerPhase, Processes
<1> QED
  BY <1>5, <1>7

\* Using an unset res is undefined behaviour.
LEMMA UndefinedOnPath ==
    ASSUME ProcTypes, NEW P, OnPaths(P), NEW p \in Processes, Undefined(p)
    PROVE  ProcTypes' /\ OnPaths(P)' /\ KeepsPhase(P)
<1> DEFINE next == [proc[p] EXCEPT !.outcome = "undefined"]
<1>1. proc' = [proc EXCEPT ![p] = next] /\ script' = script /\ proc[p].addresses = "garbage"
  BY DEF Undefined, ProcTypes
<1>2. proc[p] \in ProcStates
  BY DEF ProcTypes
<1>3. /\ next \in ProcStates /\ next.outcome = "undefined" /\ next.at = proc[p].at
      /\ next.addresses = "garbage"
  BY <1>1, <1>2 DEF ProcStates
<1> HIDE DEF next
<1>4. ProcTypes' /\ proc'[p] = next /\ \A q \in Processes : q # p => proc'[q] = proc[q]
  BY <1>1, <1>3 DEF ProcTypes
<1>5. OnPath(script[p], next, P[p])
  BY <1>1, <1>3 DEF OnPaths, OnPath
<1>6. OnPaths(P)'
  BY <1>1, <1>4, <1>5 DEF OnPaths
<1>7. KeepsPhase(P)
  BY <1>3, <1>4 DEF KeepsPhase, ServerPhase, Processes
<1> QED
  BY <1>4, <1>6, <1>7

\* Only socket finds res unset.
LEMMA AddressesSet ==
    ASSUME ProcTypes, NEW P, OnPaths(P), NEW p \in Processes, Running(p), NextCall(p).call # "socket"
    PROVE  proc[p].addresses # "garbage"
<1> SUFFICES ASSUME proc[p].addresses = "garbage" PROVE FALSE
  OBVIOUS
<1>1. script[p] = LoopSetup /\ proc[p].at = 2
  BY DEF OnPaths, OnPath
<1> QED
  BY <1>1 DEF NextCall, LoopSetup, Try

\* A descriptor that is closed was open.
LEMMA CloseOnPath ==
    ASSUME ProcTypes, NEW P, OnPaths(P), NEW p \in Processes, Close(p)
    PROVE  ProcTypes' /\ OnPaths(P)' /\ KeepsPhase(P)
<1>1. PICK fd \in {"sock", "conn"} :
         /\ Calls(p, IF fd = "sock" THEN "close_sock" ELSE "close_conn")
         /\ Proceeds(p, Closed(p, fd)) /\ UNCHANGED script
  BY DEF Close
<1> DEFINE is == Closed(p, fd)
           s == P[p][proc[p].at]
           t == P[p][proc[p].at + 1]
<1>2. proc[p] \in ProcStates /\ proc[p].outcome = "running" /\ Running(p)
  BY <1>1 DEF ProcTypes, Running, Calls
<1>3. /\ Takes(NextCall(p).call, s, t) /\ s \in Stages /\ t \in Stages
      /\ proc[p].addresses # "garbage" => Matches(proc[p], s)
      /\ proc[p].at \in 1 .. Len(script[p])
  BY <1>2, RunsOnPath
<1>4. proc[p].addresses # "garbage"
  BY <1>1, <1>2, AddressesSet DEF Calls
<1>5. /\ is \in ProcStates /\ is.at = proc[p].at /\ is.outcome = "running"
      /\ is.addresses # "garbage" /\ Matches(is, t) /\ t.phase = s.phase
  <2>1. CASE fd = "sock"
    <3>1. t = Stage(s.addresses, "closed", s.conn, s.phase)
      BY <1>1, <1>3, <2>1 DEF Takes, Calls
    <3>2. is = [proc[p] EXCEPT !.sock = "closed"]
      BY <2>1 DEF Closed
    <3> QED
      BY <1>2, <1>3, <1>4, <3>1, <3>2 DEF ProcStates, Matches, Stage
  <2>2. CASE fd = "conn"
    <3>1. t = Stage(s.addresses, s.sock, "closed", s.phase)
      BY <1>1, <1>3, <2>2 DEF Takes, Calls
    <3>2. is = [proc[p] EXCEPT !.conn = "closed"]
      BY <2>2 DEF Closed
    <3> QED
      BY <1>2, <1>3, <1>4, <3>1, <3>2 DEF ProcStates, Matches, Stage
  <2> QED
    BY <2>1, <2>2
<1>6. /\ ProcTypes' /\ OnPaths(P)' /\ proc'[p].at = proc[p].at + 1
      /\ \A q \in Processes : q # p => proc'[q] = proc[q]
  <2> HIDE DEF is
  <2> QED
    BY <1>1, <1>2, <1>5, ProceedsOnPath DEF is
<1>7. KeepsPhase(P)
  BY <1>2, <1>5, <1>6 DEF KeepsPhase, ServerPhase, Processes
<1> QED
  BY <1>6, <1>7

\* The server's calls that meet its peer lead from one phase to the next.
LEMMA ServeOnPath ==
    ASSUME ProcTypes, NEW P, OnPaths(P), Running("server"), NEW phase, NEW is \in ProcStates,
           is.at = proc["server"].at, is.outcome = "running", is.addresses = proc["server"].addresses,
           is.sock = proc["server"].sock, proc["server"].addresses # "garbage",
           P["server"][proc["server"].at + 1] =
              Stage(P["server"][proc["server"].at].addresses, P["server"][proc["server"].at].sock, is.conn, phase),
           Proceeds("server", is), UNCHANGED script
    PROVE  ProcTypes' /\ OnPaths(P)' /\ ServerPhase(P)' = phase
<1> DEFINE s == P["server"][proc["server"].at]
           t == P["server"][proc["server"].at + 1]
<1>1. "server" \in Processes
  BY DEF Processes
<1>2. Matches(proc["server"], s)
  BY <1>1, RunsOnPath
<1>3. Matches(is, t) /\ t.phase = phase
  BY <1>2 DEF Matches, Stage
<1>4. ProcTypes' /\ OnPaths(P)' /\ proc'["server"].at = proc["server"].at + 1
  BY <1>1, <1>3, ProceedsOnPath
<1> QED
  BY <1>3, <1>4 DEF ServerPhase

-----------------------------------------------------------------------------
(* The traffic: what holds whatever the server does, and what holds in each  *)
(* of its phases.                                                           *)

\* The units at the front of the buffer are the first that were sent, in order.
Filled(k) == buf = [i \in 1 .. BufferSize |-> IF i <= k THEN i ELSE Garbage]

Datagrams == [from : sentOnce \cup {"client"}, length : Nat]

\* What is true of the traffic whatever the server does.
TrafficOK ==
    /\ tcpPeer \in {"absent", "sending", "waiting", "shutdown", "closed", "reset"}
    /\ sent \in Nat /\ bytes \in Nat /\ wire \in Seq(Nat)
    /\ \E k \in 0 .. BufferSize : Filled(k)
    /\ reply \in Seq(Nat \cup {Garbage}) /\ Len(reply) <= BufferSize
    /\ \A i \in 1 .. Len(reply) : reply[i] = buf[i]
    /\ datagrams \in Seq(Datagrams)
    /\ answers = {} \/ \E d \in Datagrams : answers = {d} /\ d.length <= BufferSize

\* Before it has all it can have, the buffer and the wire hold the stream in order.
Receiving ==
    /\ reply = <<>> /\ answers = {} /\ bytes <= BufferSize /\ Filled(bytes)
    /\ \A i \in 1 .. Len(wire) : wire[i] = bytes + i
    /\ tcpPeer \in {"absent", "sending"} => sent = bytes + Len(wire)

\* While it sends it back, the reply is the buffer up to the position.
SendingBack ==
    /\ answers = {} /\ bytes <= BufferSize
    /\ tcpPeer \notin {"closed", "reset"} => Len(reply) = bytes

\* A datagram was received, and cut off at the buffer.
Holding == answers = {} /\ datagrams # <<>> /\ datagrams[1].length <= BufferSize

InPhase(phase) ==
    /\ phase = "in" => Receiving
    /\ phase = "echo" => SendingBack
    /\ phase = "held" => Holding

SocketsInvariant(P) ==
    /\ ProcTypes /\ OnPaths(P) /\ TrafficOK
    /\ proc["server"].outcome = "running" => InPhase(ServerPhase(P))

\* It holds when the programs start.
LEMMA SocketsInitially == ASSUME TrafficInit, NEW P, \A p \in Processes : Path(script[p], P[p], First(p))
                          PROVE  SocketsInvariant(P)
<1>1. ProcTypes
  BY DEF TrafficInit, ProcTypes, ProcStates, Fresh
<1>2. OnPaths(P) /\ ServerPhase(P) = "in"
  <2>1. ASSUME NEW p \in Processes PROVE OnPath(script[p], proc[p], P[p])
    <3>1. /\ proc[p].at = 1 /\ proc[p].addresses = "none" /\ proc[p].sock = "none"
          /\ proc[p].conn = "none" /\ proc[p].outcome = "running"
      BY DEF TrafficInit, Fresh
    <3>2. /\ Len(script[p]) \in Nat
          /\ P[p][1] = [addresses |-> "none", sock |-> "none", conn |-> "none", phase |-> First(p)]
      BY DEF Path
    <3> QED
      BY <3>1, <3>2 DEF OnPath, Matches
  <2>2. P["server"][1].phase = "in"
    BY DEF Path, First, Processes
  <2> QED
    BY <2>1, <2>2 DEF OnPaths, ServerPhase, TrafficInit, Fresh, Processes
<1>3. Filled(0)
  BY SocketAssumption DEF Filled, TrafficInit
<1>4. TrafficOK
  BY <1>3, SocketAssumption DEF TrafficOK, TrafficInit
<1>5. Receiving
  BY <1>3, SocketAssumption DEF Receiving, TrafficInit
<1> QED
  BY <1>1, <1>2, <1>4, <1>5 DEF SocketsInvariant, InPhase

\* The programs may go on and the peer may be reset.
LEMMA StepsKeepSockets ==
    ASSUME NEW P, SocketsInvariant(P), NEW p \in Processes, Step(p) PROVE SocketsInvariant(P)'
<1>1. ProcTypes' /\ OnPaths(P)' /\ KeepsPhase(P)
  BY LocalOnPath, FailsOnPath, FailsUnnoticedOnPath, UndefinedOnPath, CloseOnPath DEF SocketsInvariant, Step
<1>2. /\ UNCHANGED <<sent, wire, buf, bytes, reply, datagrams, sentOnce, answers>>
      /\ tcpPeer' \in {tcpPeer, "reset"}
  BY DEF Step, Local, Fails, FailsUnnoticed, Undefined, Close, traffic
<1>3. TrafficOK'
  BY <1>2 DEF SocketsInvariant, TrafficOK, Filled, Datagrams
<1>4. ASSUME NEW phase, InPhase(phase) PROVE InPhase(phase)'
  BY <1>2, <1>4 DEF InPhase, Receiving, SendingBack, Holding, Filled
<1>5. proc'["server"].outcome = "running" => InPhase(ServerPhase(P))'
  <2> SUFFICES ASSUME proc'["server"].outcome = "running" PROVE InPhase(ServerPhase(P))'
    OBVIOUS
  <2>1. InPhase(ServerPhase(P)) /\ ServerPhase(P)' = ServerPhase(P)
    BY <1>1 DEF KeepsPhase, SocketsInvariant
  <2>2. PICK phase : phase = ServerPhase(P)
    OBVIOUS
  <2>3. InPhase(phase) /\ ServerPhase(P)' = phase
    BY <2>1, <2>2
  <2>4. InPhase(phase)'
    BY <2>3, <1>4
  <2> QED
    BY <2>3, <2>4 DEF InPhase, Receiving, SendingBack, Holding, Filled
<1> QED
  BY <1>1, <1>3, <1>5 DEF SocketsInvariant

-----------------------------------------------------------------------------
(* The peers.                                                              *)

\* What the peers do leaves the processes where they are.
LEMMA StillOnPath ==
    ASSUME NEW P, SocketsInvariant(P), UNCHANGED <<proc, script>>, TrafficOK',
           \A phase : proc["server"].outcome = "running" /\ InPhase(phase) => InPhase(phase)'
    PROVE  SocketsInvariant(P)'
<1>1. ProcTypes' /\ OnPaths(P)'
  BY DEF SocketsInvariant, ProcTypes, OnPaths
<1>2. PICK phase : phase = ServerPhase(P)
  OBVIOUS
<1>3. ServerPhase(P)' = phase
  BY <1>2 DEF ServerPhase
<1>4. proc'["server"].outcome = "running" => InPhase(phase)'
  BY <1>2 DEF SocketsInvariant
<1>5. proc'["server"].outcome = "running" => InPhase(ServerPhase(P))'
  BY <1>3, <1>4 DEF InPhase, Receiving, SendingBack, Holding, Filled
<1> QED
  BY <1>1, <1>5 DEF SocketsInvariant

\* A client connects while the server listens.
LEMMA PeerConnectsKeeps ==
    ASSUME NEW P, SocketsInvariant(P), PeerConnects PROVE SocketsInvariant(P)'
<1>1. TrafficOK'
  BY DEF PeerConnects, SocketsInvariant, TrafficOK, Filled, Datagrams
<1>2. ASSUME NEW phase, InPhase(phase) PROVE InPhase(phase)'
  BY <1>2 DEF PeerConnects, InPhase, Receiving, SendingBack, Holding, Filled
<1>3. UNCHANGED <<proc, script>>
  BY DEF PeerConnects
<1> QED
  BY <1>1, <1>2, <1>3, StillOnPath

\* It sends the next unit.
LEMMA PeerSendsKeeps ==
    ASSUME NEW P, SocketsInvariant(P), PeerSends PROVE SocketsInvariant(P)'
<1>1. /\ UNCHANGED <<proc, script, tcpPeer, buf, bytes, reply, datagrams, sentOnce, answers>>
      /\ tcpPeer = "sending" /\ sent' = sent + 1 /\ wire' = Append(wire, sent + 1)
  BY DEF PeerSends
<1>2. wire \in Seq(Nat) /\ sent \in Nat
  BY DEF SocketsInvariant, TrafficOK
<1>3. /\ wire' \in Seq(Nat) /\ sent' \in Nat /\ Len(wire') = Len(wire) + 1 /\ Len(wire) \in Nat
      /\ wire'[Len(wire) + 1] = sent + 1
      /\ \A i \in 1 .. Len(wire) : wire'[i] = wire[i]
  BY <1>1, <1>2
<1>4. TrafficOK'
  BY <1>1, <1>3 DEF SocketsInvariant, TrafficOK, Filled, Datagrams
<1>5. ASSUME Receiving PROVE Receiving'
  <2>1. sent = bytes + Len(wire) /\ bytes \in Nat
    BY <1>1, <1>5 DEF Receiving, SocketsInvariant, TrafficOK
  <2>2. \A i \in 1 .. Len(wire') : wire'[i] = bytes' + i
    <3> SUFFICES ASSUME NEW i \in 1 .. Len(wire') PROVE wire'[i] = bytes + i
      BY <1>1
    <3>1. CASE i = Len(wire) + 1
      BY <1>2, <1>3, <2>1, <3>1
    <3>2. CASE i \in 1 .. Len(wire)
      BY <1>3, <1>5, <3>2 DEF Receiving
    <3> QED
      BY <1>3, <3>1, <3>2
  <2>3. sent' = bytes' + Len(wire')
    BY <1>1, <1>2, <1>3, <2>1
  <2> QED
    BY <1>1, <1>5, <2>2, <2>3 DEF Receiving, Filled
<1>6. ASSUME NEW phase, InPhase(phase) PROVE InPhase(phase)'
  BY <1>1, <1>5, <1>6 DEF InPhase, SendingBack, Holding
<1> QED
  BY <1>1, <1>4, <1>6, StillOnPath

\* It waits, shuts down, closes or resets.
LEMMA PeerStopsKeeps ==
    ASSUME NEW P, SocketsInvariant(P), NEW how \in {"waiting", "shutdown", "closed", "reset"}, PeerStops(how)
    PROVE  SocketsInvariant(P)'
<1>1. /\ UNCHANGED <<proc, script, sent, buf, bytes, reply, datagrams, sentOnce, answers>>
      /\ tcpPeer = "sending" /\ tcpPeer' = how /\ wire' \in {wire, <<>>}
  BY DEF PeerStops
<1>2. TrafficOK'
  <2>1. wire' \in Seq(Nat)
    <3>1. wire \in Seq(Nat) /\ <<>> \in Seq(Nat)
      BY DEF SocketsInvariant, TrafficOK
    <3> QED
      BY <1>1, <3>1
  <2>2. \E k \in 0 .. BufferSize : Filled(k)'
    BY <1>1 DEF SocketsInvariant, TrafficOK, Filled
  <2> QED
    BY <1>1, <2>1, <2>2 DEF SocketsInvariant, TrafficOK, Datagrams
<1>3. ASSUME Receiving PROVE Receiving'
  <2>1. \A i \in 1 .. Len(wire') : wire'[i] = bytes' + i
    BY <1>1, <1>3 DEF Receiving
  <2>2. Filled(bytes)'
    BY <1>1, <1>3 DEF Receiving, Filled
  <2> QED
    BY <1>1, <1>3, <2>1, <2>2 DEF Receiving
<1>4. ASSUME NEW phase, InPhase(phase) PROVE InPhase(phase)'
  BY <1>1, <1>3, <1>4 DEF InPhase, SendingBack, Holding
<1> QED
  BY <1>1, <1>2, <1>4, StillOnPath

\* Datagrams that arrive wait behind the one that was received.
LEMMA ArrivalsKeep ==
    ASSUME NEW P, SocketsInvariant(P), NEW datagram, datagrams' \in {datagrams, Arrives(datagram)},
           datagram.from \in sentOnce' \cup {"client"}, datagram \in [from : sentOnce' \cup {"client"}, length : Nat],
           sentOnce \subseteq sentOnce',
           UNCHANGED <<script, sent, tcpPeer, wire, buf, bytes, reply, answers>>
    PROVE  TrafficOK' /\ (\A phase : InPhase(phase) => InPhase(phase)')
<1>1. datagrams \in Seq(Datagrams) /\ \A d \in Datagrams : d \in Datagrams'
  BY DEF SocketsInvariant, TrafficOK, Datagrams
<1>2. datagrams' = datagrams \/ datagrams' = Append(datagrams, datagram)
  BY DEF Arrives
<1>3. datagrams \in Seq(Datagrams')
  BY <1>1
<1>4. datagram \in Datagrams'
  BY DEF Datagrams
<1> HIDE DEF Datagrams
<1>5. /\ datagrams' \in Seq(Datagrams')
      /\ datagrams # <<>> => datagrams' # <<>> /\ datagrams'[1] = datagrams[1]
  BY <1>2, <1>3, <1>4
<1>6. TrafficOK'
  BY <1>1, <1>5 DEF SocketsInvariant, TrafficOK, Filled
<1>7. ASSUME NEW phase, InPhase(phase) PROVE InPhase(phase)'
  BY <1>5, <1>7 DEF InPhase, Receiving, SendingBack, Holding, Filled
<1> QED
  BY <1>6, <1>7

\* A source sends its datagram.
LEMMA DatagramSentKeeps ==
    ASSUME NEW P, SocketsInvariant(P), NEW source \in Sources, DatagramSent(source) PROVE SocketsInvariant(P)'
<1>1. /\ UNCHANGED <<script, sent, proc, tcpPeer, wire, buf, bytes, reply, answers>>
      /\ sentOnce' = sentOnce \cup {source}
  BY DEF DatagramSent
<1>2. PICK length \in {0, BufferSize, BufferSize + 1} :
         datagrams' \in {datagrams, Arrives([from |-> source, length |-> length])}
  BY DEF DatagramSent
<1>3. [from |-> source, length |-> length] \in [from : sentOnce' \cup {"client"}, length : Nat]
  BY <1>1, SocketAssumption
<1>4. TrafficOK' /\ (\A phase : InPhase(phase) => InPhase(phase)')
  BY <1>1, <1>2, <1>3, ArrivalsKeep
<1> QED
  BY <1>1, <1>4, StillOnPath

\* The client of target.c sends its datagram.
LEMMA ClientSendsKeeps ==
    ASSUME NEW P, SocketsInvariant(P), ClientSends PROVE SocketsInvariant(P)'
<1> DEFINE s == P["client"][proc["client"].at]
           t == P["client"][proc["client"].at + 1]
<1>1. /\ Running("client") /\ NextCall("client").call = "sendto" /\ Proceeds("client", proc["client"])
      /\ datagrams' \in {datagrams, Arrives([from |-> "client", length |-> 1])}
      /\ UNCHANGED <<script, sent, tcpPeer, wire, buf, bytes, reply, sentOnce, answers>>
  BY DEF ClientSends, Calls
<1>2. "client" \in Processes /\ proc["client"] \in ProcStates /\ proc["client"].outcome = "running"
  BY <1>1 DEF Processes, SocketsInvariant, ProcTypes, Running
<1>3. proc["client"].addresses # "garbage"
  BY <1>1, <1>2, AddressesSet DEF SocketsInvariant
<1>4. Matches(proc["client"], s) /\ Takes("sendto", s, t)
  BY <1>1, <1>2, <1>3, RunsOnPath DEF SocketsInvariant
<1>5. Matches(proc["client"], t)
  BY <1>4 DEF Takes, Stage, Matches
<1>6. /\ ProcTypes' /\ OnPaths(P)' /\ proc'["server"] = proc["server"]
  BY <1>1, <1>2, <1>3, <1>5, ProceedsOnPath DEF SocketsInvariant, Processes
<1>7. TrafficOK' /\ (\A phase : InPhase(phase) => InPhase(phase)')
  <2>1. [from |-> "client", length |-> 1] \in [from : sentOnce' \cup {"client"}, length : Nat]
    OBVIOUS
  <2> QED
    BY <1>1, <2>1, ArrivalsKeep
<1>8. PICK phase : phase = ServerPhase(P)
  OBVIOUS
<1>9. ServerPhase(P)' = phase /\ (proc'["server"].outcome = "running" => InPhase(phase)')
  BY <1>6, <1>7, <1>8 DEF ServerPhase, SocketsInvariant
<1>10. proc'["server"].outcome = "running" => InPhase(ServerPhase(P))'
  BY <1>9 DEF InPhase, Receiving, SendingBack, Holding, Filled
<1> QED
  BY <1>6, <1>7, <1>10 DEF SocketsInvariant

-----------------------------------------------------------------------------
(* The calls of the server that meet its peer.                             *)

\* A call of the server that meets its peer, and leads from its phase to the next.
LEMMA MeetsPeer ==
    ASSUME NEW P, SocketsInvariant(P), Running("server"), NextCall("server").call # "socket",
           NEW phase, NEW is \in ProcStates,
           is.at = proc["server"].at, is.outcome = "running", is.addresses = proc["server"].addresses,
           is.sock = proc["server"].sock,
           P["server"][proc["server"].at + 1] =
              Stage(P["server"][proc["server"].at].addresses, P["server"][proc["server"].at].sock, is.conn, phase),
           Proceeds("server", is), UNCHANGED script, TrafficOK', InPhase(phase)'
    PROVE  SocketsInvariant(P)'
<1>1. ProcTypes' /\ OnPaths(P)' /\ ServerPhase(P)' = phase
  BY ServeOnPath, AddressesSet DEF SocketsInvariant, Processes
<1>2. InPhase(ServerPhase(P))'
  BY <1>1 DEF InPhase, Receiving, SendingBack, Holding, Filled
<1> QED
  BY <1>1, <1>2 DEF SocketsInvariant

\* Where the server is when it is about to make a call.
LEMMA ServerCalls ==
    ASSUME NEW P, SocketsInvariant(P), NEW call, Calls("server", call), call # "socket"
    PROVE  LET s == P["server"][proc["server"].at]
               t == P["server"][proc["server"].at + 1]
           IN /\ Running("server") /\ NextCall("server").call = call
              /\ proc["server"] \in ProcStates /\ proc["server"].outcome = "running"
              /\ Takes(call, s, t) /\ Matches(proc["server"], s)
              /\ InPhase(s.phase)
<1>1. Running("server") /\ NextCall("server").call = call /\ "server" \in Processes
  BY DEF Calls, Processes
<1>2. proc["server"] \in ProcStates /\ proc["server"].outcome = "running"
  BY <1>1 DEF SocketsInvariant, ProcTypes, Running
<1>3. proc["server"].addresses # "garbage"
  BY <1>1, AddressesSet DEF SocketsInvariant
<1> QED
  BY <1>1, <1>2, <1>3, RunsOnPath DEF SocketsInvariant, ServerPhase

\* accept takes the connection.
LEMMA AcceptKeeps == ASSUME NEW P, SocketsInvariant(P), Accept PROVE SocketsInvariant(P)'
<1> DEFINE s == P["server"][proc["server"].at]
           t == P["server"][proc["server"].at + 1]
           is == [proc["server"] EXCEPT !.conn = "connected"]
<1>1. Calls("server", "accept") /\ Proceeds("server", is) /\ UNCHANGED <<script, traffic>>
  BY DEF Accept
<1>2. /\ Running("server") /\ NextCall("server").call = "accept" /\ InPhase(s.phase)
      /\ proc["server"] \in ProcStates /\ proc["server"].outcome = "running"
      /\ Takes("accept", s, t)
  BY <1>1, ServerCalls
<1>3. t = Stage(s.addresses, s.sock, "connected", s.phase)
  BY <1>2 DEF Takes
<1>4. /\ is \in ProcStates /\ is.at = proc["server"].at /\ is.outcome = "running"
      /\ is.addresses = proc["server"].addresses /\ is.sock = proc["server"].sock /\ is.conn = "connected"
  BY <1>2 DEF ProcStates
<1>5. TrafficOK'
  BY <1>1 DEF SocketsInvariant, TrafficOK, Filled, Datagrams, traffic
<1>6. PICK phase : phase = s.phase
  OBVIOUS
<1>7. InPhase(phase)'
  BY <1>1, <1>2, <1>6 DEF InPhase, Receiving, SendingBack, Holding, Filled, traffic
<1> HIDE DEF is
<1> QED
  BY <1>1, <1>2, <1>3, <1>4, <1>5, <1>6, <1>7, MeetsPeer

\* The last of the request, or its end, is received.
LEMMA ReceivedAll ==
    ASSUME NEW P, SocketsInvariant(P), Calls("server", "recv_loop"), Proceeds("server", proc["server"]),
           UNCHANGED <<script, reply, answers>>, bytes' = 0, TrafficOK'
    PROVE  SocketsInvariant(P)'
<1> DEFINE s == P["server"][proc["server"].at]
           t == P["server"][proc["server"].at + 1]
<1>1. /\ Running("server") /\ NextCall("server").call = "recv_loop" /\ InPhase(s.phase)
      /\ proc["server"] \in ProcStates /\ proc["server"].outcome = "running"
      /\ Takes("recv_loop", s, t) /\ Matches(proc["server"], s)
  BY ServerCalls
<1>2. s.phase = "in" /\ t = Stage(s.addresses, s.sock, s.conn, "echo")
  BY <1>1 DEF Takes
<1>3. Receiving
  BY <1>1, <1>2 DEF InPhase
<1>4. InPhase("echo")'
  BY <1>3, SocketAssumption DEF InPhase, SendingBack, Receiving
<1> QED
  BY <1>1, <1>2, <1>4, MeetsPeer DEF Matches

\* What a part of a sequence holds.
LEMMA PartOfSeq ==
    ASSUME NEW S, NEW s \in Seq(S), NEW m \in Nat, NEW n \in Nat, m + n <= Len(s)
    PROVE  /\ SubSeq(s, m + 1, m + n) \in Seq(S) /\ Len(SubSeq(s, m + 1, m + n)) = n
           /\ \A i \in 1 .. n : SubSeq(s, m + 1, m + n)[i] = s[m + i]
<1>1. m + 1 \in Int /\ m + n \in Int /\ Len(s) \in Nat
  OBVIOUS
<1>2. \A i \in m + 1 .. m + n : s[i] \in S
  <2> SUFFICES ASSUME NEW i \in m + 1 .. m + n PROVE s[i] \in S
    OBVIOUS
  <2>1. i \in 1 .. Len(s)
    BY <1>1
  <2> QED
    BY <2>1
<1> DEFINE part == SubSeq(s, m + 1, m + n)
<1>3. /\ part \in Seq(S) /\ Len(part) = IF m + 1 <= m + n THEN (m + n) - (m + 1) + 1 ELSE 0
      /\ \A i \in 1 .. (m + n) - (m + 1) + 1 : part[i] = s[(m + 1) + i - 1]
  BY <1>1, <1>2, SubSeqProperties
<1> HIDE DEF part
<1>4. Len(part) = n
  BY <1>3
<1>5. ASSUME NEW i \in 1 .. n PROVE part[i] = s[m + i]
  <2>1. i \in 1 .. (m + n) - (m + 1) + 1 /\ (m + 1) + i - 1 = m + i
    OBVIOUS
  <2> QED
    BY <1>3, <2>1
<1> QED
  BY <1>3, <1>4, <1>5 DEF part

\* recv returns some of what was sent, behind what was received.
LEMMA RecvSomeKeeps == ASSUME NEW P, SocketsInvariant(P), RecvSome PROVE SocketsInvariant(P)'
<1>1. PICK n \in 1 .. Min({Len(wire), BufferSize - bytes}) :
        /\ buf' = Received(n)
        /\ wire' = SubSeq(wire, n + 1, Len(wire))
        /\ IF bytes + n < BufferSize
             THEN bytes' = bytes + n /\ UNCHANGED proc
             ELSE bytes' = 0 /\ Proceeds("server", proc["server"])
  BY DEF RecvSome
<1>2. Calls("server", "recv_loop") /\ UNCHANGED <<script, sent, tcpPeer, reply, datagrams, sentOnce, answers>>
  BY DEF RecvSome
<1>3. wire \in Seq(Nat) /\ bytes \in Nat /\ BufferSize \in Nat
  BY SocketAssumption DEF SocketsInvariant, TrafficOK
<1>4. ServerPhase(P) = "in" /\ Receiving
  <2>1. /\ InPhase(P["server"][proc["server"].at].phase)
        /\ Takes("recv_loop", P["server"][proc["server"].at], P["server"][proc["server"].at + 1])
    BY <1>2, ServerCalls
  <2>2. P["server"][proc["server"].at].phase = "in"
    BY <2>1 DEF Takes
  <2> QED
    BY <2>1, <2>2 DEF InPhase, ServerPhase
<1>5. n \in Nat /\ n >= 1 /\ n <= Len(wire) /\ bytes + n <= BufferSize
  <2>1. bytes <= BufferSize /\ Len(wire) \in Nat /\ BufferSize - bytes \in Nat
    BY <1>3, <1>4 DEF Receiving
  <2>2. Min({Len(wire), BufferSize - bytes}) \in Nat /\ Min({Len(wire), BufferSize - bytes}) <= Len(wire)
        /\ Min({Len(wire), BufferSize - bytes}) <= BufferSize - bytes
    BY <2>1 DEF Min
  <2> QED
    BY <1>3, <2>1, <2>2
<1>6. /\ wire' \in Seq(Nat) /\ Len(wire') = Len(wire) - n
      /\ \A i \in 1 .. Len(wire') : wire'[i] = wire[n + i]
  <2> DEFINE k == Len(wire) - n
             rest == SubSeq(wire, n + 1, n + k)
  <2>1. k \in Nat /\ n + k = Len(wire) /\ n + k <= Len(wire)
    BY <1>3, <1>5
  <2>2. wire' = rest
    BY <1>1, <2>1
  <2> HIDE DEF k
  <2>3. rest \in Seq(Nat) /\ Len(rest) = k /\ \A i \in 1 .. k : rest[i] = wire[n + i]
    BY <1>3, <1>5, <2>1, PartOfSeq
  <2> HIDE DEF rest
  <2> QED
    BY <2>2, <2>3 DEF k
<1>7. buf' = [i \in 1 .. BufferSize |-> IF i <= bytes + n THEN i ELSE Garbage]
  <2> SUFFICES ASSUME NEW i \in 1 .. BufferSize
               PROVE  (IF i \in bytes + 1 .. bytes + n THEN wire[i - bytes] ELSE buf[i])
                         = IF i <= bytes + n THEN i ELSE Garbage
    BY <1>1 DEF Received
  <2>1. buf[i] = IF i <= bytes THEN i ELSE Garbage
    BY <1>4 DEF Receiving, Filled
  <2>2. CASE i \in bytes + 1 .. bytes + n
    <3>1. i - bytes \in 1 .. Len(wire) /\ bytes + (i - bytes) = i
      BY <1>3, <1>5, <2>2
    <3>2. wire[i - bytes] = i
      BY <1>4, <3>1 DEF Receiving
    <3> QED
      BY <1>3, <1>5, <2>2, <3>2
  <2>3. CASE i \notin bytes + 1 .. bytes + n
    BY <1>3, <1>5, <2>1, <2>3
  <2> QED
    BY <2>2, <2>3
<1>8. TrafficOK'
  <2>1. \E k \in 0 .. BufferSize : Filled(k)'
    <3>1. bytes + n \in 0 .. BufferSize
      BY <1>3, <1>5
    <3> QED
      BY <1>7, <3>1 DEF Filled
  <2>2. bytes' \in Nat
    BY <1>1, <1>3, <1>5
  <2>3. /\ reply' \in Seq(Nat \cup {Garbage}) /\ Len(reply') <= BufferSize
        /\ \A i \in 1 .. Len(reply') : reply'[i] = buf'[i]
    <3>1. reply' = <<>>
      BY <1>2, <1>4 DEF Receiving
    <3> QED
      BY <1>3, <3>1
  <2>4. tcpPeer' = tcpPeer /\ sent' = sent /\ datagrams' = datagrams /\ sentOnce' = sentOnce /\ answers' = answers
    BY <1>2
  <2>5. datagrams' \in Seq(Datagrams')
    BY <2>4 DEF SocketsInvariant, TrafficOK, Datagrams
  <2> QED
    BY <1>6, <2>1, <2>2, <2>3, <2>4, <2>5 DEF SocketsInvariant, TrafficOK, Datagrams
<1>9. CASE bytes + n < BufferSize
  <2>1. bytes' = bytes + n /\ UNCHANGED proc
    BY <1>1, <1>9
  <2>2. Filled(bytes)'
    BY <1>7, <2>1 DEF Filled
  <2>3. \A i \in 1 .. Len(wire') : wire'[i] = bytes' + i
    <3> SUFFICES ASSUME NEW i \in 1 .. Len(wire') PROVE wire'[i] = bytes' + i
      OBVIOUS
    <3>1. n + i \in 1 .. Len(wire)
      BY <1>3, <1>5, <1>6
    <3> QED
      BY <1>3, <1>4, <1>5, <1>6, <2>1, <3>1 DEF Receiving
  <2>4. tcpPeer' \in {"absent", "sending"} => sent' = bytes' + Len(wire')
    <3>1. bytes' + Len(wire') = bytes + Len(wire)
      BY <1>3, <1>5, <1>6, <2>1
    <3> QED
      BY <1>2, <1>4, <3>1 DEF Receiving
  <2>5. Receiving'
    BY <1>2, <1>4, <1>5, <2>1, <2>2, <2>3, <2>4 DEF Receiving
  <2>6. ProcTypes' /\ OnPaths(P)' /\ ServerPhase(P)' = "in"
    BY <1>2, <1>4, <2>1 DEF SocketsInvariant, ProcTypes, OnPaths, ServerPhase
  <2> QED
    BY <1>8, <2>5, <2>6 DEF SocketsInvariant, InPhase
<1>10. CASE ~(bytes + n < BufferSize)
  BY <1>1, <1>2, <1>8, <1>10, ReceivedAll
<1> QED
  BY <1>9, <1>10

\* recv returns 0 or -1: the request ended early.
LEMMA RecvEndsKeeps == ASSUME NEW P, SocketsInvariant(P), RecvEnds PROVE SocketsInvariant(P)'
<1>1. /\ Calls("server", "recv_loop") /\ Proceeds("server", proc["server"]) /\ bytes' = 0
      /\ UNCHANGED <<script, sent, tcpPeer, wire, buf, reply, datagrams, sentOnce, answers>>
  BY DEF RecvEnds
<1>2. TrafficOK'
  BY <1>1 DEF SocketsInvariant, TrafficOK, Filled, Datagrams
<1> QED
  BY <1>1, <1>2, ReceivedAll

\* send takes the next units of the buffer, and a client that closed answers
\* with a reset.
LEMMA SendSomeKeeps == ASSUME NEW P, SocketsInvariant(P), SendSome PROVE SocketsInvariant(P)'
<1> DEFINE s == P["server"][proc["server"].at]
           t == P["server"][proc["server"].at + 1]
<1>1. PICK n \in 1 .. BufferSize - bytes :
        /\ reply' = IF tcpPeer = "closed" THEN reply ELSE reply \o SubSeq(buf, bytes + 1, bytes + n)
        /\ bytes' = bytes + n
        /\ IF bytes + n < BufferSize THEN UNCHANGED proc ELSE Proceeds("server", proc["server"])
  BY DEF SendSome
<1>2. /\ Calls("server", "send_loop") /\ tcpPeer # "reset"
      /\ tcpPeer' = IF tcpPeer = "closed" THEN "reset" ELSE tcpPeer
      /\ UNCHANGED <<script, sent, wire, buf, datagrams, sentOnce, answers>>
  BY DEF SendSome
<1>3. /\ Running("server") /\ NextCall("server").call = "send_loop" /\ InPhase(s.phase)
      /\ proc["server"] \in ProcStates /\ proc["server"].outcome = "running"
      /\ Takes("send_loop", s, t) /\ Matches(proc["server"], s)
  BY <1>2, ServerCalls
<1>4. s.phase = "echo" /\ t = Stage(s.addresses, s.sock, s.conn, "over") /\ SendingBack
  <2>1. s.phase = "echo" /\ t = Stage(s.addresses, s.sock, s.conn, "over")
    BY <1>3 DEF Takes
  <2> QED
    BY <1>3, <2>1 DEF InPhase
<1>5. bytes \in Nat /\ BufferSize \in Nat /\ n \in Nat /\ bytes + n \in Nat /\ bytes + n <= BufferSize
  BY <1>4, SocketAssumption DEF SendingBack, SocketsInvariant, TrafficOK
<1>6. buf \in Seq(Nat \cup {Garbage}) /\ Len(buf) = BufferSize
  <2>1. PICK k \in 0 .. BufferSize : buf = [i \in 1 .. BufferSize |-> IF i <= k THEN i ELSE Garbage]
    BY DEF SocketsInvariant, TrafficOK, Filled
  <2> QED
    BY <1>5, <2>1
<1>7. reply \in Seq(Nat \cup {Garbage}) /\ Len(reply) \in Nat /\ \A i \in 1 .. Len(reply) : reply[i] = buf[i]
  BY DEF SocketsInvariant, TrafficOK
<1>8. /\ reply' \in Seq(Nat \cup {Garbage}) /\ Len(reply') <= BufferSize
      /\ \A i \in 1 .. Len(reply') : reply'[i] = buf[i]
      /\ tcpPeer' \notin {"closed", "reset"} => Len(reply') = bytes'
  <2>1. CASE tcpPeer = "closed"
    <3>1. reply' = reply /\ tcpPeer' = "reset" /\ Len(reply) <= BufferSize
      BY <1>1, <1>2, <2>1 DEF SocketsInvariant, TrafficOK
    <3> QED
      BY <1>7, <3>1
  <2>2. CASE tcpPeer # "closed"
    <3> DEFINE more == SubSeq(buf, bytes + 1, bytes + n)
    <3>1. /\ more \in Seq(Nat \cup {Garbage}) /\ Len(more) = n
          /\ \A i \in 1 .. n : more[i] = buf[bytes + i]
      <4>1. bytes + n <= Len(buf)
        BY <1>5, <1>6
      <4> QED
        BY <1>5, <1>6, <4>1, PartOfSeq
    <3> HIDE DEF more
    <3>2. reply' = reply \o more
      BY <1>1, <2>2 DEF more
    <3>3. Len(reply) = bytes
      BY <1>2, <1>4, <2>2 DEF SendingBack
    <3>4. reply' \in Seq(Nat \cup {Garbage}) /\ Len(reply') = bytes + n
      <4>1. reply \o more \in Seq(Nat \cup {Garbage}) /\ Len(reply \o more) = Len(reply) + Len(more)
        BY <1>7, <3>1, ConcatProperties
      <4> QED
        BY <3>1, <3>2, <3>3, <4>1
    <3>5. ASSUME NEW i \in 1 .. Len(reply') PROVE reply'[i] = buf[i]
      <4>1. CASE i <= bytes
        BY <1>5, <1>7, <3>1, <3>2, <3>3, <3>4, <4>1
      <4>2. CASE i > bytes
        <5>1. i - bytes \in 1 .. n /\ bytes + (i - bytes) = i
          BY <1>5, <3>4, <4>2
        <5>2. reply'[i] = more[i - bytes]
          <6>1. \A j \in 1 .. Len(reply) + Len(more) :
                   (reply \o more)[j] = IF j <= Len(reply) THEN reply[j] ELSE more[j - Len(reply)]
            BY <1>7, <3>1, ConcatProperties
          <6>2. i \in 1 .. Len(reply) + Len(more) /\ ~(i <= Len(reply))
            BY <1>5, <3>1, <3>3, <3>4, <4>2
          <6> QED
            BY <3>2, <3>3, <6>1, <6>2
        <5> QED
          BY <3>1, <5>1, <5>2
      <4> QED
        BY <1>5, <3>4, <4>1, <4>2
    <3> QED
      BY <1>1, <1>5, <3>4, <3>5
  <2> QED
    BY <2>1, <2>2
<1>9. TrafficOK'
  <2>1. /\ tcpPeer' \in {"absent", "sending", "waiting", "shutdown", "closed", "reset"}
        /\ sent' \in Nat /\ wire' \in Seq(Nat) /\ bytes' \in Nat
        /\ answers' = {} \/ \E d \in Datagrams' : answers' = {d} /\ d.length <= BufferSize
        /\ datagrams' \in Seq(Datagrams')
    BY <1>1, <1>2, <1>5 DEF SocketsInvariant, TrafficOK, Datagrams
  <2>2. \E k \in 0 .. BufferSize : Filled(k)'
    BY <1>2 DEF SocketsInvariant, TrafficOK, Filled
  <2> QED
    BY <1>2, <1>8, <2>1, <2>2 DEF TrafficOK
<1>10. CASE bytes + n < BufferSize
  <2>1. UNCHANGED proc /\ bytes' = bytes + n
    BY <1>1, <1>10
  <2>2. SendingBack'
    BY <1>2, <1>4, <1>5, <1>8, <2>1 DEF SendingBack
  <2>3. ProcTypes' /\ OnPaths(P)' /\ ServerPhase(P)' = "echo"
    BY <1>2, <1>4, <2>1 DEF SocketsInvariant, ProcTypes, OnPaths, ServerPhase
  <2> QED
    BY <1>9, <2>2, <2>3 DEF SocketsInvariant, InPhase
<1>11. CASE ~(bytes + n < BufferSize)
  <2>1. Proceeds("server", proc["server"]) /\ InPhase("over")'
    BY <1>1, <1>11 DEF InPhase
  <2> QED
    BY <1>2, <1>3, <1>4, <1>9, <2>1, MeetsPeer DEF Matches
<1> QED
  BY <1>10, <1>11

\* send to a connection that was reset ends the loop or the program.
LEMMA SendFailsKeeps == ASSUME NEW P, SocketsInvariant(P), SendFails PROVE SocketsInvariant(P)'
<1> DEFINE s == P["server"][proc["server"].at]
           t == P["server"][proc["server"].at + 1]
<1>1. Calls("server", "send_loop") /\ UNCHANGED <<script, traffic>>
  BY DEF SendFails
<1>2. /\ Running("server") /\ NextCall("server").call = "send_loop"
      /\ proc["server"] \in ProcStates /\ proc["server"].outcome = "running"
      /\ Takes("send_loop", s, t) /\ Matches(proc["server"], s)
  BY <1>1, ServerCalls
<1>3. t = Stage(s.addresses, s.sock, s.conn, "over")
  BY <1>2 DEF Takes
<1>4. TrafficOK'
  BY <1>1 DEF SocketsInvariant, TrafficOK, Filled, Datagrams, traffic
<1>5. CASE Proceeds("server", proc["server"])
  <2>1. InPhase("over")'
    BY DEF InPhase
  <2> QED
    BY <1>1, <1>2, <1>3, <1>4, <1>5, <2>1, MeetsPeer DEF Matches
<1>6. CASE proc' = [proc EXCEPT !["server"].outcome = "killed"]
  <2> DEFINE next == [proc["server"] EXCEPT !.outcome = "killed"]
  <2>1. proc' = [proc EXCEPT !["server"] = next] /\ "server" \in Processes
    BY <1>6 DEF SocketsInvariant, ProcTypes, Processes
  <2>2. /\ next \in ProcStates /\ next.outcome = "killed" /\ next.at = proc["server"].at
        /\ next.addresses = proc["server"].addresses
    BY <1>2 DEF ProcStates
  <2>3. proc["server"].addresses # "garbage"
    BY <1>2, <2>1, AddressesSet DEF SocketsInvariant
  <2> HIDE DEF next
  <2>4. ProcTypes' /\ proc'["server"] = next /\ \A q \in Processes : q # "server" => proc'[q] = proc[q]
    BY <2>1, <2>2 DEF SocketsInvariant, ProcTypes
  <2>5. OnPath(script["server"], next, P["server"])
    BY <2>1, <2>2, <2>3 DEF SocketsInvariant, OnPaths, OnPath
  <2>6. OnPaths(P)'
    BY <1>1, <2>4, <2>5 DEF SocketsInvariant, OnPaths
  <2> QED
    BY <1>4, <2>2, <2>4, <2>6 DEF SocketsInvariant
<1> QED
  BY <1>5, <1>6 DEF SendFails

\* recvfrom keeps the datagram, cut off at the buffer, to answer it.
LEMMA RecvFromKeeps == ASSUME NEW P, SocketsInvariant(P), RecvFrom PROVE SocketsInvariant(P)'
<1> DEFINE s == P["server"][proc["server"].at]
           t == P["server"][proc["server"].at + 1]
           first == [Head(datagrams) EXCEPT !.length = Min({Head(datagrams).length, BufferSize})]
<1>1. /\ Calls("server", "recvfrom") /\ datagrams # <<>> /\ Proceeds("server", proc["server"])
      /\ datagrams' = <<first>> \o Tail(datagrams)
      /\ UNCHANGED <<script, sent, tcpPeer, wire, buf, bytes, reply, sentOnce, answers>>
  BY DEF RecvFrom
<1>2. /\ Running("server") /\ NextCall("server").call = "recvfrom" /\ InPhase(s.phase)
      /\ proc["server"] \in ProcStates /\ proc["server"].outcome = "running"
      /\ Takes("recvfrom", s, t) /\ Matches(proc["server"], s)
  BY <1>1, ServerCalls
<1>3. s.phase = "in" /\ t = Stage(s.addresses, s.sock, s.conn, "held")
  BY <1>2 DEF Takes
<1>4. answers = {}
  BY <1>2, <1>3 DEF InPhase, Receiving
<1>5. datagrams \in Seq(Datagrams)
  BY DEF SocketsInvariant, TrafficOK
<1>6. Head(datagrams) \in Datagrams /\ Tail(datagrams) \in Seq(Datagrams)
  <2> HIDE DEF Datagrams
  <2> QED
    BY <1>1, <1>5
<1>7. first \in Datagrams /\ first.length <= BufferSize
  <2>1. Head(datagrams).length \in Nat /\ BufferSize \in Nat
    BY <1>6, SocketAssumption DEF Datagrams
  <2>2. /\ Min({Head(datagrams).length, BufferSize}) \in Nat
        /\ Min({Head(datagrams).length, BufferSize}) <= BufferSize
    BY <2>1 DEF Min
  <2> QED
    BY <1>6, <2>2 DEF Datagrams
<1> HIDE DEF first
<1>8. datagrams' \in Seq(Datagrams) /\ datagrams' # <<>> /\ datagrams'[1] = first
  <2> HIDE DEF Datagrams
  <2> QED
    BY <1>1, <1>6, <1>7
<1>9. datagrams' \in Seq(Datagrams')
  BY <1>1, <1>8 DEF Datagrams
<1>10. TrafficOK'
  <2>1. \E k \in 0 .. BufferSize : Filled(k)'
    BY <1>1 DEF SocketsInvariant, TrafficOK, Filled
  <2> QED
    BY <1>1, <1>4, <1>9, <2>1 DEF SocketsInvariant, TrafficOK
<1>11. InPhase("held")'
  BY <1>1, <1>4, <1>7, <1>8 DEF InPhase, Holding
<1> QED
  BY <1>1, <1>2, <1>3, <1>10, <1>11, MeetsPeer DEF Matches

\* The datagram that was received is answered, or printed.
LEMMA AnswerKeeps == ASSUME NEW P, SocketsInvariant(P), Answer PROVE SocketsInvariant(P)'
<1> DEFINE s == P["server"][proc["server"].at]
           t == P["server"][proc["server"].at + 1]
<1>1. /\ answers' = answers \cup {Head(datagrams)} /\ datagrams' = Tail(datagrams)
      /\ Proceeds("server", proc["server"])
      /\ UNCHANGED <<script, sent, tcpPeer, wire, buf, bytes, reply, sentOnce>>
  BY DEF Answer
<1>2. PICK call \in {"sendto", "print"} : Calls("server", call)
  BY DEF Answer
<1>3. /\ Running("server") /\ NextCall("server").call = call /\ InPhase(s.phase)
      /\ proc["server"] \in ProcStates /\ proc["server"].outcome = "running"
      /\ Takes(call, s, t) /\ Matches(proc["server"], s)
  BY <1>2, ServerCalls
<1>4. s.phase = "held" /\ t = Stage(s.addresses, s.sock, s.conn, "over")
  BY <1>2, <1>3 DEF Takes
<1>5. answers = {} /\ datagrams # <<>> /\ datagrams[1].length <= BufferSize
  BY <1>3, <1>4 DEF InPhase, Holding
<1>6. datagrams \in Seq(Datagrams)
  BY DEF SocketsInvariant, TrafficOK
<1>7. Head(datagrams) \in Datagrams /\ Tail(datagrams) \in Seq(Datagrams) /\ Head(datagrams) = datagrams[1]
  <2> HIDE DEF Datagrams
  <2> QED
    BY <1>5, <1>6
<1>8. datagrams' \in Seq(Datagrams') /\ Head(datagrams) \in Datagrams'
  BY <1>1, <1>7 DEF Datagrams
<1>9. answers' = {Head(datagrams)} /\ Head(datagrams).length <= BufferSize
  BY <1>1, <1>5, <1>7
<1>10. TrafficOK'
  <2>1. \E k \in 0 .. BufferSize : Filled(k)'
    BY <1>1 DEF SocketsInvariant, TrafficOK, Filled
  <2>2. \E d \in Datagrams' : answers' = {d} /\ d.length <= BufferSize
    BY <1>8, <1>9
  <2> QED
    BY <1>1, <1>8, <2>1, <2>2 DEF SocketsInvariant, TrafficOK
<1>11. InPhase("over")'
  BY DEF InPhase
<1>12. NextCall("server").call # "socket"
  BY <1>2, <1>3
<1> QED
  BY <1>1, <1>3, <1>4, <1>10, <1>11, <1>12, MeetsPeer DEF Matches

\* Every step of the socket programs keeps the invariant.
LEMMA SocketsKeep == ASSUME NEW P, SocketsInvariant(P), SocketNext PROVE SocketsInvariant(P)'
<1>1. ASSUME NEW p \in Processes, Step(p) PROVE SocketsInvariant(P)'
  BY <1>1, StepsKeepSockets
<1>2. CASE Serve
  BY <1>2, AcceptKeeps, RecvSomeKeeps, RecvEndsKeeps, SendSomeKeeps, SendFailsKeeps, RecvFromKeeps, AnswerKeeps
     DEF Serve
<1>3. CASE Peers
  BY <1>3, PeerConnectsKeeps, PeerSendsKeeps, PeerStopsKeeps, DatagramSentKeeps, ClientSendsKeeps DEF Peers
<1> QED
  BY <1>1, <1>2, <1>3 DEF SocketNext

\* So does a step that leaves the socket programs alone.
LEMMA SocketsRest == ASSUME NEW P, SocketsInvariant(P), UNCHANGED socketVars PROVE SocketsInvariant(P)'
<1>1. TrafficOK'
  BY DEF SocketsInvariant, TrafficOK, Filled, Datagrams, socketVars, traffic
<1>2. ASSUME NEW phase, InPhase(phase) PROVE InPhase(phase)'
  BY <1>2 DEF InPhase, Receiving, SendingBack, Holding, Filled, socketVars, traffic
<1> QED
  BY <1>1, <1>2, StillOnPath DEF socketVars

\* A process on its path makes its calls in order.
LEMMA PathsAreInOrder == ASSUME NEW P, SocketsInvariant(P) PROVE CallsInOrder
<1> SUFFICES ASSUME NEW p \in Processes
             PROVE  /\ Running(p) => Needs(p) \/ proc[p].addresses = "garbage"
                    /\ proc[p].outcome = "undefined" => script[p] = LoopSetup
                    /\ proc[p].outcome = "done" /\ script[p] # LoopSetup =>
                          proc[p].sock \in {"none", "closed"} /\ proc[p].conn \in {"none", "closed"}
  BY DEF CallsInOrder
<1>1. Path(script[p], P[p], First(p)) /\ OnPath(script[p], proc[p], P[p])
  BY DEF SocketsInvariant, OnPaths
<1>2. ASSUME Running(p), proc[p].addresses # "garbage" PROVE Needs(p)
  <2>1. /\ Takes(NextCall(p).call, P[p][proc[p].at], P[p][proc[p].at + 1])
        /\ Matches(proc[p], P[p][proc[p].at])
    BY <1>2, RunsOnPath DEF SocketsInvariant
  <2> QED
    BY <2>1 DEF Takes, Matches, Needs
<1>3. ASSUME proc[p].outcome = "done", script[p] # LoopSetup
      PROVE  proc[p].sock \in {"none", "closed"} /\ proc[p].conn \in {"none", "closed"}
  BY <1>1, <1>3 DEF Path, OnPath, Matches
<1> QED
  BY <1>1, <1>2, <1>3 DEF OnPath

\* What is sent back is what was received.
LEMMA TrafficIsEchoed == ASSUME TrafficOK PROVE RepliesEcho
<1>1. PICK k \in 0 .. BufferSize : buf = [i \in 1 .. BufferSize |-> IF i <= k THEN i ELSE Garbage]
  BY DEF TrafficOK, Filled
<1>2. /\ BufferSize \in Nat /\ Garbage \notin Nat /\ k \in Nat /\ Len(reply) \in Nat
      /\ DOMAIN reply = 1 .. Len(reply) /\ Len(reply) <= BufferSize
  BY SocketAssumption DEF TrafficOK
<1>3. ASSUME NEW i \in DOMAIN reply PROVE i \in Nat /\ reply[i] = IF i <= k THEN i ELSE Garbage
  <2>1. i \in 1 .. Len(reply) /\ i \in 1 .. BufferSize /\ i \in Nat
    BY <1>2
  <2>2. reply[i] = buf[i]
    BY <2>1 DEF TrafficOK
  <2>3. buf[i] = IF i <= k THEN i ELSE Garbage
    BY <1>1, <2>1
  <2> QED
    BY <2>1, <2>2, <2>3
<1>4. \A i \in DOMAIN reply : reply[i] \in {i, Garbage}
  BY <1>3
<1>5. ASSUME NEW i \in DOMAIN reply, NEW j \in DOMAIN reply, i < j, reply[i] = Garbage
      PROVE  reply[j] = Garbage
  <2>1. ~(i <= k)
    BY <1>2, <1>3, <1>5
  <2>2. ~(j <= k)
    BY <1>2, <1>3, <1>5, <2>1
  <2> QED
    BY <1>3, <2>2
<1>6. Cardinality(answers) <= 1
  <2>1. CASE answers = {}
    BY <2>1, FS_EmptySet
  <2>2. CASE answers # {}
    <3>1. PICK d : answers = {d}
      BY <2>2 DEF TrafficOK
    <3>2. Cardinality({d}) = 1
      BY FS_Singleton
    <3> QED
      BY <3>1, <3>2
  <2> QED
    BY <2>1, <2>2
<1>7. \A datagram \in answers :
         datagram.length <= BufferSize /\ datagram.from \in sentOnce \cup {"client"}
  BY DEF TrafficOK, Datagrams
<1> QED
  BY <1>4, <1>5, <1>6, <1>7 DEF RepliesEcho

-----------------------------------------------------------------------------
(* The patterns.  What a call does depends on obj, what it promises on the  *)
(* calls before it: the invariant of a pattern says what obj remembers of   *)
(* them.                                                                    *)

\* A history has an effect for each call.
Recorded ==
    /\ \E S : calls \in Seq(S)
    /\ \E S : effects \in Seq(S)
    /\ Len(effects) = Len(calls)

\* The calls and effects up to the n-th stay, and the next is op(arg) with out.
Adds(n, op, arg, out) ==
    /\ n \in Nat /\ Len(calls) = n /\ Len(calls)' = n + 1
    /\ \A i \in 1 .. n : calls'[i] = calls[i] /\ effects'[i] = effects[i]
    /\ calls'[n + 1].op = op /\ calls'[n + 1].arg = arg /\ effects'[n + 1] = out

\* A call is added to the history.
LEMMA DoesAdds ==
    ASSUME Recorded, NEW name, NEW op, NEW arg, NEW next, NEW out, Does(name, op, arg, next, out)
    PROVE  /\ Recorded' /\ Adds(Len(calls), op, arg, out)
           /\ pattern = name /\ pattern' = name /\ obj' = next
<1> DEFINE c == [op |-> op, arg |-> arg]
<1>1. /\ pattern = name /\ pattern' = name /\ obj' = next
      /\ calls' = Append(calls, c) /\ effects' = Append(effects, out)
  BY DEF Does
<1>2. PICK S : calls \in Seq(S)
  BY DEF Recorded
<1>3. PICK T : effects \in Seq(T)
  BY DEF Recorded
<1>4. Len(effects) = Len(calls) /\ Len(calls) \in Nat
  BY <1>2 DEF Recorded
<1>5. c.op = op /\ c.arg = arg
  OBVIOUS
<1> HIDE DEF c
<1>6. /\ calls' \in Seq(S \cup {c}) /\ Len(calls') = Len(calls) + 1 /\ calls'[Len(calls) + 1] = c
      /\ \A i \in 1 .. Len(calls) : calls'[i] = calls[i]
  <2>1. calls \in Seq(S \cup {c})
    BY <1>2
  <2> QED
    BY <1>1, <2>1
<1>7. /\ effects' \in Seq(T \cup {out}) /\ Len(effects') = Len(effects) + 1
      /\ effects'[Len(effects) + 1] = out
      /\ \A i \in 1 .. Len(effects) : effects'[i] = effects[i]
  <2>1. effects \in Seq(T \cup {out})
    BY <1>3
  <2> QED
    BY <1>1, <2>1
<1>8. Recorded'
  BY <1>4, <1>6, <1>7 DEF Recorded
<1> QED
  BY <1>1, <1>4, <1>5, <1>6, <1>7, <1>8 DEF Adds

-----------------------------------------------------------------------------
(* Greatest and least positions.                                           *)

\* Every set of naturals that is not empty has a least member.
LEMMA Smallest ==
    ASSUME NEW S \in SUBSET Nat, S # {}
    PROVE  \E x \in S : \A y \in S : x <= y
<1> DEFINE R == {ss \in Nat \X Nat : ss[1] < ss[2]}
<1>1. OpToRel(<, Nat) = R
  BY DEF OpToRel
<1>2. IsWellFoundedOn(R, Nat)
  BY <1>1, NatLessThanWellFounded
<1>3. \A x, y \in Nat : x < y => <<x, y>> \in R
  OBVIOUS
<1>4. \E x \in S : \A y \in S : ~(<<y, x>> \in R)
  <2> HIDE DEF R
  <2> QED
    BY <1>2, WFMin
<1>5. PICK x \in S : \A y \in S : ~(<<y, x>> \in R)
  BY <1>4
<1>6. \A y \in S : ~(y < x)
  BY <1>3, <1>5
<1> QED
  BY <1>6

\* Max of some positions is the greatest of them, and the only such.
LEMMA Greatest ==
    ASSUME NEW n \in Nat, NEW S \in SUBSET (1 .. n), S # {}
    PROVE  /\ Max(S) \in S /\ \A x \in S : Max(S) >= x
           /\ \A m \in S : (\A x \in S : m >= x) => Max(S) = m
<1> DEFINE below == {n - x : x \in S}
<1>1. below \in SUBSET Nat /\ below # {}
  <2>1. \A x \in S : n - x \in Nat
    OBVIOUS
  <2> QED
    BY <2>1
<1>2. PICK k \in below : \A y \in below : k <= y
  <2> HIDE DEF below
  <2> QED
    BY <1>1, Smallest
<1>3. PICK m \in S : k = n - m
  OBVIOUS
<1>4. \A x \in S : m >= x
  <2> SUFFICES ASSUME NEW x \in S PROVE m >= x
    OBVIOUS
  <2>1. n - m <= n - x /\ m \in Nat /\ x \in Nat
    BY <1>2, <1>3
  <2> QED
    BY <2>1
<1>5. \A l \in S : (\A x \in S : l >= x) => l = m
  <2> SUFFICES ASSUME NEW l \in S, \A x \in S : l >= x PROVE l = m
    OBVIOUS
  <2>1. l >= m /\ m >= l /\ l \in Nat /\ m \in Nat
    BY <1>4
  <2> QED
    BY <2>1
<1>6. Max(S) = m
  BY <1>4, <1>5 DEF Max
<1> QED
  BY <1>4, <1>5, <1>6

\* Min of some positions is the least of them.
LEMMA Least ==
    ASSUME NEW S \in SUBSET Nat, S # {}
    PROVE  Min(S) \in S /\ \A x \in S : Min(S) <= x
BY Smallest DEF Min

\* What came before a call stays before it, and the new call comes before the next.
LEMMA EarlierAfter ==
    ASSUME NEW n, NEW op, NEW arg, NEW out, Adds(n, op, arg, out), NEW o
    PROVE  /\ \A i \in 1 .. n + 1 : Earlier(i, o)' = Earlier(i, o)
           /\ Earlier(n + 2, o)' = IF o = op THEN Earlier(n + 1, o) \cup {n + 1} ELSE Earlier(n + 1, o)
           /\ n + 1 \notin Earlier(n + 1, o)
<1>1. n \in Nat /\ n + 2 - 1 = n + 1 /\ n + 1 - 1 = n
  BY DEF Adds
<1>2. ASSUME NEW i \in 1 .. n + 1 PROVE Earlier(i, o)' = Earlier(i, o)
  <2>1. \A j \in 1 .. i - 1 : j \in 1 .. n
    BY <1>1
  <2> QED
    BY <2>1 DEF Earlier, Adds
<1>3. Earlier(n + 2, o)' = IF o = op THEN Earlier(n + 1, o) \cup {n + 1} ELSE Earlier(n + 1, o)
  <2>1. Earlier(n + 2, o)' = {j \in 1 .. n + 1 : calls'[j].op = o}
    BY <1>1 DEF Earlier
  <2>2. Earlier(n + 1, o) = {j \in 1 .. n : calls[j].op = o}
    BY <1>1 DEF Earlier
  <2>3. \A j : j \in 1 .. n + 1 <=> j \in 1 .. n \/ j = n + 1
    BY <1>1
  <2>4. calls'[n + 1].op = op /\ \A j \in 1 .. n : calls'[j].op = calls[j].op
    BY DEF Adds
  <2> QED
    BY <2>1, <2>2, <2>3, <2>4
<1>4. n + 1 \notin Earlier(n + 1, o)
  BY <1>1 DEF Earlier
<1> QED
  BY <1>2, <1>3, <1>4

\* The latest of some earlier calls is one of them.
LEMMA LatestIs ==
    ASSUME NEW i, i - 1 \in Nat, NEW o, Earlier(i, o) # {}
    PROVE  /\ LatestAt(i, o) \in 1 .. i - 1 /\ LatestAt(i, o) \in Earlier(i, o)
           /\ \A j \in Earlier(i, o) : LatestAt(i, o) >= j
BY Greatest DEF Earlier, LatestAt

\* So the latest call of each kind before a call stays.
LEMMA LatestStays ==
    ASSUME NEW n, NEW op, NEW arg, NEW out, Adds(n, op, arg, out), NEW i \in 1 .. n + 1, NEW o, NEW d
    PROVE  Latest(i, o, d)' = Latest(i, o, d) /\ LatestAt(i, o)' = LatestAt(i, o)
<1>1. n \in Nat /\ \A j \in 1 .. n : calls'[j] = calls[j]
  BY DEF Adds
<1>2. Earlier(i, o)' = Earlier(i, o)
  BY EarlierAfter
<1>3. LatestAt(i, o)' = LatestAt(i, o)
  BY <1>2 DEF LatestAt
<1>4. i - 1 \in Nat /\ i - 1 <= n
  BY <1>1
<1>5. Earlier(i, o) # {} => LatestAt(i, o) \in 1 .. i - 1
  BY <1>4, LatestIs
<1>6. Earlier(i, o) # {} => LatestAt(i, o) \in 1 .. n
  BY <1>1, <1>4, <1>5
<1> QED
  BY <1>1, <1>2, <1>3, <1>6 DEF Latest

\* Of the kind of the new call, it is the latest.
LEMMA LatestNew ==
    ASSUME NEW n, NEW op, NEW arg, NEW out, Adds(n, op, arg, out), NEW d
    PROVE  Latest(n + 2, op, d)' = arg /\ LatestAt(n + 2, op)' = n + 1
<1>1. n \in Nat /\ n + 1 - 1 = n /\ \A i \in 1 .. n : calls'[i] = calls[i]
  BY DEF Adds
<1>2. Earlier(n + 2, op)' = Earlier(n + 1, op) \cup {n + 1}
  BY EarlierAfter
<1>3. Earlier(n + 1, op) \subseteq 1 .. n
  BY <1>1 DEF Earlier
<1> DEFINE all == Earlier(n + 1, op) \cup {n + 1}
<1>4. all \in SUBSET (1 .. n + 1) /\ n + 1 \in all /\ \A x \in all : n + 1 >= x
  BY <1>1, <1>3
<1>5. Max(all) = n + 1
  <2>1. n + 1 \in Nat /\ all # {}
    BY <1>1
  <2> HIDE DEF all
  <2> QED
    BY <1>4, <2>1, Greatest
<1>6. LatestAt(n + 2, op)' = n + 1
  BY <1>2, <1>5 DEF LatestAt
<1>7. Latest(n + 2, op, d)' = arg
  BY <1>2, <1>6 DEF Latest, Adds
<1> QED
  BY <1>6, <1>7

\* Of the other kinds it is what it was.
LEMMA LatestOther ==
    ASSUME NEW n, NEW op, NEW arg, NEW out, Adds(n, op, arg, out), NEW o, o # op, NEW d
    PROVE  Latest(n + 2, o, d)' = Latest(n + 1, o, d) /\ LatestAt(n + 2, o)' = LatestAt(n + 1, o)
<1>1. n \in Nat /\ \A i \in 1 .. n : calls'[i] = calls[i]
  BY DEF Adds
<1>2. Earlier(n + 2, o)' = Earlier(n + 1, o)
  BY EarlierAfter
<1>3. LatestAt(n + 2, o)' = LatestAt(n + 1, o)
  BY <1>2 DEF LatestAt
<1>4. Earlier(n + 1, o) # {} => LatestAt(n + 1, o) \in 1 .. n
  <2> DEFINE i == n + 1
  <2>1. i - 1 = n /\ i - 1 \in Nat
    BY <1>1
  <2> HIDE DEF i
  <2>2. Earlier(i, o) # {} => LatestAt(i, o) \in 1 .. i - 1
    BY <2>1, LatestIs
  <2> QED
    BY <2>1, <2>2 DEF i
<1>5. Latest(n + 2, o, d)' = Latest(n + 1, o, d)
  BY <1>1, <1>2, <1>3, <1>4 DEF Latest
<1> QED
  BY <1>3, <1>5

\* Before the first call there is none.
LEMMA LatestAtFirst == ASSUME NEW o, NEW d PROVE Earlier(1, o) = {} /\ Latest(1, o, d) = d
<1>1. Earlier(1, o) = {}
  BY DEF Earlier
<1> QED
  BY <1>1 DEF Latest

-----------------------------------------------------------------------------
(* A promise that was kept stays kept: it is about the past.               *)

\* Of the first examples.
LEMMA ObjectPromiseStays ==
    ASSUME NEW n, NEW op, NEW arg, NEW out, Adds(n, op, arg, out),
           NEW i \in 1 .. n, ObjectPromise(i)
    PROVE  ObjectPromise(i)'
<1>1. /\ n \in Nat /\ i \in 1 .. n + 1 /\ Len(calls) = n /\ Len(calls)' = n + 1 /\ i # n + 1
      /\ calls'[i] = calls[i] /\ effects'[i] = effects[i]
      /\ \A j \in 1 .. n : calls'[j] = calls[j]
  BY DEF Adds
<1>2. \A o, j : j \in 1 .. i => Latest(j, o, NoText)' = Latest(j, o, NoText)
  <2> SUFFICES ASSUME NEW o, NEW j \in 1 .. i PROVE Latest(j, o, NoText)' = Latest(j, o, NoText)
    OBVIOUS
  <2>1. j \in 1 .. n + 1
    BY <1>1
  <2> QED
    BY <2>1, LatestStays
<1>3. Latest(i, "set", "INFO")' = Latest(i, "set", "INFO")
  BY <1>1, LatestStays
<1>4. Earlier(i, "subscribe")' = Earlier(i, "subscribe")
  BY <1>1, EarlierAfter
<1>5. i \in 1 .. i
  BY <1>1
<1>6. ClickPromise(i) => ClickPromise(i)'
  BY <1>1, <1>2, <1>5 DEF ClickPromise
<1>7. SetTempPromise(i) => SetTempPromise(i)'
  <2> DEFINE S == Earlier(i, "subscribe")
  <2>1. \A j \in S : calls'[j] = calls[j]
    BY <1>1 DEF Earlier
  <2>2. \A j \in S : Place(S, j)' = Place(S, j) /\ Place(S', j) = Place(S, j)
    BY <1>4 DEF Place
  <2> QED
    BY <1>1, <1>4, <2>1, <2>2 DEF SetTempPromise
<1>8. RenderPromise(i) => RenderPromise(i)'
  BY <1>1 DEF RenderPromise
<1>9. GetTypePromise(i) => GetTypePromise(i)'
  <2>1. \A j \in 1 .. i : calls'[j] = calls[j]
    BY <1>1
  <2> QED
    BY <1>1, <2>1 DEF GetTypePromise
<1>10. BuildPromise(i) => BuildPromise(i)'
  <2>1. \A part : Latest(i, part, NoText)' = Latest(i, part, NoText)
    BY <1>2, <1>5
  <2>2. [part \in Parts |-> Latest(i, part, NoText)]' = [part \in Parts |-> Latest(i, part, NoText)]
    BY <2>1
  <2> QED
    BY <1>1, <2>2 DEF BuildPromise
<1>11. GetLevelPromise(i) => GetLevelPromise(i)'
  BY <1>1, <1>3 DEF GetLevelPromise
<1> QED
  BY <1>1, <1>6, <1>7, <1>8, <1>9, <1>10, <1>11 DEF ObjectPromise

\* Of the others.
LEMMA CallPromiseStays ==
    ASSUME NEW n, NEW op, NEW arg, NEW out, Adds(n, op, arg, out),
           NEW i \in 1 .. n, CallPromise(i)
    PROVE  CallPromise(i)'
<1>1. /\ n \in Nat /\ i \in 1 .. n + 1 /\ Len(calls) = n /\ Len(calls)' = n + 1 /\ i # n + 1
      /\ calls'[i] = calls[i] /\ effects'[i] = effects[i]
      /\ \A j \in 1 .. n : calls'[j] = calls[j]
  BY DEF Adds
<1>2. /\ \A o : Latest(i, o, "none")' = Latest(i, o, "none") /\ LatestAt(i, o)' = LatestAt(i, o)
      /\ \A o : Earlier(i, o)' = Earlier(i, o)
      /\ \A j \in 1 .. n + 1 : LatestAt(j, "stamp")' = LatestAt(j, "stamp")
  <2>1. \A o : LatestAt(i, o)' = LatestAt(i, o) /\ Latest(i, o, "none")' = Latest(i, o, "none")
    BY <1>1, LatestStays
  <2>2. \A o : Earlier(i, o)' = Earlier(i, o)
    BY <1>1, EarlierAfter
  <2>3. \A j \in 1 .. n + 1 : LatestAt(j, "stamp")' = LatestAt(j, "stamp")
    BY LatestStays
  <2> QED
    BY <2>1, <2>2, <2>3
<1>3. \A o : \A j \in Earlier(i, o) : calls'[j] = calls[j]
  BY <1>1 DEF Earlier
<1>4. ExportPromise(i) => ExportPromise(i)'
  <2> DEFINE S == Earlier(i, "wrap")
  <2>1. S' = S /\ Filters(i)' = Filters(i)
    BY <1>2, <1>3 DEF Filters
  <2>2. Stops(i)' <=> Stops(i)
    BY <1>1, <2>1 DEF Stops
  <2>3. \A j : PlaceFromLast(S, j)' = PlaceFromLast(S, j) /\ PlaceFromLast(S', j) = PlaceFromLast(S, j)
    BY <2>1 DEF PlaceFromLast, Place
  <2> QED
    BY <1>1, <1>3, <2>1, <2>2, <2>3 DEF ExportPromise
<1>5. NavigatePromise(i) => NavigatePromise(i)'
  BY <1>1, <1>2 DEF NavigatePromise
<1>6. LogPromise(i) => LogPromise(i)'
  <2> DEFINE S == Earlier(i, "logger")
  <2>1. \A j \in S : calls'[j] = calls[j]
    BY <1>3
  <2>2. \A j \in S : Place(S', j) = Place(S, j)
    BY <1>2
  <2> QED
    BY <1>1, <1>2, <2>1, <2>2 DEF LogPromise
<1>7. CreateNodePromise(i) => CreateNodePromise(i)'
  BY <1>1 DEF CreateNodePromise
<1>8. ProviderPromise(i) => ProviderPromise(i)'
  BY <1>1, <1>2 DEF ProviderPromise
<1>9. TimestampPromise(i) => TimestampPromise(i)'
  BY <1>1, <1>2 DEF TimestampPromise
<1>10. ExamplePromise(i) => ExamplePromise(i)'
  BY <1>1 DEF ExamplePromise
<1>11. SlicingPromise(i) => SlicingPromise(i)'
  BY <1>1 DEF SlicingPromise
<1> QED
  BY <1>1, <1>4, <1>5, <1>6, <1>7, <1>8, <1>9, <1>10, <1>11 DEF CallPromise

-----------------------------------------------------------------------------
(* The dialog, the proxy, the builder and the logger.                      *)

\* Before the k-th call the fields hold the latest texts, and the button is
\* enabled if at one time both held text.
DialogRemembers(k) ==
    /\ obj = [username |-> Latest(k, "username", NoText), password |-> Latest(k, "password", NoText),
              enabled |-> obj.enabled]
    /\ obj.enabled \in BOOLEAN
    /\ obj.enabled <=> \E j \in 1 .. k : Latest(j, "username", NoText) # NoText /\ Latest(j, "password", NoText) # NoText

\* A field that is given text.
LEMMA FieldKeepsDialog ==
    ASSUME NEW n, NEW op \in {"username", "password"}, NEW text, Adds(n, op, text, <<>>), DialogRemembers(n + 1),
           \/ op = "username" /\ obj' = Notified([obj EXCEPT !.username = text])
           \/ op = "password" /\ obj' = Notified([obj EXCEPT !.password = text])
    PROVE  ObjectPromise(n + 1)' /\ DialogRemembers(n + 2)'
<1> DEFINE was == [obj EXCEPT !.username = text]
           now == Latest(n + 2, "username", NoText)'
           pass == Latest(n + 2, "password", NoText)'
<1>1. n \in Nat /\ calls'[n + 1].op = op /\ effects'[n + 1] = <<>>
  BY DEF Adds
<1>2. ObjectPromise(n + 1)'
  BY <1>1 DEF ObjectPromise
<1>3. /\ now = IF op = "username" THEN text ELSE Latest(n + 1, "username", NoText)
      /\ pass = IF op = "password" THEN text ELSE Latest(n + 1, "password", NoText)
  <2>1. Latest(n + 2, op, NoText)' = text
    BY LatestNew
  <2>2. \A o : o # op => Latest(n + 2, o, NoText)' = Latest(n + 1, o, NoText)
    BY LatestOther
  <2> QED
    BY <2>1, <2>2
<1>4. \A j \in 1 .. n + 1 : /\ Latest(j, "username", NoText)' = Latest(j, "username", NoText)
                            /\ Latest(j, "password", NoText)' = Latest(j, "password", NoText)
  BY LatestStays
<1> DEFINE set == [username |-> now, password |-> pass, enabled |-> obj.enabled]
<1>5. obj' = Notified(set)
  <2>1. op = "username" => [obj EXCEPT !.username = text] = set
    BY <1>3 DEF DialogRemembers
  <2>2. op = "password" => [obj EXCEPT !.password = text] = set
    BY <1>3 DEF DialogRemembers
  <2> HIDE DEF now, pass
  <2> QED
    BY <2>1, <2>2
<1>6. /\ obj' = [username |-> now, password |-> pass, enabled |-> obj'.enabled]
      /\ obj'.enabled \in BOOLEAN
      /\ obj'.enabled <=> obj.enabled \/ (now # NoText /\ pass # NoText)
  <2> HIDE DEF now, pass
  <2>1. CASE now = NoText \/ pass = NoText
    <3>1. obj' = set
      BY <1>5, <2>1 DEF Notified
    <3> QED
      BY <2>1, <3>1 DEF DialogRemembers
  <2>2. CASE ~(now = NoText \/ pass = NoText)
    <3>1. obj' = [username |-> now, password |-> pass, enabled |-> TRUE]
      BY <1>5, <2>2 DEF Notified
    <3> QED
      BY <2>2, <3>1
  <2> QED
    BY <2>1, <2>2
<1>7. obj'.enabled <=> \E j \in 1 .. n + 2 : Latest(j, "username", NoText)' # NoText /\ Latest(j, "password", NoText)' # NoText
  <2>1. \A j : j \in 1 .. n + 2 <=> j \in 1 .. n + 1 \/ j = n + 2
    BY <1>1
  <2> DEFINE both(j) == Latest(j, "username", NoText) # NoText /\ Latest(j, "password", NoText) # NoText
  <2>2. \A j \in 1 .. n + 1 : both(j)' <=> both(j)
    BY <1>4
  <2>3. both(n + 2)' <=> now # NoText /\ pass # NoText
    OBVIOUS
  <2>4. obj.enabled <=> \E j \in 1 .. n + 1 : both(j)
    BY DEF DialogRemembers
  <2> HIDE DEF both, now, pass
  <2>5. obj'.enabled <=> \E j \in 1 .. n + 2 : both(j)'
    BY <1>6, <2>1, <2>2, <2>3, <2>4
  <2> QED
    BY <2>5 DEF both
<1> QED
  BY <1>2, <1>6, <1>7 DEF DialogRemembers

\* A click.
LEMMA ClickKeepsDialog ==
    ASSUME NEW n, NEW out, Adds(n, "click", NoText, out), DialogRemembers(n + 1),
           obj' = obj, out = IF obj.enabled THEN <<[login |-> obj.username]>> ELSE <<>>
    PROVE  ObjectPromise(n + 1)' /\ DialogRemembers(n + 2)'
<1>1. n \in Nat /\ calls'[n + 1].op = "click" /\ effects'[n + 1] = out
  BY DEF Adds
<1>2. /\ Latest(n + 2, "username", NoText)' = Latest(n + 1, "username", NoText)
      /\ Latest(n + 2, "password", NoText)' = Latest(n + 1, "password", NoText)
  <2>1. \A o : o # "click" => Latest(n + 2, o, NoText)' = Latest(n + 1, o, NoText)
    BY LatestOther
  <2> QED
    BY <2>1
<1>3. \A j \in 1 .. n + 1 : /\ Latest(j, "username", NoText)' = Latest(j, "username", NoText)
                            /\ Latest(j, "password", NoText)' = Latest(j, "password", NoText)
  BY LatestStays
<1>4. \A j : j \in 1 .. n + 2 <=> j \in 1 .. n + 1 \/ j = n + 2
  BY <1>1
<1>5. n + 1 \in 1 .. n + 1 /\ obj.username = Latest(n + 1, "username", NoText)
  BY <1>1 DEF DialogRemembers
<1>6. ClickPromise(n + 1)'
  BY <1>1, <1>3, <1>5 DEF ClickPromise, DialogRemembers
<1>7. DialogRemembers(n + 2)'
  BY <1>2, <1>3, <1>4, <1>5 DEF DialogRemembers
<1> QED
  BY <1>1, <1>6, <1>7 DEF ObjectPromise

\* The engine is made once a construction has gone through.
ProxyRemembers(k) ==
    /\ obj = [engine |-> obj.engine] /\ obj.engine \in BOOLEAN
    /\ obj.engine <=> \E j \in 1 .. k - 1 : ~calls[j].arg

\* A Render.
LEMMA RenderKeepsProxy ==
    ASSUME NEW n, NEW throws \in BOOLEAN, throws => ~obj.engine, NEW out, Adds(n, "render", throws, out),
           ProxyRemembers(n + 1), obj' = [obj EXCEPT !.engine = ~throws],
           out = CASE obj.engine -> <<"render">>
                   [] throws     -> <<"throw">>
                   [] OTHER      -> <<"construct", "render">>
    PROVE  ObjectPromise(n + 1)' /\ ProxyRemembers(n + 2)'
<1>1. /\ n \in Nat /\ calls'[n + 1].op = "render" /\ calls'[n + 1].arg = throws /\ effects'[n + 1] = out
      /\ n + 1 - 1 = n /\ n + 2 - 1 = n + 1 /\ \A j \in 1 .. n : calls'[j] = calls[j]
  BY DEF Adds
<1>2. \A j : j \in 1 .. n + 1 <=> j \in 1 .. n \/ j = n + 1
  BY <1>1
<1>3. obj.engine <=> \E j \in 1 .. n : ~calls[j].arg
  BY <1>1 DEF ProxyRemembers
<1>4. RenderPromise(n + 1)'
  <2>1. obj.engine => out = <<"render">>
    OBVIOUS
  <2>2. ~obj.engine /\ throws => out = <<"throw">>
    OBVIOUS
  <2>3. ~obj.engine /\ ~throws => out = <<"construct", "render">>
    OBVIOUS
  <2>4. obj.engine <=> \E j \in 1 .. n : ~calls'[j].arg
    BY <1>1, <1>3
  <2> QED
    BY <1>1, <2>1, <2>2, <2>3, <2>4 DEF RenderPromise
<1>5. obj'.engine <=> ~throws
  BY DEF ProxyRemembers
<1>6. obj'.engine <=> \E j \in 1 .. n + 1 : ~calls'[j].arg
  BY <1>1, <1>2, <1>3, <1>5
<1>7. obj' = [engine |-> obj'.engine] /\ obj'.engine \in BOOLEAN
  BY DEF ProxyRemembers
<1> QED
  BY <1>1, <1>4, <1>6, <1>7 DEF ObjectPromise, ProxyRemembers

\* The parts are those set last.
BuilderRemembers(k) == obj = [part \in Parts |-> Latest(k, part, NoText)]

\* A part is set.
LEMMA PartKeepsBuilder ==
    ASSUME NEW n, NEW part \in Parts, NEW text, Adds(n, part, text, <<>>), BuilderRemembers(n + 1),
           obj' = [obj EXCEPT ![part] = text]
    PROVE  ObjectPromise(n + 1)' /\ BuilderRemembers(n + 2)'
<1>1. /\ part \notin {"click", "temp", "render", "type", "build", "get"}
      /\ calls'[n + 1].op = part /\ effects'[n + 1] = <<>>
  BY DEF Parts, Adds
<1>2. ObjectPromise(n + 1)'
  BY <1>1 DEF ObjectPromise
<1>3. \A p : /\ p = part => Latest(n + 2, p, NoText)' = text
             /\ p # part => Latest(n + 2, p, NoText)' = Latest(n + 1, p, NoText)
  <2>1. Latest(n + 2, part, NoText)' = text
    BY LatestNew
  <2>2. \A p : p # part => Latest(n + 2, p, NoText)' = Latest(n + 1, p, NoText)
    BY LatestOther
  <2> QED
    BY <2>1, <2>2
<1>4. obj' = [p \in Parts |-> Latest(n + 2, p, NoText)']
  BY <1>3 DEF BuilderRemembers
<1> QED
  BY <1>2, <1>4 DEF BuilderRemembers, Parts

\* A request is built.
LEMMA BuildKeepsBuilder ==
    ASSUME NEW n, NEW out, Adds(n, "build", NoText, out), BuilderRemembers(n + 1), obj' = obj,
           out = IF \E part \in Parts : obj[part] = NoText THEN <<"nullopt">> ELSE <<obj>>
    PROVE  ObjectPromise(n + 1)' /\ BuilderRemembers(n + 2)'
<1>1. /\ n \in Nat /\ n + 1 \in 1 .. n + 1
      /\ calls'[n + 1].op = "build" /\ effects'[n + 1] = out
  BY DEF Adds
<1>2. \A p \in Parts : Latest(n + 2, p, NoText)' = Latest(n + 1, p, NoText)
  <2>1. \A p \in Parts : p # "build"
    BY DEF Parts
  <2> QED
    BY <2>1, LatestOther
<1>3. \A p : Latest(n + 1, p, NoText)' = Latest(n + 1, p, NoText)
  BY <1>1, LatestStays
<1>4. obj = [part \in Parts |-> Latest(n + 1, part, NoText)]'
  BY <1>3 DEF BuilderRemembers
<1>5. NoText \in Range(obj) <=> \E part \in Parts : obj[part] = NoText
  BY DEF Range, BuilderRemembers
<1>6. BuildPromise(n + 1)'
  BY <1>1, <1>4, <1>5 DEF BuildPromise
<1>7. BuilderRemembers(n + 2)'
  BY <1>2 DEF BuilderRemembers
<1> QED
  BY <1>1, <1>6, <1>7 DEF ObjectPromise

\* The logger, if it is made, has the level set last, or its first.
LoggerRemembers(k) ==
    /\ DOMAIN obj = {"made", "level"}
    /\ obj.made => obj.level = Latest(k, "set", "INFO")
    /\ ~obj.made => Latest(k, "set", "INFO") = "INFO"

\* GetLogger makes it at most once, with the level that is promised.
LEMMA GetLoggerIs ==
    ASSUME NEW k, LoggerRemembers(k)
    PROVE  /\ DOMAIN GetLogger(obj) = {"made", "level"} /\ GetLogger(obj).made
           /\ GetLogger(obj).level = Latest(k, "set", "INFO")
<1>1. CASE obj.made
  BY <1>1 DEF GetLogger, LoggerRemembers
<1>2. CASE ~obj.made
  <2>1. GetLogger(obj) = [made |-> TRUE, level |-> "INFO"]
    BY <1>2 DEF GetLogger
  <2> QED
    BY <1>2, <2>1 DEF LoggerRemembers
<1> QED
  BY <1>1, <1>2

\* The level is set.
LEMMA SetKeepsLogger ==
    ASSUME NEW n, NEW level, Adds(n, "set", level, <<>>), LoggerRemembers(n + 1),
           obj' = [GetLogger(obj) EXCEPT !.level = level]
    PROVE  ObjectPromise(n + 1)' /\ LoggerRemembers(n + 2)'
<1>1. calls'[n + 1].op = "set" /\ effects'[n + 1] = <<>>
  BY DEF Adds
<1>2. ObjectPromise(n + 1)'
  BY <1>1 DEF ObjectPromise
<1>3. Latest(n + 2, "set", "INFO")' = level
  BY LatestNew
<1>4. DOMAIN obj' = {"made", "level"} /\ obj'.level = level /\ obj'.made
  BY GetLoggerIs
<1> QED
  BY <1>2, <1>3, <1>4 DEF LoggerRemembers

\* The level is asked for.
LEMMA GetKeepsLogger ==
    ASSUME NEW n, NEW out, Adds(n, "get", NoText, out), LoggerRemembers(n + 1),
           obj' = GetLogger(obj), out = <<GetLogger(obj).level>>
    PROVE  ObjectPromise(n + 1)' /\ LoggerRemembers(n + 2)'
<1>1. n \in Nat /\ n + 1 \in 1 .. n + 1 /\ calls'[n + 1].op = "get" /\ effects'[n + 1] = out
  BY DEF Adds
<1>2. Latest(n + 2, "set", "INFO")' = Latest(n + 1, "set", "INFO")
  BY LatestOther
<1>3. Latest(n + 1, "set", "INFO")' = Latest(n + 1, "set", "INFO")
  BY <1>1, LatestStays
<1>4. GetLevelPromise(n + 1)'
  BY <1>1, <1>3, GetLoggerIs DEF GetLevelPromise
<1>5. LoggerRemembers(n + 2)'
  BY <1>2, GetLoggerIs DEF LoggerRemembers
<1> QED
  BY <1>1, <1>4, <1>5 DEF ObjectPromise

-----------------------------------------------------------------------------
(* The weather station.                                                    *)

\* The places of positions are counted from 1, in their order, and a later
\* position takes the next.
LEMMA Places ==
    ASSUME NEW n \in Nat, NEW S \in SUBSET (1 .. n)
    PROVE  /\ Cardinality(S) \in Nat
           /\ \A j \in S : Place(S, j) \in 1 .. Cardinality(S)
           /\ \A j, l \in S : j <= l => Place(S, j) <= Place(S, l)
<1>1. IsFiniteSet(S) /\ Cardinality(S) \in Nat
  <2>1. IsFiniteSet(1 .. n)
    BY FS_Interval
  <2>2. IsFiniteSet(S)
    BY <2>1, FS_Subset
  <2> QED
    BY <2>2, FS_CardinalityType
<1> DEFINE upto(j) == {l \in S : l <= j}
<1>2. \A j : /\ IsFiniteSet(upto(j)) /\ Place(S, j) \in Nat /\ Place(S, j) <= Cardinality(S)
  <2> SUFFICES ASSUME NEW j
               PROVE IsFiniteSet(upto(j)) /\ Place(S, j) \in Nat /\ Place(S, j) <= Cardinality(S)
    OBVIOUS
  <2>1. upto(j) \in SUBSET S /\ Place(S, j) = Cardinality(upto(j))
    BY DEF Place
  <2> HIDE DEF upto
  <2>2. IsFiniteSet(upto(j)) /\ Cardinality(upto(j)) <= Cardinality(S)
    BY <1>1, <2>1, FS_Subset
  <2>3. Cardinality(upto(j)) \in Nat
    BY <2>2, FS_CardinalityType
  <2> QED
    BY <2>1, <2>2, <2>3
<1>3. ASSUME NEW j \in S PROVE Place(S, j) # 0
  <2>1. j \in upto(j) /\ Place(S, j) = Cardinality(upto(j))
    BY DEF Place
  <2> HIDE DEF upto
  <2>2. IsFiniteSet(upto(j)) /\ upto(j) # {}
    BY <1>2, <2>1
  <2>3. Cardinality(upto(j)) # 0
    BY <2>2, FS_EmptySet
  <2> QED
    BY <2>1, <2>3
<1>4. ASSUME NEW j \in S, NEW l \in S, j <= l PROVE Place(S, j) <= Place(S, l)
  <2>1. upto(j) \in SUBSET upto(l)
    <3>1. \A k \in S : k <= j => k <= l
      BY <1>4
    <3> QED
      BY <3>1, Zenon
  <2>2. Place(S, j) = Cardinality(upto(j)) /\ Place(S, l) = Cardinality(upto(l))
    BY Zenon DEF Place
  <2> HIDE DEF upto
  <2>3. Cardinality(upto(j)) <= Cardinality(upto(l))
    BY <1>2, <2>1, FS_Subset
  <2> QED
    BY <2>2, <2>3
<1>5. \A j \in S : Place(S, j) \in 1 .. Cardinality(S)
  <2> SUFFICES ASSUME NEW j \in S PROVE Place(S, j) \in 1 .. Cardinality(S)
    OBVIOUS
  <2> DEFINE p == Place(S, j)
             c == Cardinality(S)
  <2>1. p \in Nat /\ p <= c /\ p # 0 /\ c \in Nat
    BY <1>1, <1>2, <1>3
  <2> HIDE DEF p, c
  <2>2. p \in 1 .. c
    BY <2>1
  <2> QED
    BY <2>2 DEF p, c
<1> QED
  BY <1>1, <1>4, <1>5

\* A position after the others has the last place.
LEMMA PlacesAfter ==
    ASSUME NEW n \in Nat, NEW S \in SUBSET (1 .. n)
    PROVE  /\ Cardinality(S \cup {n + 1}) = Cardinality(S) + 1
           /\ \A j \in S : Place(S \cup {n + 1}, j) = Place(S, j)
           /\ Place(S \cup {n + 1}, n + 1) = Cardinality(S) + 1
<1>1. IsFiniteSet(S)
  <2>1. IsFiniteSet(1 .. n)
    BY FS_Interval
  <2> QED
    BY <2>1, FS_Subset
<1>2. n + 1 \notin S
  OBVIOUS
<1>3. Cardinality(S \cup {n + 1}) = Cardinality(S) + 1
  BY <1>1, <1>2, FS_AddElement
<1>4. \A j \in S : {l \in S \cup {n + 1} : l <= j} = {l \in S : l <= j}
  OBVIOUS
<1>5. {l \in S \cup {n + 1} : l <= n + 1} = S \cup {n + 1}
  <2>1. \A l \in S \cup {n + 1} : l <= n + 1
    OBVIOUS
  <2> QED
    BY <2>1, Zenon
<1> QED
  BY <1>3, <1>4, <1>5 DEF Place

\* s holds the arguments of the calls at the positions in S, in order.
Listed(s, S) ==
    /\ \E X : s \in Seq(X)
    /\ Len(s) = Cardinality(S)
    /\ \A j \in S : s[Place(S, j)] = calls[j].arg

\* What a call of the kind that is listed adds.
LEMMA ListedAfter ==
    ASSUME NEW n, NEW op, NEW arg, NEW out, Adds(n, op, arg, out), NEW s, Listed(s, Earlier(n + 1, op))
    PROVE  Listed(Append(s, arg), Earlier(n + 2, op))'
<1> DEFINE S == Earlier(n + 1, op)
           T == S \cup {n + 1}
           t == Append(s, arg)
<1>1. /\ n \in Nat /\ n + 1 - 1 = n /\ calls'[n + 1].arg = arg
      /\ \A j \in 1 .. n : calls'[j] = calls[j]
  BY DEF Adds
<1>2. Earlier(n + 2, op)' = T
  BY EarlierAfter
<1>3. S \in SUBSET (1 .. n)
  BY <1>1 DEF Earlier
<1>4. PICK X : s \in Seq(X)
  BY DEF Listed
<1> HIDE DEF S
<1>5. /\ Cardinality(S) \in Nat /\ \A j \in S : Place(S, j) \in 1 .. Cardinality(S)
      /\ Cardinality(T) = Cardinality(S) + 1 /\ Place(T, n + 1) = Cardinality(S) + 1
      /\ \A j \in S : Place(T, j) = Place(S, j)
  BY <1>1, <1>3, Places, PlacesAfter
<1>6. Len(s) = Cardinality(S) /\ \A j \in S : s[Place(S, j)] = calls[j].arg
  BY DEF Listed, S
<1>7. /\ t \in Seq(X \cup {arg}) /\ Len(t) = Len(s) + 1 /\ t[Len(s) + 1] = arg
      /\ \A k \in 1 .. Len(s) : t[k] = s[k]
  <2>1. s \in Seq(X \cup {arg})
    BY <1>4
  <2> QED
    BY <2>1
<1>8. \A j \in T : t[Place(T, j)] = calls'[j].arg
  <2>1. ASSUME NEW j \in S PROVE t[Place(T, j)] = calls'[j].arg
    BY <1>1, <1>3, <1>5, <1>6, <1>7
  <2>2. t[Place(T, n + 1)] = calls'[n + 1].arg
    BY <1>1, <1>5, <1>6, <1>7
  <2> QED
    BY <2>1, <2>2
<1>9. Len(t) = Cardinality(T)
  BY <1>5, <1>6, <1>7
<1> HIDE DEF T, t
<1>10. (\E Y : t \in Seq(Y)) /\ Len(t) = Cardinality(T) /\ \A j \in T : t[Place(T, j)] = calls'[j].arg
  BY <1>7, <1>8, <1>9
<1>11. \A j : Place(Earlier(n + 2, op), j)' = Place(T, j)
  BY <1>2 DEF Place
<1>12. Append(s, arg) = t
  BY DEF t
<1> QED
  BY <1>2, <1>10, <1>11, <1>12 DEF Listed

\* A call of another kind adds nothing.
LEMMA ListedStays ==
    ASSUME NEW n, NEW op, NEW arg, NEW out, Adds(n, op, arg, out), NEW o, o # op,
           NEW s, Listed(s, Earlier(n + 1, o))
    PROVE  Listed(s, Earlier(n + 2, o))'
<1>1. /\ n \in Nat /\ n + 1 - 1 = n
      /\ \A j \in 1 .. n : calls'[j] = calls[j]
  BY DEF Adds
<1>2. Earlier(n + 2, o)' = Earlier(n + 1, o)
  BY EarlierAfter
<1>3. Earlier(n + 1, o) \in SUBSET (1 .. n)
  BY <1>1 DEF Earlier
<1> QED
  BY <1>1, <1>2, <1>3 DEF Listed, Place

\* The displays are the subscribed ones, in the order of their subscriptions.
StationRemembers(k) ==
    /\ DOMAIN obj = {"observers", "temp"}
    /\ Listed(obj.observers, Earlier(k, "subscribe"))

\* A subscription.
LEMMA SubscribeKeepsStation ==
    ASSUME NEW n, NEW display, Adds(n, "subscribe", display, <<>>), StationRemembers(n + 1),
           obj' = [obj EXCEPT !.observers = Append(@, display)]
    PROVE  ObjectPromise(n + 1)' /\ StationRemembers(n + 2)'
<1>1. calls'[n + 1].op = "subscribe" /\ effects'[n + 1] = <<>>
  BY DEF Adds
<1>2. ObjectPromise(n + 1)'
  BY <1>1 DEF ObjectPromise
<1>3. PICK s : s = obj.observers
  OBVIOUS
<1>4. DOMAIN obj' = {"observers", "temp"} /\ obj'.observers = Append(s, display)
  BY <1>3 DEF StationRemembers
<1>5. Listed(s, Earlier(n + 1, "subscribe"))
  BY <1>3 DEF StationRemembers
<1>6. Listed(Append(s, display), Earlier(n + 2, "subscribe"))'
  BY <1>5, ListedAfter
<1>7. Listed(obj.observers, Earlier(n + 2, "subscribe"))'
  BY <1>4, <1>6 DEF Listed
<1> QED
  BY <1>2, <1>4, <1>7 DEF StationRemembers

\* A temperature.
LEMMA TempKeepsStation ==
    ASSUME NEW n, NEW t, NEW out, Adds(n, "temp", t, out), StationRemembers(n + 1),
           obj' = [obj EXCEPT !.temp = t],
           out = [k \in DOMAIN obj.observers |-> [display |-> obj.observers[k], shows |-> t]]
    PROVE  ObjectPromise(n + 1)' /\ StationRemembers(n + 2)'
<1>1. /\ n \in Nat /\ n + 1 - 1 = n /\ n + 1 \in 1 .. n + 1
      /\ calls'[n + 1].op = "temp" /\ calls'[n + 1].arg = t /\ effects'[n + 1] = out
      /\ \A j \in 1 .. n : calls'[j] = calls[j]
  BY DEF Adds
<1>2. PICK s : s = obj.observers
  OBVIOUS
<1> DEFINE S == Earlier(n + 1, "subscribe")
<1>3. S \in SUBSET (1 .. n)
  BY <1>1 DEF Earlier
<1>4. Earlier(n + 1, "subscribe")' = S
  BY <1>1, EarlierAfter
<1>5. Listed(s, S)
  BY <1>2 DEF StationRemembers
<1>6. PICK X : s \in Seq(X)
  BY <1>5 DEF Listed
<1>7. DOMAIN s = 1 .. Cardinality(S) /\ Cardinality(S) \in Nat
  <2>1. Len(s) = Cardinality(S)
    BY <1>5 DEF Listed
  <2> HIDE DEF S
  <2> QED
    BY <1>6, <2>1
<1>8. Len(out) = Cardinality(S)
  <2> DEFINE c == Cardinality(S)
  <2>1. DOMAIN out = 1 .. c /\ c \in Nat
    BY <1>2, <1>7
  <2> HIDE DEF c
  <2>2. Len(out) = c
    BY <2>1
  <2> QED
    BY <2>2 DEF c
<1>9. ASSUME NEW j \in S
      PROVE  out[Place(S, j)] = [display |-> calls'[j].arg, shows |-> t]
  <2>1. Place(S, j) \in DOMAIN s
    BY <1>1, <1>3, <1>7, Places
  <2>2. s[Place(S, j)] = calls[j].arg /\ calls'[j] = calls[j]
    BY <1>1, <1>3, <1>5 DEF Listed
  <2> QED
    BY <1>2, <2>1, <2>2
<1>10. SetTempPromise(n + 1)'
  <2>1. \A j : Place(Earlier(n + 1, "subscribe"), j)' = Place(S, j)
    BY <1>4 DEF Place
  <2> HIDE DEF S
  <2> QED
    BY <1>1, <1>4, <1>8, <1>9, <2>1 DEF SetTempPromise
<1>11. Listed(s, Earlier(n + 2, "subscribe"))'
  BY <1>5, ListedStays
<1>12. DOMAIN obj' = {"observers", "temp"} /\ obj'.observers = s
  BY <1>2 DEF StationRemembers
<1>13. Listed(obj.observers, Earlier(n + 2, "subscribe"))'
  BY <1>11, <1>12 DEF Listed
<1>14. ObjectPromise(n + 1)'
  BY <1>1, <1>10 DEF ObjectPromise
<1> QED
  BY <1>12, <1>13, <1>14 DEF StationRemembers

-----------------------------------------------------------------------------
(* The loggers.                                                            *)

\* The first n characters of a text are a prefix of it.
LEMMA FirstIsPrefix ==
    ASSUME NEW m \in Seq(STRING), NEW n \in 0 .. Len(m)
    PROVE  IsPrefix(SubSeq(m, 1, n), m)
<1>1. n \in Int /\ n <= Len(m) /\ Len(m) \in Nat
  OBVIOUS
<1> DEFINE s == SubSeq(m, 1, n)
<1>2. s \in Seq(STRING) /\ Len(s) = n /\ \A k \in 1 .. n : s[k] = m[k]
  <2>1. 1 \in 1 .. Len(m) + 1 /\ n \in 1 - 1 .. Len(m)
    BY <1>1
  <2>2. \A k \in 1 .. n : 1 + k - 1 = k
    BY <1>1
  <2> QED
    BY <1>1, <2>1, <2>2, SubSeqProperties
<1> HIDE DEF s
<1>3. SubSeq(s, 1, n) = s
  BY <1>1, <1>2
<1> QED
  BY <1>1, <1>2, <1>3 DEF IsPrefix, s

\* What printf shows is a prefix of the message, and all of it without a NUL.
LEMMA ShownIsPrefix ==
    ASSUME NEW m \in Seq(STRING)
    PROVE  /\ IsPrefix(CStr(m), m) /\ IsPrefix(m, m)
           /\ "NUL" \notin Range(m) => CStr(m) = m
<1>1. "NUL" \notin Range(m) => CStr(m) = m
  BY DEF CStr
<1>2. Len(m) \in 0 .. Len(m) /\ SubSeq(m, 1, Len(m)) = m
  OBVIOUS
<1>3. IsPrefix(m, m)
  BY <1>2, FirstIsPrefix
<1>4. ASSUME "NUL" \in Range(m) PROVE IsPrefix(CStr(m), m)
  <2> DEFINE I == {i \in 1 .. Len(m) : m[i] = "NUL"}
  <2>1. PICK i \in 1 .. Len(m) : m[i] = "NUL"
    BY <1>4 DEF Range
  <2>2. I \in SUBSET Nat /\ I # {}
    BY <2>1
  <2>3. SelectInSeq(m, LAMBDA c : c = "NUL") = Min(I)
    BY <2>2 DEF SelectInSeq
  <2>4. Min(I) \in 1 .. Len(m)
    <3>1. Min(I) \in I
      <4> HIDE DEF I
      <4> QED
        BY <2>2, Least
    <3> QED
      BY <3>1
  <2>5. CStr(m) = SubSeq(m, 1, Min(I) - 1)
    BY <1>4, <2>3 DEF CStr
  <2> DEFINE p == Min(I) - 1
  <2>6. p \in 0 .. Len(m)
    <3> HIDE DEF I
    <3> QED
      BY <2>4
  <2> HIDE DEF p, I
  <2> QED
    BY <2>5, <2>6, FirstIsPrefix DEF p
<1> QED
  BY <1>1, <1>3, <1>4

\* The adapters are of the loggers that were added, in order.
LoggersRemember(k) == Listed(obj, Earlier(k, "logger"))

\* A logger is added.
LEMMA AddKeepsLoggers ==
    ASSUME NEW n, NEW logger, Adds(n, "logger", logger, <<>>), LoggersRemember(n + 1),
           obj' = Append(obj, logger)
    PROVE  CallPromise(n + 1)' /\ LoggersRemember(n + 2)'
<1>1. calls'[n + 1].op = "logger" /\ effects'[n + 1] = <<>>
  BY DEF Adds
<1>2. CallPromise(n + 1)'
  BY <1>1 DEF CallPromise
<1>3. PICK s : s = obj
  OBVIOUS
<1>4. Listed(s, Earlier(n + 1, "logger"))
  BY <1>3 DEF LoggersRemember
<1>5. Listed(Append(s, logger), Earlier(n + 2, "logger"))'
  BY <1>4, ListedAfter
<1>6. Listed(obj, Earlier(n + 2, "logger"))'
  BY <1>3, <1>5 DEF Listed
<1> QED
  BY <1>2, <1>6 DEF LoggersRemember

\* A message.
LEMMA LogKeepsLoggers ==
    ASSUME NEW n, NEW m \in Messages, NEW out, Adds(n, "log", m, out), LoggersRemember(n + 1), obj' = obj,
           out = [k \in DOMAIN obj |-> IF obj[k] = "LoggerA" THEN [by |-> "Info", text |-> m]
                                                             ELSE [by |-> "LogMessage", text |-> CStr(m)]]
    PROVE  CallPromise(n + 1)' /\ LoggersRemember(n + 2)'
<1>1. /\ n \in Nat /\ n + 1 - 1 = n /\ n + 1 \in 1 .. n + 1
      /\ calls'[n + 1].op = "log" /\ calls'[n + 1].arg = m /\ effects'[n + 1] = out
      /\ \A j \in 1 .. n : calls'[j] = calls[j]
  BY DEF Adds
<1>2. PICK s : s = obj
  OBVIOUS
<1> DEFINE S == Earlier(n + 1, "logger")
<1>3. S \in SUBSET (1 .. n)
  BY <1>1 DEF Earlier
<1>4. Earlier(n + 1, "logger")' = S
  BY <1>1, EarlierAfter
<1>5. Listed(s, S)
  BY <1>2 DEF LoggersRemember
<1>6. PICK X : s \in Seq(X)
  BY <1>5 DEF Listed
<1>7. DOMAIN s = 1 .. Cardinality(S) /\ Cardinality(S) \in Nat
  <2>1. Len(s) = Cardinality(S)
    BY <1>5 DEF Listed
  <2> HIDE DEF S
  <2> QED
    BY <1>6, <2>1
<1>8. Len(out) = Cardinality(S)
  <2> DEFINE c == Cardinality(S)
  <2>1. DOMAIN out = 1 .. c /\ c \in Nat
    BY <1>2, <1>7
  <2> HIDE DEF c
  <2>2. Len(out) = c
    BY <2>1
  <2> QED
    BY <2>2 DEF c
<1>9. m \in Seq(STRING)
  BY MessageAssumption
<1>10. ASSUME NEW j \in S
       PROVE  /\ out[Place(S, j)].by = IF calls'[j].arg = "LoggerA" THEN "Info" ELSE "LogMessage"
              /\ IsPrefix(out[Place(S, j)].text, m)
              /\ calls'[j].arg = "LoggerA" \/ "NUL" \notin Range(m) => out[Place(S, j)].text = m
  <2>1. Place(S, j) \in DOMAIN s
    BY <1>1, <1>3, <1>7, Places
  <2>2. s[Place(S, j)] = calls[j].arg /\ calls'[j] = calls[j]
    BY <1>1, <1>3, <1>5 DEF Listed
  <2>3. out[Place(S, j)] = IF calls'[j].arg = "LoggerA" THEN [by |-> "Info", text |-> m]
                                                        ELSE [by |-> "LogMessage", text |-> CStr(m)]
    BY <1>2, <2>1, <2>2
  <2>4. /\ IsPrefix(CStr(m), m) /\ IsPrefix(m, m)
        /\ "NUL" \notin Range(m) => CStr(m) = m
    BY <1>9, ShownIsPrefix
  <2>5. CASE calls'[j].arg = "LoggerA"
    <3>1. out[Place(S, j)].by = "Info" /\ out[Place(S, j)].text = m
      BY <2>3, <2>5
    <3> QED
      BY <2>4, <2>5, <3>1
  <2>6. CASE calls'[j].arg # "LoggerA"
    <3>1. out[Place(S, j)].by = "LogMessage" /\ out[Place(S, j)].text = CStr(m)
      BY <2>3, <2>6
    <3> QED
      BY <2>4, <2>6, <3>1
  <2> QED
    BY <2>5, <2>6
<1>11. LogPromise(n + 1)'
  <2>1. \A j : Place(Earlier(n + 1, "logger"), j)' = Place(S, j)
    BY <1>4 DEF Place
  <2> HIDE DEF S
  <2> QED
    BY <1>1, <1>4, <1>8, <1>10, <2>1 DEF LogPromise
<1>12. Listed(s, Earlier(n + 2, "logger"))'
  BY <1>5, ListedStays
<1>13. LoggersRemember(n + 2)'
  BY <1>2, <1>12 DEF Listed, LoggersRemember
<1>14. CallPromise(n + 1)'
  BY <1>1, <1>11 DEF CallPromise
<1> QED
  BY <1>13, <1>14

-----------------------------------------------------------------------------
(* The chain of exporters.                                                 *)

\* The exporters are the decorators that were wrapped around the first, the
\* last one outermost.
ChainRemembers(k) ==
    LET S == Earlier(k, "wrap")
    IN /\ \E X : obj \in Seq(X)
       /\ Len(obj) = Cardinality(S) + 1 /\ obj[Cardinality(S) + 1] = "Null"
       /\ \A j \in S : obj[PlaceFromLast(S, j)] = calls[j].arg /\ calls[j].arg \in Decorators
       /\ \A p \in 1 .. Cardinality(S) : \E j \in S : PlaceFromLast(S, j) = p

\* A decorator more.
LEMMA WrapKeepsChain ==
    ASSUME NEW n, NEW decorator \in Decorators, Adds(n, "wrap", decorator, <<>>), ChainRemembers(n + 1),
           obj' = <<decorator>> \o obj
    PROVE  CallPromise(n + 1)' /\ ChainRemembers(n + 2)'
<1> DEFINE S == Earlier(n + 1, "wrap")
           T == S \cup {n + 1}
           c == Cardinality(S)
<1>1. /\ n \in Nat /\ n + 1 - 1 = n /\ calls'[n + 1].op = "wrap" /\ calls'[n + 1].arg = decorator
      /\ effects'[n + 1] = <<>> /\ \A j \in 1 .. n : calls'[j] = calls[j]
  BY DEF Adds
<1>2. CallPromise(n + 1)'
  BY <1>1 DEF CallPromise
<1>3. S \in SUBSET (1 .. n) /\ Earlier(n + 2, "wrap")' = T
  <2>1. S \in SUBSET (1 .. n)
    BY <1>1 DEF Earlier
  <2>2. Earlier(n + 2, "wrap")' = T
    BY EarlierAfter
  <2> QED
    BY <2>1, <2>2
<1>4. /\ \A j \in S : obj[PlaceFromLast(S, j)] = calls[j].arg /\ calls[j].arg \in Decorators
      /\ \A p \in 1 .. c : \E j \in S : PlaceFromLast(S, j) = p
      /\ Len(obj) = c + 1 /\ obj[c + 1] = "Null"
  BY DEF ChainRemembers
<1>5. PICK X : obj \in Seq(X)
  BY DEF ChainRemembers
<1> HIDE DEF S
<1>6. /\ c \in Nat /\ Cardinality(T) = c + 1
      /\ \A j \in S : PlaceFromLast(S, j) \in 1 .. c /\ PlaceFromLast(T, j) = PlaceFromLast(S, j) + 1
      /\ PlaceFromLast(T, n + 1) = 1
  <2>1. /\ c \in Nat /\ \A j \in S : Place(S, j) \in 1 .. c
        /\ Cardinality(T) = c + 1 /\ \A j \in S : Place(T, j) = Place(S, j)
        /\ Place(T, n + 1) = c + 1
    BY <1>1, <1>3, Places, PlacesAfter
  <2> HIDE DEF T, c
  <2>2. ASSUME NEW j \in S PROVE PlaceFromLast(S, j) \in 1 .. c /\ PlaceFromLast(T, j) = PlaceFromLast(S, j) + 1
    <3> DEFINE p == Place(S, j)
    <3>1. p \in 1 .. c /\ PlaceFromLast(S, j) = c + 1 - p /\ PlaceFromLast(T, j) = c + 1 + 1 - p
      BY <2>1 DEF PlaceFromLast, c
    <3> HIDE DEF p
    <3> QED
      BY <2>1, <3>1
  <2>3. PlaceFromLast(T, n + 1) = 1
    BY <2>1 DEF PlaceFromLast
  <2> QED
    BY <2>1, <2>2, <2>3
<1>7. /\ obj' \in Seq(X \cup {decorator}) /\ Len(obj)' = c + 2 /\ obj'[1] = decorator
      /\ \A p \in 1 .. c + 1 : obj'[p + 1] = obj[p]
  <2> DEFINE first == <<decorator>>
  <2>1. first \in Seq(X \cup {decorator}) /\ Len(first) = 1 /\ first[1] = decorator
    OBVIOUS
  <2>2. obj \in Seq(X \cup {decorator})
    BY <1>5
  <2> HIDE DEF first, c
  <2>3. /\ obj' = first \o obj
    BY DEF first
  <2>4. /\ first \o obj \in Seq(X \cup {decorator}) /\ Len(first \o obj) = 1 + Len(obj)
        /\ \A p \in 1 .. 1 + Len(obj) : (first \o obj)[p] = IF p <= 1 THEN first[p] ELSE obj[p - 1]
    <3>1. /\ first \o obj \in Seq(X \cup {decorator}) /\ Len(first \o obj) = Len(first) + Len(obj)
          /\ \A p \in 1 .. Len(first) + Len(obj) :
               (first \o obj)[p] = IF p <= Len(first) THEN first[p] ELSE obj[p - Len(first)]
      BY <2>1, <2>2, ConcatProperties, Zenon
    <3> QED
      BY <2>1, <3>1
  <2>5. \A p \in 1 .. c + 1 : p + 1 \in 1 .. 1 + Len(obj) /\ ~(p + 1 <= 1) /\ p + 1 - 1 = p
    BY <1>4, <1>6
  <2>6. 1 \in 1 .. 1 + Len(obj) /\ 1 + (c + 1) = c + 2
    BY <1>4, <1>6
  <2> QED
    BY <1>4, <2>1, <2>3, <2>4, <2>5, <2>6
<1>8. ASSUME NEW j \in T PROVE obj'[PlaceFromLast(T, j)] = calls'[j].arg /\ calls'[j].arg \in Decorators
  <2>1. CASE j = n + 1
    BY <1>1, <1>6, <1>7, <2>1
  <2>2. CASE j \in S
    <3>1. PlaceFromLast(S, j) \in 1 .. c + 1
      BY <1>6, <2>2
    <3>2. obj'[PlaceFromLast(T, j)] = obj[PlaceFromLast(S, j)]
      BY <1>6, <1>7, <2>2, <3>1
    <3> QED
      BY <1>1, <1>3, <1>4, <2>2, <3>2
  <2> QED
    BY <2>1, <2>2
<1>9. ASSUME NEW p \in 1 .. c + 1 PROVE \E j \in T : PlaceFromLast(T, j) = p
  <2>1. CASE p = 1
    BY <1>6, <2>1
  <2>2. CASE p # 1
    <3>1. p - 1 \in 1 .. c /\ p - 1 + 1 = p
      BY <1>6, <2>2
    <3>2. PICK j \in S : PlaceFromLast(S, j) = p - 1
      BY <1>4, <3>1
    <3> QED
      BY <1>6, <3>1, <3>2
  <2> QED
    BY <2>1, <2>2
<1> HIDE DEF T
<1>10. \A j : PlaceFromLast(Earlier(n + 2, "wrap"), j)' = PlaceFromLast(T, j)
  BY <1>3 DEF PlaceFromLast, Place
<1>11. obj'[c + 2] = "Null" /\ c + 1 + 1 = c + 2
  <2> HIDE DEF c
  <2>1. c + 1 \in 1 .. c + 1 /\ c + 1 + 1 = c + 2
    BY <1>6
  <2> QED
    BY <1>4, <1>7, <2>1
<1>12. ChainRemembers(n + 2)'
  BY <1>3, <1>6, <1>7, <1>8, <1>9, <1>10, <1>11 DEF ChainRemembers
<1> QED
  BY <1>2, <1>12

\* A payload reaches the exporters up to the first that does not forward it.
LEMMA FirstStop ==
    ASSUME NEW X, NEW s \in Seq(X), NEW c \in Nat, Len(s) = c + 1, NEW large \in BOOLEAN,
           NEW q \in 1 .. c + 1, ~Forwards(s[q], large), \A p \in 1 .. q - 1 : Forwards(s[p], large)
    PROVE  LET out == SubSeq(s, 1, SelectInSeq(s, LAMBDA exporter : ~Forwards(exporter, large)))
           IN Len(out) = q /\ \A p \in 1 .. q : out[p] = s[p]
<1> DEFINE I == {p \in 1 .. Len(s) : ~Forwards(s[p], large)}
<1>1. I \in SUBSET Nat /\ q \in I /\ I # {}
  OBVIOUS
<1>2. SelectInSeq(s, LAMBDA exporter : ~Forwards(exporter, large)) = Min(I)
  BY <1>1 DEF SelectInSeq
<1>3. Min(I) = q
  <2>1. Min(I) \in I /\ Min(I) <= q
    <3> HIDE DEF I
    <3> QED
      BY <1>1, Least
  <2> DEFINE m == Min(I)
  <2>2. m \in 1 .. c + 1 /\ ~Forwards(s[m], large) /\ m <= q
    BY <2>1
  <2> HIDE DEF m
  <2>3. m = q
    BY <2>2
  <2> QED
    BY <2>3 DEF m
<1> HIDE DEF I
<1> DEFINE out == SubSeq(s, 1, q)
<1>4. Len(out) = q /\ \A p \in 1 .. q : out[p] = s[p]
  <2>1. \A p \in 1 .. q : s[p] \in X
    OBVIOUS
  <2>2. Len(SubSeq(s, 1, q)) = q /\ \A p \in 1 .. q : SubSeq(s, 1, q)[p] = s[1 + p - 1]
    BY <2>1, SubSeqProperties
  <2>3. \A p \in 1 .. q : 1 + p - 1 = p
    OBVIOUS
  <2> QED
    BY <2>2, <2>3
<1> QED
  BY <1>2, <1>3, <1>4

\* An export.
LEMMA ExportKeepsChain ==
    ASSUME NEW n, NEW large \in BOOLEAN, NEW out, Adds(n, "export", large, out), ChainRemembers(n + 1),
           obj' = obj,
           out = SubSeq(obj, 1, SelectInSeq(obj, LAMBDA exporter : ~Forwards(exporter, large)))
    PROVE  CallPromise(n + 1)' /\ ChainRemembers(n + 2)'
<1> DEFINE S == Earlier(n + 1, "wrap")
           F == Filters(n + 1)
           c == Cardinality(S)
           place(j) == PlaceFromLast(S, j)
<1>1. /\ n \in Nat /\ n + 1 - 1 = n /\ n + 1 \in 1 .. n + 1
      /\ calls'[n + 1].op = "export" /\ calls'[n + 1].arg = large
      /\ effects'[n + 1] = out /\ \A j \in 1 .. n : calls'[j] = calls[j]
  BY DEF Adds
<1>2. S \in SUBSET (1 .. n)
  BY <1>1 DEF Earlier
<1>3. Earlier(n + 1, "wrap")' = S /\ Earlier(n + 2, "wrap")' = S
  <2>1. /\ \A i \in 1 .. n + 1 : Earlier(i, "wrap")' = Earlier(i, "wrap")
        /\ Earlier(n + 2, "wrap")' = Earlier(n + 1, "wrap")
    BY EarlierAfter
  <2> QED
    BY <1>1, <2>1
<1>4. /\ \A j \in S : obj[place(j)] = calls[j].arg /\ calls[j].arg \in Decorators
      /\ \A p \in 1 .. c : \E j \in S : place(j) = p
      /\ Len(obj) = c + 1 /\ obj[c + 1] = "Null"
  BY DEF ChainRemembers
<1>5. PICK X : obj \in Seq(X)
  BY DEF ChainRemembers
<1>6. /\ c \in Nat /\ \A j \in S : Place(S, j) \in 1 .. c
      /\ \A j, l \in S : j <= l => Place(S, j) <= Place(S, l)
  BY <1>1, <1>2, Places
<1>7. /\ F \in SUBSET S /\ \A j \in S : j \in F <=> calls[j].arg = "Filter"
      /\ Filters(n + 1)' = F
  <2>1. F \in SUBSET S /\ \A j \in S : j \in F <=> calls[j].arg = "Filter"
    BY DEF Filters
  <2>2. Filters(n + 1)' = F
    BY <1>1, <1>2, <1>3 DEF Filters
  <2> QED
    BY <2>1, <2>2
<1> HIDE DEF S, F, c
<1>8. ASSUME NEW j \in S PROVE place(j) \in 1 .. c /\ place(j) = c + 1 - Place(S, j)
  <2>1. place(j) = c + 1 - Place(S, j)
    BY DEF PlaceFromLast, c
  <2> QED
    BY <1>6, <2>1
<1>9. ASSUME NEW j \in S, NEW l \in S, j <= l PROVE place(l) <= place(j)
  <2>1. Place(S, j) <= Place(S, l) /\ Place(S, j) \in 1 .. c /\ Place(S, l) \in 1 .. c
    BY <1>6, <1>9
  <2>2. place(j) = c + 1 - Place(S, j) /\ place(l) = c + 1 - Place(S, l)
    BY <1>8
  <2> HIDE DEF place
  <2> QED
    BY <1>6, <2>1, <2>2
<1> HIDE DEF place
<1> DEFINE stops == large /\ F # {}
           q == IF stops THEN place(Max(F)) ELSE c + 1
<1>10. /\ q \in 1 .. c + 1 /\ ~Forwards(obj[q], large) /\ \A p \in 1 .. q - 1 : Forwards(obj[p], large)
       /\ \A j \in S : (stops => j >= Max(F)) => place(j) \in 1 .. q
  <2>1. CASE stops
    <3>1. Max(F) \in F /\ \A j \in F : Max(F) >= j
      BY <1>1, <1>2, <1>7, <2>1, Greatest
    <3>2. PICK m \in F : m = Max(F)
      BY <3>1
    <3>3. m \in S /\ q = place(m) /\ q \in 1 .. c
      BY <1>7, <1>8, <2>1, <3>2
    <3>4. obj[q] = "Filter"
      BY <1>4, <1>7, <3>2, <3>3
    <3>5. ~Forwards(obj[q], large)
      BY <2>1, <3>4 DEF Forwards
    <3>6. ASSUME NEW p \in 1 .. q - 1 PROVE Forwards(obj[p], large)
      <4>1. p \in 1 .. c
        BY <1>6, <3>3
      <4>2. PICK j \in S : place(j) = p
        BY <1>4, <4>1
      <4>3. ~(place(m) <= place(j))
        BY <1>6, <3>3, <4>1, <4>2
      <4>4. j \notin F
        <5>1. j \in F => j <= m
          BY <1>2, <3>1, <3>2, <3>3
        <5> QED
          BY <1>9, <3>3, <4>3, <5>1
      <4>5. calls[j].arg \in Decorators /\ calls[j].arg # "Filter" /\ obj[p] = calls[j].arg
        BY <1>4, <1>7, <4>2, <4>4
      <4> QED
        BY <4>5 DEF Forwards, Decorators
    <3>7. ASSUME NEW j \in S, j >= m PROVE place(j) \in 1 .. q
      <4>1. m <= j
        BY <1>2, <3>3, <3>7
      <4>2. place(j) <= place(m) /\ place(j) \in 1 .. c
        BY <1>8, <1>9, <3>3, <4>1
      <4> HIDE DEF q
      <4> QED
        BY <1>6, <3>3, <4>2
    <3>8. q \in 1 .. c + 1
      BY <1>6, <3>3
    <3> HIDE DEF q
    <3> QED
      BY <3>2, <3>5, <3>6, <3>7, <3>8, <2>1
  <2>2. CASE ~stops
    <3>1. q = c + 1
      BY <2>2
    <3> HIDE DEF q
    <3>2. ASSUME NEW p \in 1 .. q - 1 PROVE Forwards(obj[p], large)
      <4>1. p \in 1 .. c
        BY <1>6, <3>1
      <4>2. PICK j \in S : place(j) = p
        BY <1>4, <4>1
      <4>3. calls[j].arg \in Decorators /\ obj[p] = calls[j].arg
        BY <1>4, <4>2
      <4>4. calls[j].arg # "Filter" \/ ~large
        BY <1>7, <2>2, <4>2
      <4> QED
        BY <4>3, <4>4 DEF Forwards, Decorators
    <3>3. q \in 1 .. c + 1 /\ ~Forwards(obj[q], large)
      BY <1>4, <1>6, <3>1 DEF Forwards
    <3>4. \A j \in S : place(j) \in 1 .. q
      BY <1>6, <1>8, <3>1
    <3> QED
      BY <3>2, <3>3, <3>4
  <2> QED
    BY <2>1, <2>2
<1>11. Len(out) = q /\ \A p \in 1 .. q : out[p] = obj[p]
  <2> HIDE DEF q
  <2> QED
    BY <1>4, <1>5, <1>6, <1>10, FirstStop
<1>12. Stops(n + 1)' <=> stops
  BY <1>1, <1>7 DEF Stops
<1>13. \A j : PlaceFromLast(Earlier(n + 1, "wrap"), j)' = place(j)
  BY <1>3 DEF PlaceFromLast, Place, place
<1>14. Len(out) = IF stops THEN place(Max(F)) ELSE c + 1
  BY <1>11
<1>15. \A j \in S : (stops => j >= Max(F)) => out[place(j)] = calls'[j].arg
  <2> HIDE DEF q, stops
  <2> QED
    BY <1>1, <1>2, <1>4, <1>10, <1>11
<1>16. stops \/ Last(out) = "Null"
  <2>1. ASSUME ~stops PROVE out[Len(out)] = "Null"
    <3>1. q = c + 1
      BY <2>1
    <3>2. Len(out) = q /\ (q \in 1 .. q => out[q] = obj[q])
      BY <1>11, Zenon
    <3> HIDE DEF q
    <3>3. q \in 1 .. q
      BY <1>6, <3>1
    <3> QED
      BY <1>4, <3>1, <3>2, <3>3, Zenon
  <2> QED
    BY <2>1 DEF Last
<1> HIDE DEF q, stops
<1>17. ExportPromise(n + 1)'
  BY <1>1, <1>3, <1>7, <1>12, <1>13, <1>14, <1>15, <1>16 DEF ExportPromise, c
<1>18. ChainRemembers(n + 2)'
  <2>1. \A j : PlaceFromLast(Earlier(n + 2, "wrap"), j)' = place(j)
    BY <1>3 DEF PlaceFromLast, Place, place
  <2> QED
    BY <1>1, <1>2, <1>3, <1>4, <1>5, <2>1 DEF ChainRemembers, c
<1> QED
  BY <1>1, <1>17, <1>18 DEF CallPromise

-----------------------------------------------------------------------------
(* The navigator, the facade, the cloud provider, crtp and slicing.        *)

\* The route is the strategy assigned last.
NavigatorRemembers(k) == obj = Latest(k, "strategy", "none")

\* A strategy is assigned.
LEMMA StrategyKeepsNavigator ==
    ASSUME NEW n, NEW strategy, Adds(n, "strategy", strategy, <<>>), obj' = strategy
    PROVE  CallPromise(n + 1)' /\ NavigatorRemembers(n + 2)'
<1>1. calls'[n + 1].op = "strategy" /\ effects'[n + 1] = <<>>
  BY DEF Adds
<1>2. Latest(n + 2, "strategy", "none")' = strategy
  BY LatestNew
<1> QED
  BY <1>1, <1>2 DEF CallPromise, NavigatorRemembers

\* A navigation.
LEMMA NavigateKeepsNavigator ==
    ASSUME NEW n, Adds(n, "navigate", NoText, <<obj>>), NavigatorRemembers(n + 1), obj' = obj
    PROVE  CallPromise(n + 1)' /\ NavigatorRemembers(n + 2)'
<1>1. n \in Nat /\ n + 1 \in 1 .. n + 1 /\ calls'[n + 1].op = "navigate" /\ effects'[n + 1] = <<obj>>
  BY DEF Adds
<1>2. Latest(n + 2, "strategy", "none")' = Latest(n + 1, "strategy", "none")
  BY LatestOther
<1>3. Latest(n + 1, "strategy", "none")' = Latest(n + 1, "strategy", "none")
  BY <1>1, LatestStays
<1> QED
  BY <1>1, <1>2, <1>3 DEF CallPromise, NavigatePromise, NavigatorRemembers

\* A node is made.
LEMMA NodeKeepsPromise ==
    ASSUME NEW n, Adds(n, "node", NoText, NodeSteps)
    PROVE  CallPromise(n + 1)'
<1>1. calls'[n + 1].op = "node" /\ effects'[n + 1] = NodeSteps
  BY DEF Adds
<1>2. /\ DOMAIN NodeSteps = 1 .. 5
      /\ NodeSteps[1] = "Compute.Allocate" /\ NodeSteps[2] = "Network.CreateSubnet"
      /\ NodeSteps[3] = "Storage.Allocate" /\ NodeSteps[4] = "Storage.AttachToNode"
      /\ NodeSteps[5] = "Network.Configure"
  BY DEF NodeSteps
<1> DEFINE Precedes(a, b) == \E p, q \in DOMAIN NodeSteps : p < q /\ NodeSteps[p] = a /\ NodeSteps[q] = b
<1>3. Precedes("Compute.Allocate", "Storage.AttachToNode")
  BY <1>2
<1>4. Precedes("Storage.Allocate", "Storage.AttachToNode")
  BY <1>2
<1>5. Precedes("Network.CreateSubnet", "Network.Configure")
  BY <1>2
<1>6. CreateNodePromise(n + 1)'
  BY <1>1, <1>3, <1>4, <1>5 DEF CreateNodePromise
<1> QED
  BY <1>1, <1>6 DEF CallPromise

\* Both controllers are of the provider chosen last.
FactoryRemembers(k) ==
    /\ obj = [storage |-> Latest(k, "choose", "none"), compute |-> Latest(k, "choose", "none")]
    /\ Latest(k, "choose", "none") \in Providers \cup {"none"}

\* A provider is chosen.
LEMMA ChooseKeepsFactory ==
    ASSUME NEW n, NEW provider \in Providers, Adds(n, "choose", provider, <<>>),
           obj' = [storage |-> provider, compute |-> provider]
    PROVE  CallPromise(n + 1)' /\ FactoryRemembers(n + 2)'
<1>1. calls'[n + 1].op = "choose" /\ effects'[n + 1] = <<>>
  BY DEF Adds
<1>2. Latest(n + 2, "choose", "none")' = provider
  BY LatestNew
<1> QED
  BY <1>1, <1>2 DEF CallPromise, FactoryRemembers, Providers

\* Another call leaves the controllers as they are.
LEMMA OthersKeepFactory ==
    ASSUME NEW n, NEW op, NEW arg, NEW out, Adds(n, op, arg, out), op # "choose",
           FactoryRemembers(n + 1), obj' = obj
    PROVE  /\ FactoryRemembers(n + 2)'
           /\ Latest(n + 1, "choose", "none")' = Latest(n + 1, "choose", "none")
<1>1. n \in Nat /\ n + 1 \in 1 .. n + 1
  BY DEF Adds
<1>2. Latest(n + 2, "choose", "none")' = Latest(n + 1, "choose", "none")
  BY LatestOther
<1>3. Latest(n + 1, "choose", "none")' = Latest(n + 1, "choose", "none")
  BY <1>1, LatestStays
<1> QED
  BY <1>2, <1>3 DEF FactoryRemembers, Providers

\* An unknown provider throws.
LEMMA ThrowKeepsFactory ==
    ASSUME NEW n, NEW provider, Adds(n, "throw", provider, <<>>), FactoryRemembers(n + 1), obj' = obj
    PROVE  CallPromise(n + 1)' /\ FactoryRemembers(n + 2)'
<1>1. calls'[n + 1].op = "throw" /\ effects'[n + 1] = <<>>
  BY DEF Adds
<1>2. FactoryRemembers(n + 2)'
  BY OthersKeepFactory
<1> QED
  BY <1>1, <1>2 DEF CallPromise

\* An operation of a storage controller.
LEMMA StorageKeepsFactory ==
    ASSUME NEW n, NEW op \in {"GetSize", "SetSize"}, NEW out, Adds(n, op, NoText, out),
           FactoryRemembers(n + 1), obj' = obj, obj.storage # "none",
           out = IF op = "GetSize" THEN <<[by |-> obj.storage, size |-> Size[obj.storage]]>>
                                   ELSE <<[by |-> obj.storage]>>
    PROVE  CallPromise(n + 1)' /\ FactoryRemembers(n + 2)'
<1> DEFINE provider == Latest(n + 1, "choose", "none")
<1>1. calls'[n + 1].op = op /\ effects'[n + 1] = out
  BY DEF Adds
<1>2. FactoryRemembers(n + 2)' /\ Latest(n + 1, "choose", "none")' = provider
  BY OthersKeepFactory
<1>3. obj.storage = provider /\ provider \in Providers
  BY DEF FactoryRemembers
<1> HIDE DEF provider
<1>4. Size[provider] = IF provider = "AWS" THEN 1000 ELSE 2000
  BY <1>3 DEF Size, Providers
<1>5. /\ DOMAIN out = {1} /\ out[1].by = provider
      /\ op = "GetSize" => out[1].size = Size[provider]
  <2>1. CASE op = "GetSize"
    <3>1. out = <<[by |-> provider, size |-> Size[provider]]>>
      BY <1>3, <2>1
    <3> QED
      BY <3>1
  <2>2. CASE op # "GetSize"
    <3>1. out = <<[by |-> provider]>>
      BY <1>3, <2>2
    <3> QED
      BY <2>2, <3>1
  <2> QED
    BY <2>1, <2>2
<1>6. ProviderPromise(n + 1)'
  BY <1>1, <1>2, <1>4, <1>5 DEF ProviderPromise
<1> QED
  BY <1>1, <1>2, <1>6 DEF CallPromise

\* An operation of a compute controller.
LEMMA ComputeKeepsFactory ==
    ASSUME NEW n, NEW op \in {"AllocateInstance", "DeallocateInstance"},
           Adds(n, op, NoText, <<[by |-> obj.compute]>>), FactoryRemembers(n + 1), obj' = obj
    PROVE  CallPromise(n + 1)' /\ FactoryRemembers(n + 2)'
<1> DEFINE provider == Latest(n + 1, "choose", "none")
<1>1. calls'[n + 1].op = op /\ effects'[n + 1] = <<[by |-> obj.compute]>>
  BY DEF Adds
<1>2. FactoryRemembers(n + 2)' /\ Latest(n + 1, "choose", "none")' = provider
  BY OthersKeepFactory
<1>3. obj.compute = provider
  BY DEF FactoryRemembers
<1>4. ProviderPromise(n + 1)'
  BY <1>1, <1>2, <1>3 DEF ProviderPromise
<1> QED
  BY <1>1, <1>2, <1>4 DEF CallPromise

\* interface() of a derived class.
LEMMA ExampleKeepsPromise ==
    ASSUME NEW n, NEW derived, Adds(n, "example", derived, <<derived>>)
    PROVE  CallPromise(n + 1)'
BY DEF CallPromise, ExamplePromise, Adds

\* The account of main is never changed.
AccountRemembers == obj = [balance |-> 100, overdraftLimit |-> 500]

\* The three ways to print it.
LEMMA PrintsKeepAccount ==
    ASSUME NEW n, NEW out, AccountRemembers, obj' = obj,
           \/ Adds(n, "value", NoText, out) /\ out = <<availableFunds(Sliced(obj))>>
           \/ Adds(n, "reference", NoText, out) /\ out = <<availableFunds(obj)>>
           \/ /\ Adds(n, "polymorphic", NoText, out)
              /\ out = <<availableFunds(obj), availableFunds([obj EXCEPT !.balance = 0])>>
    PROVE  CallPromise(n + 1)' /\ AccountRemembers'
<1>1. AccountRemembers'
  BY DEF AccountRemembers
<1>2. availableFunds(Sliced(obj)) = 100
  BY DEF AccountRemembers, Sliced, availableFunds
<1>3. availableFunds(obj) = 600
  BY DEF AccountRemembers, availableFunds
<1>4. availableFunds([obj EXCEPT !.balance = 0]) = 500
  <2>1. [obj EXCEPT !.balance = 0] = [balance |-> 0, overdraftLimit |-> 500]
    BY DEF AccountRemembers
  <2> QED
    BY <2>1 DEF availableFunds
<1>5. effects'[n + 1] = out /\ calls'[n + 1].op \in {"value", "reference", "polymorphic"}
  BY DEF Adds
<1>6. /\ calls'[n + 1].op = "value" => out = <<100>>
      /\ calls'[n + 1].op = "reference" => out = <<600>>
      /\ calls'[n + 1].op = "polymorphic" => out = <<600, 500>>
  BY <1>2, <1>3, <1>4 DEF Adds
<1>7. SlicingPromise(n + 1)'
  BY <1>5, <1>6 DEF SlicingPromise
<1> QED
  BY <1>1, <1>5, <1>7 DEF CallPromise

-----------------------------------------------------------------------------
(* The mixins.                                                             *)

\* The timestamped user was made by the latest stamp, and the serializable one
\* is a copy of what it was at the latest serialize.
MixinRemembers(k) ==
    /\ DOMAIN obj = {"stamped", "serializable"}
    /\ obj.stamped # 0 => Earlier(k, "stamp") # {} /\ obj.stamped = LatestAt(k, "stamp")
    /\ obj.serializable # 0 =>
         /\ Earlier(k, "serialize") # {}
         /\ \E m \in Earlier(k, "serialize") :
              m = LatestAt(k, "serialize") /\ obj.serializable = LatestAt(m, "stamp")

\* What the serializable user remembers stays with a call that is no serialize.
LEMMA SerializableStays ==
    ASSUME NEW n, NEW op, NEW arg, NEW out, Adds(n, op, arg, out), op # "serialize", NEW time,
           NEW m \in Earlier(n + 1, "serialize"), m = LatestAt(n + 1, "serialize"), time = LatestAt(m, "stamp")
    PROVE  /\ Earlier(n + 2, "serialize")' # {}
           /\ \E l \in Earlier(n + 2, "serialize")' :
                l = LatestAt(n + 2, "serialize")' /\ time = LatestAt(l, "stamp")'
<1>1. n \in Nat /\ n + 1 - 1 = n
  BY DEF Adds
<1>2. Earlier(n + 2, "serialize")' = Earlier(n + 1, "serialize")
  BY EarlierAfter
<1>3. LatestAt(n + 2, "serialize")' = LatestAt(n + 1, "serialize")
  BY LatestOther
<1>4. m \in 1 .. n + 1
  BY <1>1 DEF Earlier
<1>5. LatestAt(m, "stamp")' = LatestAt(m, "stamp")
  BY <1>4, LatestStays
<1> QED
  BY <1>2, <1>3, <1>5

\* A user is stamped.
LEMMA StampKeepsMixin ==
    ASSUME NEW n, Adds(n, "stamp", NoText, <<>>), MixinRemembers(n + 1),
           obj' = [obj EXCEPT !.stamped = n + 1]
    PROVE  CallPromise(n + 1)' /\ MixinRemembers(n + 2)'
<1>1. calls'[n + 1].op = "stamp" /\ effects'[n + 1] = <<>>
  BY DEF Adds
<1>2. Earlier(n + 2, "stamp")' # {} /\ LatestAt(n + 2, "stamp")' = n + 1
  <2>1. Earlier(n + 2, "stamp")' = Earlier(n + 1, "stamp") \cup {n + 1}
    BY EarlierAfter
  <2>2. LatestAt(n + 2, "stamp")' = n + 1
    BY LatestNew
  <2> QED
    BY <2>1, <2>2
<1>3. /\ DOMAIN obj' = {"stamped", "serializable"} /\ obj'.stamped = n + 1
      /\ obj'.serializable = obj.serializable
  BY DEF MixinRemembers
<1>4. ASSUME obj.serializable # 0
      PROVE  /\ Earlier(n + 2, "serialize")' # {}
             /\ \E l \in Earlier(n + 2, "serialize")' :
                  l = LatestAt(n + 2, "serialize")' /\ obj.serializable = LatestAt(l, "stamp")'
  BY <1>4, SerializableStays DEF MixinRemembers
<1>5. MixinRemembers(n + 2)'
  BY <1>2, <1>3, <1>4 DEF MixinRemembers
<1> QED
  BY <1>1, <1>5 DEF CallPromise

\* A stamped user is made serializable.
LEMMA SerializeKeepsMixin ==
    ASSUME NEW n, Adds(n, "serialize", NoText, <<>>), MixinRemembers(n + 1), obj.stamped # 0,
           obj' = [obj EXCEPT !.serializable = obj.stamped]
    PROVE  CallPromise(n + 1)' /\ MixinRemembers(n + 2)'
<1>1. n \in Nat /\ n + 1 \in 1 .. n + 1 /\ calls'[n + 1].op = "serialize" /\ effects'[n + 1] = <<>>
  BY DEF Adds
<1>2. n + 1 \in Earlier(n + 2, "serialize")' /\ LatestAt(n + 2, "serialize")' = n + 1
  <2>1. Earlier(n + 2, "serialize")' = Earlier(n + 1, "serialize") \cup {n + 1}
    BY EarlierAfter
  <2>2. LatestAt(n + 2, "serialize")' = n + 1
    BY LatestNew
  <2> QED
    BY <2>1, <2>2
<1>3. /\ Earlier(n + 2, "stamp")' = Earlier(n + 1, "stamp")
      /\ LatestAt(n + 2, "stamp")' = LatestAt(n + 1, "stamp")
      /\ LatestAt(n + 1, "stamp")' = LatestAt(n + 1, "stamp")
  <2>1. Earlier(n + 2, "stamp")' = Earlier(n + 1, "stamp")
    BY EarlierAfter
  <2>2. LatestAt(n + 2, "stamp")' = LatestAt(n + 1, "stamp")
    BY LatestOther
  <2>3. LatestAt(n + 1, "stamp")' = LatestAt(n + 1, "stamp")
    BY <1>1, LatestStays
  <2> QED
    BY <2>1, <2>2, <2>3
<1>4. /\ DOMAIN obj' = {"stamped", "serializable"} /\ obj'.stamped = obj.stamped
      /\ obj'.serializable = obj.stamped
  BY DEF MixinRemembers
<1>5. Earlier(n + 1, "stamp") # {} /\ obj.stamped = LatestAt(n + 1, "stamp")
  BY DEF MixinRemembers
<1>6. MixinRemembers(n + 2)'
  BY <1>2, <1>3, <1>4, <1>5 DEF MixinRemembers
<1> QED
  BY <1>1, <1>6 DEF CallPromise

\* A layer is printed, with its timestamp or without.
LEMMA PrintKeepsMixin ==
    ASSUME NEW n, NEW layer \in {"stamped", "serializable"}, NEW op \in {"print", "printWithTimestamp"}, NEW out,
           Adds(n, op, layer, out), MixinRemembers(n + 1), obj[layer] # 0, obj' = obj,
           out = IF op = "print" THEN <<"User">> ELSE <<"User", obj[layer]>>
    PROVE  CallPromise(n + 1)' /\ MixinRemembers(n + 2)'
<1>1. /\ n \in Nat /\ n + 1 \in 1 .. n + 1 /\ n + 1 - 1 = n
      /\ calls'[n + 1].op = op /\ calls'[n + 1].arg = layer /\ effects'[n + 1] = out
  BY DEF Adds
<1>2. /\ LatestAt(n + 1, "stamp")' = LatestAt(n + 1, "stamp")
      /\ LatestAt(n + 1, "serialize")' = LatestAt(n + 1, "serialize")
  BY <1>1, LatestStays
<1>3. TimestampPromise(n + 1)' <=>
        LET seen == IF layer = "stamped" THEN n + 1 ELSE LatestAt(n + 1, "serialize")
        IN seen \in 1 .. n + 1 /\ out = <<"User", LatestAt(seen, "stamp")'>>
  <2>1. CASE layer = "stamped"
    BY <1>1, <2>1 DEF TimestampPromise
  <2>2. CASE layer # "stamped"
    BY <1>1, <1>2, <2>2 DEF TimestampPromise
  <2> QED
    BY <2>1, <2>2
<1>4. op = "printWithTimestamp" => TimestampPromise(n + 1)'
  <2>1. CASE layer = "stamped"
    <3>1. obj[layer] = LatestAt(n + 1, "stamp")
      BY <2>1 DEF MixinRemembers
    <3> QED
      BY <1>1, <1>2, <1>3, <2>1, <3>1
  <2>2. CASE layer = "serializable"
    <3>1. PICK m \in Earlier(n + 1, "serialize") :
               m = LatestAt(n + 1, "serialize") /\ obj.serializable = LatestAt(m, "stamp")
      BY <2>2 DEF MixinRemembers
    <3>2. m \in 1 .. n + 1
      BY <1>1 DEF Earlier
    <3>3. LatestAt(m, "stamp")' = LatestAt(m, "stamp")
      BY <3>2, LatestStays
    <3>4. op = "printWithTimestamp" => out = <<"User", LatestAt(m, "stamp")'>>
      BY <2>2, <3>1, <3>3
    <3> QED
      BY <1>2, <1>3, <2>2, <3>1, <3>2, <3>4
  <2> QED
    BY <2>1, <2>2
<1>5. CallPromise(n + 1)'
  BY <1>1, <1>4 DEF CallPromise
<1>6. obj.stamped # 0 => Earlier(n + 2, "stamp")' # {} /\ obj.stamped = LatestAt(n + 2, "stamp")'
  <2>1. Earlier(n + 2, "stamp")' = Earlier(n + 1, "stamp")
    BY EarlierAfter
  <2>2. LatestAt(n + 2, "stamp")' = LatestAt(n + 1, "stamp")
    BY LatestOther
  <2> QED
    BY <2>1, <2>2 DEF MixinRemembers
<1>7. ASSUME obj.serializable # 0
      PROVE  /\ Earlier(n + 2, "serialize")' # {}
             /\ \E l \in Earlier(n + 2, "serialize")' :
                  l = LatestAt(n + 2, "serialize")' /\ obj.serializable = LatestAt(l, "stamp")'
  BY <1>7, SerializableStays DEF MixinRemembers
<1>8. MixinRemembers(n + 2)'
  BY <1>6, <1>7 DEF MixinRemembers
<1> QED
  BY <1>5, <1>8

-----------------------------------------------------------------------------
(* The particles.                                                          *)

\* Strings, with those a program holds, of which the provers do not know that
\* they are strings.
Letters == STRING \cup {"grey", "smoke.png"}

\* What a key holds where.
LEMMA KeyIs ==
    ASSUME NEW color \in Seq(Letters), NEW sprite \in Seq(Letters)
    PROVE  /\ Len(Key(color, sprite)) = Len(color) + 1 + Len(sprite)
           /\ \A p \in 1 .. Len(color) : Key(color, sprite)[p] = color[p]
           /\ Key(color, sprite)[Len(color) + 1] = Separator
           /\ \A p \in 1 .. Len(sprite) : Key(color, sprite)[Len(color) + 1 + p] = sprite[p]
<1> DEFINE T == Letters \cup {Separator}
           comma == <<Separator>>
           rest == comma \o sprite
           c == Len(color)
           s == Len(sprite)
<1>1. comma \in Seq(T) /\ color \in Seq(T) /\ sprite \in Seq(T) /\ Len(comma) = 1 /\ comma[1] = Separator
  OBVIOUS
<1>2. c \in Nat /\ s \in Nat
  OBVIOUS
<1>3. Key(color, sprite) = color \o rest
  <2>1. Key(color, sprite) = (color \o comma) \o sprite
    BY DEF Key
  <2> HIDE DEF comma
  <2> QED
    BY <1>1, <2>1
<1> HIDE DEF comma, T
<1>4. /\ rest \in Seq(T) /\ Len(rest) = 1 + s /\ rest[1] = Separator
      /\ \A p \in 1 .. s : rest[1 + p] = sprite[p]
  <2>1. /\ rest \in Seq(T) /\ Len(rest) = Len(comma) + s
        /\ \A p \in 1 .. Len(comma) + s : rest[p] = IF p <= Len(comma) THEN comma[p] ELSE sprite[p - Len(comma)]
    BY <1>1, ConcatProperties
  <2> HIDE DEF rest, s
  <2>2. \A p \in 1 .. s : 1 + p \in 1 .. 1 + s /\ ~(1 + p <= 1) /\ 1 + p - 1 = p
    BY <1>2
  <2>3. 1 \in 1 .. 1 + s
    BY <1>2
  <2>4. rest \in Seq(T) /\ Len(rest) = 1 + s
    BY <1>1, <2>1
  <2>5. \A p \in 1 .. 1 + s : rest[p] = IF p <= 1 THEN comma[p] ELSE sprite[p - 1]
    BY <1>1, <2>1
  <2>6. rest[1] = Separator
    BY <1>1, <2>3, <2>5
  <2>7. ASSUME NEW p \in 1 .. s PROVE rest[1 + p] = sprite[p]
    BY <2>2, <2>5
  <2> QED
    BY <2>4, <2>6, <2>7
<1> HIDE DEF rest
<1> DEFINE key == Key(color, sprite)
<1>5. /\ key \in Seq(T) /\ Len(key) = c + Len(rest)
      /\ \A p \in 1 .. c + Len(rest) : key[p] = IF p <= c THEN color[p] ELSE rest[p - c]
  <2>1. /\ color \o rest \in Seq(T) /\ Len(color \o rest) = Len(color) + Len(rest)
        /\ \A p \in 1 .. Len(color) + Len(rest) :
             (color \o rest)[p] = IF p <= Len(color) THEN color[p] ELSE rest[p - Len(color)]
    BY <1>1, <1>4, ConcatProperties, Zenon
  <2> QED
    BY <1>3, <2>1
<1> HIDE DEF key, c, s
<1>6. \A p \in 1 .. c : p \in 1 .. c + (1 + s) /\ p <= c
  BY <1>2
<1>7. c + 1 \in 1 .. c + (1 + s) /\ ~(c + 1 <= c) /\ c + 1 - c = 1
  BY <1>2
<1>8. \A p \in 1 .. s : c + 1 + p \in 1 .. c + (1 + s) /\ ~(c + 1 + p <= c) /\ c + 1 + p - c = 1 + p
  BY <1>2
<1>9. c + (1 + s) = c + 1 + s
  BY <1>2
<1>10. /\ Len(key) = c + 1 + s
       /\ \A p \in 1 .. c : key[p] = color[p]
       /\ key[c + 1] = Separator
       /\ \A p \in 1 .. s : key[c + 1 + p] = sprite[p]
  <2>1. Len(key) = c + 1 + s
    BY <1>4, <1>5, <1>9
  <2>2. \A p \in 1 .. c : key[p] = color[p]
    BY <1>4, <1>5, <1>6
  <2>3. key[c + 1] = Separator
    <3>1. key[c + 1] = rest[c + 1 - c]
      BY <1>2, <1>4, <1>5, <1>7
    <3> QED
      BY <1>4, <1>7, <3>1
  <2>4. \A p \in 1 .. s : key[c + 1 + p] = sprite[p]
    <3> SUFFICES ASSUME NEW p \in 1 .. s PROVE key[c + 1 + p] = sprite[p]
      OBVIOUS
    <3>1. key[c + 1 + p] = rest[c + 1 + p - c]
      BY <1>2, <1>4, <1>5, <1>8
    <3>2. rest[c + 1 + p - c] = rest[1 + p]
      BY <1>8
    <3> QED
      BY <1>4, <3>1, <3>2
  <2> QED
    BY <2>1, <2>2, <2>3, <2>4
<1> QED
  BY <1>10 DEF key, c, s

\* The first comma of a key ends its color.
LEMMA ColorEndsAtComma ==
    ASSUME NEW c1 \in Seq(Letters), NEW s1 \in Seq(Letters), NEW c2 \in Seq(Letters), NEW s2 \in Seq(Letters),
           Separator \notin Range(c2), Key(c1, s1) = Key(c2, s2)
    PROVE  ~(Len(c1) < Len(c2))
<1> DEFINE n1 == Len(c1)
           n2 == Len(c2)
<1>1. n1 \in Nat /\ n2 \in Nat
  OBVIOUS
<1> HIDE DEF n1, n2
<1>2. SUFFICES ASSUME n1 < n2 PROVE FALSE
  BY DEF n1, n2
<1>3. n1 + 1 \in 1 .. n2
  BY <1>1, <1>2
<1>4. Key(c1, s1)[n1 + 1] = Separator /\ \A p \in 1 .. n2 : Key(c2, s2)[p] = c2[p]
  BY KeyIs DEF n1, n2
<1>5. c2[n1 + 1] = Separator
  BY <1>3, <1>4
<1>6. n1 + 1 \in DOMAIN c2
  BY <1>3 DEF n2
<1> QED
  BY <1>5, <1>6 DEF Range

\* Types whose colors hold no comma have different keys.
LEMMA KeysDiffer ==
    ASSUME NEW c1 \in Seq(Letters), NEW s1 \in Seq(Letters), NEW c2 \in Seq(Letters), NEW s2 \in Seq(Letters),
           Separator \notin Range(c1), Separator \notin Range(c2), Key(c1, s1) = Key(c2, s2)
    PROVE  c1 = c2 /\ s1 = s2
<1> DEFINE n == Len(c1)
           m == Len(s1)
<1>1. Len(c2) = n /\ n \in Nat
  <2>1. ~(Len(c1) < Len(c2))
    BY ColorEndsAtComma
  <2>2. ~(Len(c2) < Len(c1))
    BY ColorEndsAtComma
  <2> QED
    BY <2>1, <2>2
<1>2. /\ Len(Key(c1, s1)) = n + 1 + m /\ Len(Key(c2, s2)) = n + 1 + Len(s2)
      /\ \A p \in 1 .. n : Key(c1, s1)[p] = c1[p] /\ Key(c2, s2)[p] = c2[p]
      /\ \A p \in 1 .. m : Key(c1, s1)[n + 1 + p] = s1[p]
      /\ \A p \in 1 .. Len(s2) : Key(c2, s2)[n + 1 + p] = s2[p]
  <2>1. /\ Len(Key(c1, s1)) = Len(c1) + 1 + Len(s1)
        /\ \A p \in 1 .. Len(c1) : Key(c1, s1)[p] = c1[p]
        /\ \A p \in 1 .. Len(s1) : Key(c1, s1)[Len(c1) + 1 + p] = s1[p]
    BY KeyIs
  <2>2. /\ Len(Key(c2, s2)) = Len(c2) + 1 + Len(s2)
        /\ \A p \in 1 .. Len(c2) : Key(c2, s2)[p] = c2[p]
        /\ \A p \in 1 .. Len(s2) : Key(c2, s2)[Len(c2) + 1 + p] = s2[p]
    BY KeyIs
  <2> QED
    BY <1>1, <2>1, <2>2
<1>3. Len(s2) = m
  <2> DEFINE l == Len(s2)
  <2>1. n + 1 + m = n + 1 + l
    BY <1>2
  <2>2. l \in Nat /\ m \in Nat
    OBVIOUS
  <2> HIDE DEF l, m, n
  <2>3. l = m
    BY <1>1, <2>1, <2>2
  <2> QED
    BY <2>3 DEF l
<1>4. c1 = c2
  <2>1. \A p \in 1 .. n : c1[p] = c2[p]
    BY <1>2
  <2> QED
    BY <1>1, <2>1
<1>5. s1 = s2
  <2>1. \A p \in 1 .. m : s1[p] = s2[p]
    BY <1>2, <1>3
  <2> QED
    BY <1>3, <2>1
<1> QED
  BY <1>4, <1>5

\* The entry of a type.
TypeEntry(type) == [key |-> Key(type.color, type.sprite), type |-> type]

\* The types asked for before the k-th call.
AskedTypes(k) == {calls[j].arg : j \in 1 .. k - 1}

\* Particles have texts, and unless a color holds the separator the entries are
\* those of the types asked for.
ParticlesRemember(k) ==
    /\ DOMAIN obj = {"types"}
    /\ \A type \in AskedTypes(k) : \E color, sprite \in Seq(Letters) : type = Typed(color, sprite)
    /\ (\A type \in AskedTypes(k) : Separator \notin Range(type.color)) =>
         obj.types = {TypeEntry(type) : type \in AskedTypes(k)}

\* The entry of a type among those of others with no separator in their colors.
LEMMA EntryIs ==
    ASSUME NEW color \in Seq(Letters), NEW sprite \in Seq(Letters), Separator \notin Range(color),
           NEW types,
           \A type \in types : /\ \E c, s \in Seq(Letters) : type = Typed(c, s)
                               /\ Separator \notin Range(type.color)
    PROVE  Entry({TypeEntry(type) : type \in types}, Key(color, sprite)) =
             IF Typed(color, sprite) \in types THEN {TypeEntry(Typed(color, sprite))} ELSE {}
<1> DEFINE t == Typed(color, sprite)
           E == {TypeEntry(type) : type \in types}
<1>1. t.color = color /\ t.sprite = sprite /\ TypeEntry(t).key = Key(color, sprite)
  BY DEF Typed, TypeEntry
<1>2. ASSUME NEW type \in types, TypeEntry(type).key = Key(color, sprite)
      PROVE  type = t
  <2>1. PICK c, s \in Seq(Letters) : type = Typed(c, s)
    OBVIOUS
  <2>2. type.color = c /\ type.sprite = s
    BY <2>1 DEF Typed
  <2>3. Key(c, s) = Key(color, sprite) /\ Separator \notin Range(c)
    BY <1>2, <2>2 DEF TypeEntry
  <2>4. c = color /\ s = sprite
    BY <2>3, KeysDiffer
  <2> QED
    BY <2>1, <2>4
<1> HIDE DEF t
<1>3. \A e \in E : e.key = Key(color, sprite) => e = TypeEntry(t) /\ t \in types
  BY <1>2
<1>4. t \in types => TypeEntry(t) \in E
  OBVIOUS
<1> HIDE DEF E
<1>5. {e \in E : e.key = Key(color, sprite)} = IF t \in types THEN {TypeEntry(t)} ELSE {}
  BY <1>1, <1>3, <1>4
<1> QED
  BY <1>5 DEF Entry, E, t

\* There are as many entries as types.
LEMMA EntriesAsTypes ==
    ASSUME NEW types, IsFiniteSet(types)
    PROVE  Cardinality({TypeEntry(type) : type \in types}) = Cardinality(types)
<1> DEFINE E == {TypeEntry(type) : type \in types}
           f == [type \in types |-> TypeEntry(type)]
<1>1. \A a, b \in types : TypeEntry(a) = TypeEntry(b) => a = b
  BY DEF TypeEntry
<1>2. f \in Bijection(types, E)
  <2>1. f \in [types -> E] /\ \A e \in E : \E a \in types : f[a] = e
    OBVIOUS
  <2>2. \A a, b \in types : f[a] = f[b] => a = b
    BY <1>1
  <2> HIDE DEF f, E
  <2> QED
    BY <2>1, <2>2, Fun_IsBij
<1>3. ExistsBijection(types, E)
  BY <1>2 DEF ExistsBijection
<1> HIDE DEF E
<1>4. Cardinality(types) = Cardinality(E)
  BY <1>3, FS_Bijection
<1> QED
  BY <1>4 DEF E

\* A type is asked for.
LEMMA TypeKeepsParticles ==
    ASSUME NEW n, NEW color \in Seq(Letters), NEW sprite \in Seq(Letters), NEW out,
           Adds(n, "type", Typed(color, sprite), out), ParticlesRemember(n + 1),
           obj' = [types |-> Interned(obj.types, color, sprite)],
           out = <<(CHOOSE e \in Entry(Interned(obj.types, color, sprite), Key(color, sprite)) : TRUE).type>>
    PROVE  ObjectPromise(n + 1)' /\ ParticlesRemember(n + 2)'
<1> DEFINE t == Typed(color, sprite)
           was == AskedTypes(n + 1)
           now == was \cup {t}
           types == Interned(obj.types, color, sprite)
<1>1. /\ n \in Nat /\ n + 1 - 1 = n /\ n + 2 - 1 = n + 1 /\ Len(calls)' = n + 1
      /\ calls'[n + 1].op = "type" /\ calls'[n + 1].arg = t /\ effects'[n + 1] = out
      /\ \A j \in 1 .. n : calls'[j] = calls[j]
  BY DEF Adds
<1>2. AskedTypes(n + 2)' = now /\ {calls'[j].arg : j \in 1 .. n + 1} = now
  <2>1. was = {calls[j].arg : j \in 1 .. n}
    BY <1>1 DEF AskedTypes
  <2>2. \A j : j \in 1 .. n + 1 <=> j \in 1 .. n \/ j = n + 1
    BY <1>1
  <2> HIDE DEF t, was
  <2>3. {calls'[j].arg : j \in 1 .. n + 1} = was \cup {t}
    BY <1>1, <2>1, <2>2
  <2>4. AskedTypes(n + 2)' = {calls'[j].arg : j \in 1 .. n + 1}
    BY <1>1 DEF AskedTypes
  <2> QED
    BY <2>3, <2>4
<1>3. IsFiniteSet(now)
  <2>1. IsFiniteSet(1 .. n + 1)
    BY <1>1, FS_Interval
  <2>2. IsFiniteSet({calls'[j].arg : j \in 1 .. n + 1})
    <3> DEFINE f == [j \in 1 .. n + 1 |-> calls'[j].arg]
               I == {calls'[j].arg : j \in 1 .. n + 1}
    <3>1. f \in [1 .. n + 1 -> I] /\ \A a \in I : \E j \in 1 .. n + 1 : f[j] = a
      OBVIOUS
    <3> HIDE DEF f, I
    <3>2. f \in Surjection(1 .. n + 1, I)
      BY <3>1, Fun_IsSurj
    <3>3. IsFiniteSet(I)
      BY <2>1, <3>2, FS_Surjection
    <3> QED
      BY <3>3 DEF I
  <2> QED
    BY <1>2, <2>2
<1>4. \A type \in now : \E c, s \in Seq(Letters) : type = Typed(c, s)
  BY DEF ParticlesRemember
<1>5. obj'.types = types /\ DOMAIN obj' = {"types"}
  OBVIOUS
<1> DEFINE plain == \A type \in now : Separator \notin Range(type.color)
<1>6. ASSUME plain
      PROVE  types = {TypeEntry(type) : type \in now} /\ out = <<t>>
  <2> DEFINE E == {TypeEntry(type) : type \in was}
             F == {TypeEntry(type) : type \in now}
  <2>1. obj.types = E
    BY <1>6 DEF ParticlesRemember
  <2>2. t.color = color
    BY DEF Typed
  <2>3. Separator \notin Range(color)
    BY <1>6, <2>2
  <2>4. Entry(E, Key(color, sprite)) = IF t \in was THEN {TypeEntry(t)} ELSE {}
    <3>1. \A type \in was : /\ \E c, s \in Seq(Letters) : type = Typed(c, s)
                            /\ Separator \notin Range(type.color)
      BY <1>4, <1>6
    <3> HIDE DEF was
    <3> QED
      BY <2>3, <3>1, EntryIs
  <2>5. Entry(F, Key(color, sprite)) = {TypeEntry(t)}
    <3>1. \A type \in now : /\ \E c, s \in Seq(Letters) : type = Typed(c, s)
                            /\ Separator \notin Range(type.color)
      BY <1>4, <1>6
    <3>2. t \in now
      OBVIOUS
    <3> HIDE DEF now
    <3> QED
      BY <2>3, <3>1, <3>2, EntryIs
  <2>6. F = E \cup {TypeEntry(t)}
    <3> HIDE DEF was, t
    <3> QED
      OBVIOUS
  <2>7. TypeEntry(t) = [key |-> Key(color, sprite), type |-> t]
    BY DEF TypeEntry, Typed
  <2>8. types = F
    <3>1. CASE t \in was
      <4>1. types = E
        BY <2>1, <2>4, <3>1 DEF Interned
      <4>2. F = E
        BY <3>1
      <4> QED
        BY <4>1, <4>2
    <3>2. CASE t \notin was
      <4>1. Entry(obj.types, Key(color, sprite)) = {}
        BY <2>1, <2>4, <3>2
      <4> HIDE DEF E, F, was
      <4>2. types = obj.types \cup {TypeEntry(t)}
        BY <2>7, <4>1 DEF Interned
      <4> QED
        BY <2>1, <2>6, <4>2
    <3> QED
      BY <3>1, <3>2
  <2>9. out = <<(CHOOSE e \in {TypeEntry(t)} : TRUE).type>>
    <3> HIDE DEF F, was, t
    <3> QED
      BY <2>5, <2>8
  <2>10. out = <<t>>
    <3>1. (CHOOSE e \in {TypeEntry(t)} : TRUE) = TypeEntry(t)
      OBVIOUS
    <3>2. TypeEntry(t).type = t
      BY <2>7
    <3> HIDE DEF t
    <3> QED
      BY <2>9, <3>1, <3>2
  <2> QED
    BY <2>8, <2>10
<1>7. plain => Cardinality(types) = Cardinality(now)
  <2> HIDE DEF now, types
  <2> QED
    BY <1>3, <1>6, EntriesAsTypes
<1>8. (\A j \in 1 .. n + 1 : Separator \notin Range(calls'[j].arg.color)) <=> plain
  <2> HIDE DEF was, t
  <2>1. \A type : type \in now <=> \E j \in 1 .. n + 1 : type = calls'[j].arg
    BY <1>2
  <2> HIDE DEF now
  <2> QED
    BY <2>1
<1> HIDE DEF now, types, t, plain
<1>9. GetTypePromise(n + 1)'
  BY <1>1, <1>2, <1>5, <1>6, <1>7, <1>8 DEF GetTypePromise
<1>10. ParticlesRemember(n + 2)'
  <2>1. plain => obj'.types = {TypeEntry(type) : type \in now}
    BY <1>5, <1>6
  <2> QED
    BY <1>2, <1>4, <1>5, <2>1 DEF ParticlesRemember, plain
<1> QED
  BY <1>1, <1>9, <1>10 DEF ObjectPromise

-----------------------------------------------------------------------------
(* All patterns.                                                           *)

\* The examples whose objects remember.
ObjectNames == {"mediator", "observer", "proxy", "flyweight", "builder", "singleton"}

\* What the object of a pattern remembers before the k-th call.
Remembers(k) ==
    /\ pattern = "mediator" => DialogRemembers(k)
    /\ pattern = "observer" => StationRemembers(k)
    /\ pattern = "proxy" => ProxyRemembers(k)
    /\ pattern = "flyweight" => ParticlesRemember(k)
    /\ pattern = "builder" => BuilderRemembers(k)
    /\ pattern = "singleton" => LoggerRemembers(k)
    /\ pattern = "decorator" => ChainRemembers(k)
    /\ pattern = "strategy" => NavigatorRemembers(k)
    /\ pattern = "adapter" => LoggersRemember(k)
    /\ pattern = "abstract_factory" => FactoryRemembers(k)
    /\ pattern = "mixin" => MixinRemembers(k)
    /\ pattern = "slicing" => AccountRemembers

\* Every call has kept its promise, and the object remembers what the next needs.
PatternIInv ==
    /\ Recorded
    /\ pattern \in ObjectNames => \A i \in 1 .. Len(calls) : ObjectPromise(i)
    /\ pattern \notin ObjectNames => \A i \in 1 .. Len(calls) : CallPromise(i)
    /\ Remembers(Len(calls) + 1)

\* Before the first call there is nothing to remember.
LEMMA PatternInitial ==
    ASSUME ObjectPatternsInit \/ DispatchPatternsInit \/ NoHistory
    PROVE  PatternIInv
<1>1. calls = <<>> /\ effects = <<>>
  BY DEF ObjectPatternsInit, DispatchPatternsInit, NoHistory
<1>2. calls \in Seq({}) /\ effects \in Seq({}) /\ Len(calls) = 0 /\ Len(effects) = 0
  BY <1>1
<1>3. Recorded /\ Len(calls) + 1 = 1 /\ 1 .. Len(calls) = {}
  BY <1>2 DEF Recorded
<1>4. \A o, d : Earlier(1, o) = {} /\ Latest(1, o, d) = d
  BY LatestAtFirst
<1>5. \A s : Len(s) = 0 /\ (\E X : s \in Seq(X)) => Listed(s, {})
  BY FS_EmptySet DEF Listed
<1>6. ASSUME pattern = "mediator" PROVE DialogRemembers(1)
  <2>1. obj = [username |-> NoText, password |-> NoText, enabled |-> FALSE]
    BY <1>6 DEF ObjectPatternsInit, DispatchPatternsInit, NoHistory
  <2>2. \A j : j \in 1 .. 1 => j = 1
    OBVIOUS
  <2> QED
    BY <1>4, <2>1, <2>2 DEF DialogRemembers
<1>7. ASSUME pattern = "observer" PROVE StationRemembers(1)
  <2>1. obj = [observers |-> <<>>, temp |-> 0]
    BY <1>7 DEF ObjectPatternsInit, DispatchPatternsInit, NoHistory
  <2>2. obj.observers = <<>> /\ DOMAIN obj = {"observers", "temp"}
    BY <2>1
  <2>3. Listed(<<>>, {})
    BY FS_EmptySet DEF Listed
  <2> QED
    BY <1>4, <2>2, <2>3 DEF StationRemembers
<1>8. ASSUME pattern = "proxy" PROVE ProxyRemembers(1)
  <2>1. obj = [engine |-> FALSE]
    BY <1>8 DEF ObjectPatternsInit, DispatchPatternsInit, NoHistory
  <2> QED
    BY <2>1 DEF ProxyRemembers
<1>9. ASSUME pattern = "flyweight" PROVE ParticlesRemember(1)
  <2>1. obj = [types |-> {}]
    BY <1>9 DEF ObjectPatternsInit, DispatchPatternsInit, NoHistory
  <2>2. AskedTypes(1) = {}
    BY DEF AskedTypes
  <2> QED
    BY <2>1, <2>2 DEF ParticlesRemember
<1>10. ASSUME pattern = "builder" PROVE BuilderRemembers(1)
  <2>1. obj = [part \in Parts |-> NoText]
    BY <1>10 DEF ObjectPatternsInit, DispatchPatternsInit, NoHistory
  <2> QED
    BY <1>4, <2>1 DEF BuilderRemembers
<1>11. ASSUME pattern = "singleton" PROVE LoggerRemembers(1)
  <2>1. obj = [made |-> FALSE, level |-> NoText]
    BY <1>11 DEF ObjectPatternsInit, DispatchPatternsInit, NoHistory
  <2> QED
    BY <1>4, <2>1 DEF LoggerRemembers
<1>12. ASSUME pattern = "decorator" PROVE ChainRemembers(1)
  <2>1. obj = <<"Null">>
    BY <1>12 DEF ObjectPatternsInit, DispatchPatternsInit, NoHistory
  <2>2. obj \in Seq({"Null"}) /\ Len(obj) = 1 /\ obj[1] = "Null"
    BY <2>1
  <2>3. Cardinality({}) = 0 /\ 0 + 1 = 1 /\ 1 .. 0 = {}
    BY FS_EmptySet
  <2> QED
    BY <1>4, <2>2, <2>3 DEF ChainRemembers
<1>13. ASSUME pattern = "strategy" PROVE NavigatorRemembers(1)
  <2>1. obj = "none"
    BY <1>13 DEF ObjectPatternsInit, DispatchPatternsInit, NoHistory
  <2> QED
    BY <1>4, <2>1 DEF NavigatorRemembers
<1>14. ASSUME pattern = "adapter" PROVE LoggersRemember(1)
  <2>1. obj = <<>>
    BY <1>14 DEF ObjectPatternsInit, DispatchPatternsInit, NoHistory
  <2>2. Listed(<<>>, {})
    BY FS_EmptySet DEF Listed
  <2> QED
    BY <1>4, <2>1, <2>2 DEF LoggersRemember
<1>15. ASSUME pattern = "abstract_factory" PROVE FactoryRemembers(1)
  <2>1. obj = [storage |-> "none", compute |-> "none"]
    BY <1>15 DEF ObjectPatternsInit, DispatchPatternsInit, NoHistory
  <2> QED
    BY <1>4, <2>1 DEF FactoryRemembers
<1>16. ASSUME pattern = "mixin" PROVE MixinRemembers(1)
  <2>1. obj = [stamped |-> 0, serializable |-> 0]
    BY <1>16 DEF ObjectPatternsInit, DispatchPatternsInit, NoHistory
  <2> QED
    BY <2>1 DEF MixinRemembers
<1>17. ASSUME pattern = "slicing" PROVE AccountRemembers
  <2>1. obj = [balance |-> 100, overdraftLimit |-> 500]
    BY <1>17 DEF ObjectPatternsInit, DispatchPatternsInit, NoHistory
  <2> QED
    BY <2>1 DEF AccountRemembers
<1>18. Remembers(1)
  BY <1>6, <1>7, <1>8, <1>9, <1>10, <1>11, <1>12, <1>13, <1>14, <1>15, <1>16, <1>17 DEF Remembers
<1> QED
  BY <1>3, <1>18 DEF PatternIInv

\* A call that keeps its promise and what is remembered keeps the invariant.
LEMMA CallKeeps ==
    ASSUME PatternIInv, Recorded', NEW n, NEW op, NEW arg, NEW out, Adds(n, op, arg, out),
           pattern' = pattern, Remembers(n + 2)',
           pattern \in ObjectNames => ObjectPromise(n + 1)',
           pattern \notin ObjectNames => CallPromise(n + 1)'
    PROVE  PatternIInv'
<1>1. n \in Nat /\ Len(calls) = n /\ Len(calls)' = n + 1 /\ n + 1 + 1 = n + 2
  BY DEF Adds
<1>2. \A i : i \in 1 .. n + 1 <=> i \in 1 .. n \/ i = n + 1
  BY <1>1
<1>3. ASSUME pattern \in ObjectNames PROVE \A i \in 1 .. n + 1 : ObjectPromise(i)'
  <2>1. \A i \in 1 .. n : ObjectPromise(i)
    BY <1>1, <1>3 DEF PatternIInv
  <2>2. \A i \in 1 .. n : ObjectPromise(i)'
    BY <2>1, ObjectPromiseStays
  <2> QED
    BY <1>2, <1>3, <2>2
<1>4. ASSUME pattern \notin ObjectNames PROVE \A i \in 1 .. n + 1 : CallPromise(i)'
  <2>1. \A i \in 1 .. n : CallPromise(i)
    BY <1>1, <1>4 DEF PatternIInv
  <2>2. \A i \in 1 .. n : CallPromise(i)'
    BY <2>1, CallPromiseStays
  <2> QED
    BY <1>2, <1>4, <2>2
<1>5. Remembers(Len(calls) + 1)'
  BY <1>1
<1> QED
  BY <1>1, <1>3, <1>4, <1>5 DEF PatternIInv

\* The steps of the examples whose objects remember.
LEMMA ObjectStepKeeps ==
    ASSUME PatternIInv, ObjectPatternsNext
    PROVE  PatternIInv'
<1>1. Recorded
  BY DEF PatternIInv
<1>2. PICK n : n = Len(calls)
  OBVIOUS
<1>3. Remembers(n + 1)
  BY <1>2 DEF PatternIInv
<1>4. ASSUME NEW text \in Texts, SetText(text) PROVE PatternIInv'
  <2>1. /\ Recorded' /\ Adds(n, "username", text, <<>>) /\ pattern = "mediator" /\ pattern' = "mediator"
        /\ obj' = Notified([obj EXCEPT !.username = text])
    BY <1>1, <1>2, <1>4, DoesAdds DEF SetText
  <2>2. DialogRemembers(n + 1)
    BY <1>3, <2>1 DEF Remembers
  <2>3. ObjectPromise(n + 1)' /\ DialogRemembers(n + 2)'
    BY <2>1, <2>2, FieldKeepsDialog
  <2> QED
    BY <2>1, <2>3, CallKeeps DEF Remembers, ObjectNames
<1>5. ASSUME NEW text \in Texts, SetPassword(text) PROVE PatternIInv'
  <2>1. /\ Recorded' /\ Adds(n, "password", text, <<>>) /\ pattern = "mediator" /\ pattern' = "mediator"
        /\ obj' = Notified([obj EXCEPT !.password = text])
    BY <1>1, <1>2, <1>5, DoesAdds DEF SetPassword
  <2>2. DialogRemembers(n + 1)
    BY <1>3, <2>1 DEF Remembers
  <2>3. ObjectPromise(n + 1)' /\ DialogRemembers(n + 2)'
    BY <2>1, <2>2, FieldKeepsDialog
  <2> QED
    BY <2>1, <2>3, CallKeeps DEF Remembers, ObjectNames
<1>6. ASSUME Click PROVE PatternIInv'
  <2> DEFINE out == IF obj.enabled THEN <<[login |-> obj.username]>> ELSE <<>>
  <2>1. /\ Recorded' /\ Adds(n, "click", NoText, out) /\ pattern = "mediator" /\ pattern' = "mediator"
        /\ obj' = obj
    BY <1>1, <1>2, <1>6, DoesAdds DEF Click
  <2>2. DialogRemembers(n + 1)
    BY <1>3, <2>1 DEF Remembers
  <2>3. ObjectPromise(n + 1)' /\ DialogRemembers(n + 2)'
    BY <2>1, <2>2, ClickKeepsDialog
  <2> HIDE DEF out
  <2> QED
    BY <2>1, <2>3, CallKeeps DEF Remembers, ObjectNames
<1>7. ASSUME NEW display \in Displays, Subscribe(display) PROVE PatternIInv'
  <2>1. /\ Recorded' /\ Adds(n, "subscribe", display, <<>>) /\ pattern = "observer" /\ pattern' = "observer"
        /\ obj' = [obj EXCEPT !.observers = Append(@, display)]
    BY <1>1, <1>2, <1>7, DoesAdds DEF Subscribe
  <2>2. StationRemembers(n + 1)
    BY <1>3, <2>1 DEF Remembers
  <2>3. ObjectPromise(n + 1)' /\ StationRemembers(n + 2)'
    BY <2>1, <2>2, SubscribeKeepsStation
  <2> QED
    BY <2>1, <2>3, CallKeeps DEF Remembers, ObjectNames
<1>8. ASSUME NEW t \in Temps, SetTemp(t) PROVE PatternIInv'
  <2> DEFINE out == [k \in DOMAIN obj.observers |-> [display |-> obj.observers[k], shows |-> t]]
  <2>1. /\ Recorded' /\ Adds(n, "temp", t, out) /\ pattern = "observer" /\ pattern' = "observer"
        /\ obj' = [obj EXCEPT !.temp = t]
    BY <1>1, <1>2, <1>8, DoesAdds DEF SetTemp
  <2>2. StationRemembers(n + 1)
    BY <1>3, <2>1 DEF Remembers
  <2>3. ObjectPromise(n + 1)' /\ StationRemembers(n + 2)'
    BY <2>1, <2>2, TempKeepsStation
  <2> HIDE DEF out
  <2> QED
    BY <2>1, <2>3, CallKeeps DEF Remembers, ObjectNames
<1>9. ASSUME NEW throws \in BOOLEAN, Render(throws) PROVE PatternIInv'
  <2> DEFINE out == CASE obj.engine -> <<"render">>
                      [] throws     -> <<"throw">>
                      [] OTHER      -> <<"construct", "render">>
  <2>1. /\ Recorded' /\ Adds(n, "render", throws, out) /\ pattern = "proxy" /\ pattern' = "proxy"
        /\ obj' = [obj EXCEPT !.engine = ~throws] /\ (throws => ~obj.engine)
    BY <1>1, <1>2, <1>9, DoesAdds DEF Render
  <2>2. ProxyRemembers(n + 1)
    BY <1>3, <2>1 DEF Remembers
  <2>3. ObjectPromise(n + 1)' /\ ProxyRemembers(n + 2)'
    BY <2>1, <2>2, RenderKeepsProxy
  <2> HIDE DEF out
  <2> QED
    BY <2>1, <2>3, CallKeeps DEF Remembers, ObjectNames
<1>10. ASSUME NEW color \in Seq(Letters), NEW sprite \in Seq(Letters), GetType(color, sprite) PROVE PatternIInv'
  <2> DEFINE types == Interned(obj.types, color, sprite)
             out == <<(CHOOSE e \in Entry(types, Key(color, sprite)) : TRUE).type>>
  <2>1. /\ Recorded' /\ Adds(n, "type", Typed(color, sprite), out)
        /\ pattern = "flyweight" /\ pattern' = "flyweight" /\ obj' = [types |-> types]
    BY <1>1, <1>2, <1>10, DoesAdds DEF GetType
  <2>2. ParticlesRemember(n + 1)
    BY <1>3, <2>1 DEF Remembers
  <2>3. ObjectPromise(n + 1)' /\ ParticlesRemember(n + 2)'
    BY <2>1, <2>2, TypeKeepsParticles
  <2> HIDE DEF out
  <2> QED
    BY <2>1, <2>3, CallKeeps DEF Remembers, ObjectNames
<1>11. ASSUME NEW part \in Parts, NEW text \in Texts, SetPart(part, text) PROVE PatternIInv'
  <2>1. /\ Recorded' /\ Adds(n, part, text, <<>>) /\ pattern = "builder" /\ pattern' = "builder"
        /\ obj' = [obj EXCEPT ![part] = text]
    BY <1>1, <1>2, <1>11, DoesAdds DEF SetPart
  <2>2. BuilderRemembers(n + 1)
    BY <1>3, <2>1 DEF Remembers
  <2>3. ObjectPromise(n + 1)' /\ BuilderRemembers(n + 2)'
    BY <2>1, <2>2, PartKeepsBuilder
  <2> QED
    BY <2>1, <2>3, CallKeeps DEF Remembers, ObjectNames
<1>12. ASSUME Build PROVE PatternIInv'
  <2> DEFINE out == IF \E part \in Parts : obj[part] = NoText THEN <<"nullopt">> ELSE <<obj>>
  <2>1. /\ Recorded' /\ Adds(n, "build", NoText, out) /\ pattern = "builder" /\ pattern' = "builder"
        /\ obj' = obj
    BY <1>1, <1>2, <1>12, DoesAdds DEF Build
  <2>2. BuilderRemembers(n + 1)
    BY <1>3, <2>1 DEF Remembers
  <2>3. ObjectPromise(n + 1)' /\ BuilderRemembers(n + 2)'
    BY <2>1, <2>2, BuildKeepsBuilder
  <2> HIDE DEF out
  <2> QED
    BY <2>1, <2>3, CallKeeps DEF Remembers, ObjectNames
<1>13. ASSUME NEW level \in Texts, SetLevel(level) PROVE PatternIInv'
  <2>1. /\ Recorded' /\ Adds(n, "set", level, <<>>) /\ pattern = "singleton" /\ pattern' = "singleton"
        /\ obj' = [GetLogger(obj) EXCEPT !.level = level]
    BY <1>1, <1>2, <1>13, DoesAdds DEF SetLevel
  <2>2. LoggerRemembers(n + 1)
    BY <1>3, <2>1 DEF Remembers
  <2>3. ObjectPromise(n + 1)' /\ LoggerRemembers(n + 2)'
    BY <2>1, <2>2, SetKeepsLogger
  <2> QED
    BY <2>1, <2>3, CallKeeps DEF Remembers, ObjectNames
<1>14. ASSUME GetLevel PROVE PatternIInv'
  <2>1. /\ Recorded' /\ Adds(n, "get", NoText, <<GetLogger(obj).level>>)
        /\ pattern = "singleton" /\ pattern' = "singleton" /\ obj' = GetLogger(obj)
    BY <1>1, <1>2, <1>14, DoesAdds DEF GetLevel
  <2>2. LoggerRemembers(n + 1)
    BY <1>3, <2>1 DEF Remembers
  <2>3. ObjectPromise(n + 1)' /\ LoggerRemembers(n + 2)'
    BY <2>1, <2>2, GetKeepsLogger
  <2> QED
    BY <2>1, <2>3, CallKeeps DEF Remembers, ObjectNames
<1>15. \A color \in Colors, sprite \in Sprites : color \in Seq(Letters) /\ sprite \in Seq(Letters)
  <2>1. \A s \in Seq(STRING) : s \in Seq(Letters)
    BY DEF Letters
  <2> QED
    BY <2>1, ParticleAssumption
<1>16. ASSUME GetSmoke PROVE \E color, sprite \in Seq(Letters) : GetType(color, sprite)
  <2>1. GetType(<<"grey">>, <<"smoke.png">>)
    BY <1>16 DEF GetSmoke
  <2>2. <<"grey">> \in Seq(Letters) /\ <<"smoke.png">> \in Seq(Letters)
    BY DEF Letters
  <2> QED
    BY <2>1, <2>2, Zenon
<1> QED
  BY <1>4, <1>5, <1>6, <1>7, <1>8, <1>9, <1>10, <1>11, <1>12, <1>13, <1>14, <1>15, <1>16 DEF ObjectPatternsNext

\* Two sequences of one.
LEMMA Joined == ASSUME NEW x, NEW y PROVE <<x>> \o <<y>> = <<x, y>>
<1> DEFINE T == {x, y}
           a == <<x>>
           b == <<y>>
           d == <<x, y>>
<1>1. a \in Seq(T) /\ b \in Seq(T) /\ Len(a) = 1 /\ Len(b) = 1 /\ a[1] = x /\ b[1] = y
  OBVIOUS
<1>2. d \in Seq(T) /\ Len(d) = 2 /\ d[1] = x /\ d[2] = y
  OBVIOUS
<1> HIDE DEF a, b, d
<1>3. /\ a \o b \in Seq(T) /\ Len(a \o b) = Len(a) + Len(b)
      /\ \A p \in 1 .. Len(a) + Len(b) : (a \o b)[p] = IF p <= Len(a) THEN a[p] ELSE b[p - Len(a)]
  BY <1>1, ConcatProperties, Zenon
<1> DEFINE c == a \o b
<1>4. c \in Seq(T) /\ Len(c) = 2 /\ c[1] = x /\ c[2] = y
  BY <1>1, <1>3
<1> HIDE DEF c
<1>5. \A p \in 1 .. 2 : c[p] = d[p]
  BY <1>2, <1>4
<1>6. c = d
  BY <1>2, <1>4, <1>5, SeqEqual
<1> QED
  BY <1>6 DEF a, b, c, d

\* The steps of the examples that pass calls on.
LEMMA DispatchStepKeeps ==
    ASSUME PatternIInv, DispatchPatternsNext
    PROVE  PatternIInv'
<1>1. Recorded
  BY DEF PatternIInv
<1>2. PICK n : n = Len(calls)
  OBVIOUS
<1>3. Remembers(n + 1)
  BY <1>2 DEF PatternIInv
<1>4. ASSUME NEW decorator \in Decorators, Wrap(decorator) PROVE PatternIInv'
  <2>1. /\ Recorded' /\ Adds(n, "wrap", decorator, <<>>) /\ pattern = "decorator" /\ pattern' = "decorator"
        /\ obj' = <<decorator>> \o obj
    BY <1>1, <1>2, <1>4, DoesAdds DEF Wrap
  <2>2. ChainRemembers(n + 1)
    BY <1>3, <2>1 DEF Remembers
  <2>3. CallPromise(n + 1)' /\ ChainRemembers(n + 2)'
    BY <2>1, <2>2, WrapKeepsChain
  <2> QED
    BY <2>1, <2>3, CallKeeps DEF Remembers, ObjectNames
<1>5. ASSUME NEW large \in BOOLEAN, Export(large) PROVE PatternIInv'
  <2> DEFINE out == SubSeq(obj, 1, SelectInSeq(obj, LAMBDA exporter : ~Forwards(exporter, large)))
  <2>1. /\ Recorded' /\ Adds(n, "export", large, out) /\ pattern = "decorator" /\ pattern' = "decorator"
        /\ obj' = obj
    BY <1>1, <1>2, <1>5, DoesAdds DEF Export
  <2>2. ChainRemembers(n + 1)
    BY <1>3, <2>1 DEF Remembers
  <2>3. CallPromise(n + 1)' /\ ChainRemembers(n + 2)'
    BY <2>1, <2>2, ExportKeepsChain
  <2> HIDE DEF out
  <2> QED
    BY <2>1, <2>3, CallKeeps DEF Remembers, ObjectNames
<1>6. ASSUME NEW strategy \in Strategies, SetStrategy(strategy) PROVE PatternIInv'
  <2>1. /\ Recorded' /\ Adds(n, "strategy", strategy, <<>>) /\ pattern = "strategy" /\ pattern' = "strategy"
        /\ obj' = strategy
    BY <1>1, <1>2, <1>6, DoesAdds DEF SetStrategy
  <2>2. CallPromise(n + 1)' /\ NavigatorRemembers(n + 2)'
    BY <2>1, StrategyKeepsNavigator
  <2> QED
    BY <2>1, <2>2, CallKeeps DEF Remembers, ObjectNames
<1>7. ASSUME Navigate PROVE PatternIInv'
  <2>1. /\ Recorded' /\ Adds(n, "navigate", NoText, <<obj>>) /\ pattern = "strategy" /\ pattern' = "strategy"
        /\ obj' = obj
    BY <1>1, <1>2, <1>7, DoesAdds DEF Navigate
  <2>2. NavigatorRemembers(n + 1)
    BY <1>3, <2>1 DEF Remembers
  <2>3. CallPromise(n + 1)' /\ NavigatorRemembers(n + 2)'
    BY <2>1, <2>2, NavigateKeepsNavigator
  <2> QED
    BY <2>1, <2>3, CallKeeps DEF Remembers, ObjectNames
<1>8. ASSUME NEW logger, AddLogger(logger) PROVE PatternIInv'
  <2>1. /\ Recorded' /\ Adds(n, "logger", logger, <<>>) /\ pattern = "adapter" /\ pattern' = "adapter"
        /\ obj' = Append(obj, logger)
    BY <1>1, <1>2, <1>8, DoesAdds DEF AddLogger
  <2>2. LoggersRemember(n + 1)
    BY <1>3, <2>1 DEF Remembers
  <2>3. CallPromise(n + 1)' /\ LoggersRemember(n + 2)'
    BY <2>1, <2>2, AddKeepsLoggers
  <2> QED
    BY <2>1, <2>3, CallKeeps DEF Remembers, ObjectNames
<1>9. ASSUME NEW m \in Messages, Log(m) PROVE PatternIInv'
  <2> DEFINE out == [k \in DOMAIN obj |-> IF obj[k] = "LoggerA" THEN [by |-> "Info", text |-> m]
                                                                ELSE [by |-> "LogMessage", text |-> CStr(m)]]
  <2>1. /\ Recorded' /\ Adds(n, "log", m, out) /\ pattern = "adapter" /\ pattern' = "adapter"
        /\ obj' = obj
    BY <1>1, <1>2, <1>9, DoesAdds DEF Log
  <2>2. LoggersRemember(n + 1)
    BY <1>3, <2>1 DEF Remembers
  <2>3. CallPromise(n + 1)' /\ LoggersRemember(n + 2)'
    BY <2>1, <2>2, LogKeepsLoggers
  <2> HIDE DEF out
  <2> QED
    BY <2>1, <2>3, CallKeeps DEF Remembers, ObjectNames
<1>10. ASSUME CreateNode PROVE PatternIInv'
  <2>1. /\ Recorded' /\ Adds(n, "node", NoText, NodeSteps) /\ pattern = "facade" /\ pattern' = "facade"
    BY <1>1, <1>2, <1>10, DoesAdds DEF CreateNode
  <2>2. CallPromise(n + 1)'
    BY <2>1, NodeKeepsPromise
  <2> QED
    BY <2>1, <2>2, CallKeeps DEF Remembers, ObjectNames
<1>11. ASSUME NEW provider, Choose(provider) PROVE PatternIInv'
  <2>1. CASE provider \in Providers
    <3>1. /\ Recorded' /\ Adds(n, "choose", provider, <<>>)
          /\ pattern = "abstract_factory" /\ pattern' = "abstract_factory"
          /\ obj' = [storage |-> provider, compute |-> provider]
      BY <1>1, <1>2, <1>11, <2>1, DoesAdds DEF Choose
    <3>2. CallPromise(n + 1)' /\ FactoryRemembers(n + 2)'
      BY <2>1, <3>1, ChooseKeepsFactory
    <3> QED
      BY <3>1, <3>2, CallKeeps DEF Remembers, ObjectNames
  <2>2. CASE provider \notin Providers
    <3>1. /\ Recorded' /\ Adds(n, "throw", provider, <<>>)
          /\ pattern = "abstract_factory" /\ pattern' = "abstract_factory" /\ obj' = obj
      BY <1>1, <1>2, <1>11, <2>2, DoesAdds DEF Choose
    <3>2. FactoryRemembers(n + 1)
      BY <1>3, <3>1 DEF Remembers
    <3>3. CallPromise(n + 1)' /\ FactoryRemembers(n + 2)'
      BY <3>1, <3>2, ThrowKeepsFactory
    <3> QED
      BY <3>1, <3>3, CallKeeps DEF Remembers, ObjectNames
  <2> QED
    BY <2>1, <2>2
<1>12. ASSUME NEW op \in {"GetSize", "SetSize"}, UseStorage(op) PROVE PatternIInv'
  <2> DEFINE out == IF op = "GetSize" THEN <<[by |-> obj.storage, size |-> Size[obj.storage]]>>
                                      ELSE <<[by |-> obj.storage]>>
  <2>1. /\ Recorded' /\ Adds(n, op, NoText, out)
        /\ pattern = "abstract_factory" /\ pattern' = "abstract_factory"
        /\ obj' = obj /\ obj.storage # "none"
    BY <1>1, <1>2, <1>12, DoesAdds DEF UseStorage
  <2>2. FactoryRemembers(n + 1)
    BY <1>3, <2>1 DEF Remembers
  <2>3. CallPromise(n + 1)' /\ FactoryRemembers(n + 2)'
    BY <2>1, <2>2, StorageKeepsFactory
  <2> HIDE DEF out
  <2> QED
    BY <2>1, <2>3, CallKeeps DEF Remembers, ObjectNames
<1>13. ASSUME NEW op \in {"AllocateInstance", "DeallocateInstance"}, UseCompute(op) PROVE PatternIInv'
  <2> DEFINE out == <<[by |-> obj.compute]>>
  <2>1. /\ Recorded' /\ Adds(n, op, NoText, out)
        /\ pattern = "abstract_factory" /\ pattern' = "abstract_factory" /\ obj' = obj
    BY <1>1, <1>2, <1>13, DoesAdds DEF UseCompute
  <2>2. FactoryRemembers(n + 1)
    BY <1>3, <2>1 DEF Remembers
  <2>3. CallPromise(n + 1)' /\ FactoryRemembers(n + 2)'
    BY <2>1, <2>2, ComputeKeepsFactory
  <2> HIDE DEF out
  <2> QED
    BY <2>1, <2>3, CallKeeps DEF Remembers, ObjectNames
<1>14. ASSUME Stamp PROVE PatternIInv'
  <2>1. /\ Recorded' /\ Adds(n, "stamp", NoText, <<>>) /\ pattern = "mixin" /\ pattern' = "mixin"
        /\ obj' = [obj EXCEPT !.stamped = n + 1]
    BY <1>1, <1>2, <1>14, DoesAdds DEF Stamp, Now
  <2>2. MixinRemembers(n + 1)
    BY <1>3, <2>1 DEF Remembers
  <2>3. CallPromise(n + 1)' /\ MixinRemembers(n + 2)'
    BY <2>1, <2>2, StampKeepsMixin
  <2> QED
    BY <2>1, <2>3, CallKeeps DEF Remembers, ObjectNames
<1>15. ASSUME Serialize PROVE PatternIInv'
  <2>1. /\ Recorded' /\ Adds(n, "serialize", NoText, <<>>) /\ pattern = "mixin" /\ pattern' = "mixin"
        /\ obj' = [obj EXCEPT !.serializable = obj.stamped] /\ obj.stamped # 0
    BY <1>1, <1>2, <1>15, DoesAdds DEF Serialize
  <2>2. MixinRemembers(n + 1)
    BY <1>3, <2>1 DEF Remembers
  <2>3. CallPromise(n + 1)' /\ MixinRemembers(n + 2)'
    BY <2>1, <2>2, SerializeKeepsMixin
  <2> QED
    BY <2>1, <2>3, CallKeeps DEF Remembers, ObjectNames
<1>16. ASSUME NEW layer \in {"stamped", "serializable"}, NEW timestamp \in BOOLEAN,
              PrintLayer(layer, timestamp)
       PROVE  PatternIInv'
  <2> DEFINE op == IF timestamp THEN "printWithTimestamp" ELSE "print"
             out == <<"User">> \o IF timestamp THEN <<obj[layer]>> ELSE <<>>
  <2>1. /\ Recorded' /\ Adds(n, op, layer, out) /\ pattern = "mixin" /\ pattern' = "mixin"
        /\ obj' = obj /\ obj[layer] # 0
    BY <1>1, <1>2, <1>16, DoesAdds DEF PrintLayer
  <2>2. MixinRemembers(n + 1)
    BY <1>3, <2>1 DEF Remembers
  <2>3. op \in {"print", "printWithTimestamp"}
    OBVIOUS
  <2>4. out = IF op = "print" THEN <<"User">> ELSE <<"User", obj[layer]>>
    <3>1. ASSUME timestamp PROVE op = "printWithTimestamp" /\ out = <<"User", obj[layer]>>
      BY <3>1, Joined
    <3>2. ASSUME ~timestamp PROVE op = "print" /\ out = <<"User">>
      <4>1. <<"User">> \in Seq({"User"})
        OBVIOUS
      <4> QED
        BY <3>2, <4>1, ConcatEmptySeq
    <3> HIDE DEF op, out
    <3> QED
      BY <3>1, <3>2
  <2> HIDE DEF op, out
  <2>5. CallPromise(n + 1)' /\ MixinRemembers(n + 2)'
    BY <2>1, <2>2, <2>3, <2>4, PrintKeepsMixin
  <2> QED
    BY <2>1, <2>5, CallKeeps DEF Remembers, ObjectNames
<1>17. ASSUME NEW derived, Example(derived) PROVE PatternIInv'
  <2>1. /\ Recorded' /\ Adds(n, "example", derived, <<derived>>) /\ pattern = "crtp" /\ pattern' = "crtp"
    BY <1>1, <1>2, <1>17, DoesAdds DEF Example
  <2>2. CallPromise(n + 1)'
    BY <2>1, ExampleKeepsPromise
  <2> QED
    BY <2>1, <2>2, CallKeeps DEF Remembers, ObjectNames
<1>18. ASSUME NEW op \in {"value", "reference", "polymorphic"}, NEW out, Adds(n, op, NoText, out), Recorded',
              pattern = "slicing", pattern' = "slicing", obj' = obj,
              \/ op = "value" /\ out = <<availableFunds(Sliced(obj))>>
              \/ op = "reference" /\ out = <<availableFunds(obj)>>
              \/ op = "polymorphic" /\ out = <<availableFunds(obj), availableFunds([obj EXCEPT !.balance = 0])>>
       PROVE  PatternIInv'
  <2>1. AccountRemembers
    BY <1>3, <1>18 DEF Remembers
  <2>2. CallPromise(n + 1)' /\ AccountRemembers'
    BY <1>18, <2>1, PrintsKeepAccount
  <2> QED
    BY <1>18, <2>2, CallKeeps DEF Remembers, ObjectNames
<1>19. ASSUME PrintByValue PROVE PatternIInv'
  <2> DEFINE out == <<availableFunds(Sliced(obj))>>
  <2>1. /\ Recorded' /\ Adds(n, "value", NoText, out) /\ pattern = "slicing" /\ pattern' = "slicing"
        /\ obj' = obj
    BY <1>1, <1>2, <1>19, DoesAdds DEF PrintByValue
  <2> QED
    BY <1>18, <2>1
<1>20. ASSUME PrintByReference PROVE PatternIInv'
  <2> DEFINE out == <<availableFunds(obj)>>
  <2>1. /\ Recorded' /\ Adds(n, "reference", NoText, out) /\ pattern = "slicing" /\ pattern' = "slicing"
        /\ obj' = obj
    BY <1>1, <1>2, <1>20, DoesAdds DEF PrintByReference
  <2> QED
    BY <1>18, <2>1
<1>21. ASSUME PrintByValuePolymorphic PROVE PatternIInv'
  <2> DEFINE out == <<availableFunds(obj), availableFunds([obj EXCEPT !.balance = 0])>>
  <2>1. /\ Recorded' /\ Adds(n, "polymorphic", NoText, out) /\ pattern = "slicing" /\ pattern' = "slicing"
        /\ obj' = obj
    BY <1>1, <1>2, <1>21, DoesAdds DEF PrintByValuePolymorphic
  <2> QED
    BY <1>18, <2>1
<1> QED
  BY <1>4, <1>5, <1>6, <1>7, <1>8, <1>9, <1>10, <1>11, <1>12, <1>13, <1>14, <1>15, <1>16, <1>17,
     <1>19, <1>20, <1>21 DEF DispatchPatternsNext

\* A history that rests is what it was.
LEMMA HistoryRests ==
    ASSUME PatternIInv, UNCHANGED historyVars
    PROVE  PatternIInv'
<1>1. calls' = calls /\ effects' = effects /\ obj' = obj /\ pattern' = pattern
  BY DEF historyVars
<1>2. \A i, o : Earlier(i, o)' = Earlier(i, o)
  BY <1>1 DEF Earlier
<1>3. \A i, o : LatestAt(i, o)' = LatestAt(i, o)
  BY <1>2 DEF LatestAt
<1>4. \A i, o, d : Latest(i, o, d)' = Latest(i, o, d)
  BY <1>1, <1>2, <1>3 DEF Latest
<1>5. \A i : Filters(i)' = Filters(i)
  BY <1>1, <1>2 DEF Filters
<1>6. \A i : Stops(i)' <=> Stops(i)
  BY <1>1, <1>5 DEF Stops
<1>7. \A i, o, j : /\ Place(Earlier(i, o), j)' = Place(Earlier(i, o), j)
                   /\ PlaceFromLast(Earlier(i, o), j)' = PlaceFromLast(Earlier(i, o), j)
  BY <1>2 DEF Place, PlaceFromLast
<1>8. Recorded'
  BY <1>1 DEF Recorded, PatternIInv
<1>9. ASSUME NEW i, ObjectPromise(i) PROVE ObjectPromise(i)'
  <2>1. ClickPromise(i) => ClickPromise(i)'
    BY <1>1, <1>4 DEF ClickPromise
  <2>2. SetTempPromise(i) => SetTempPromise(i)'
    BY <1>1, <1>2, <1>7 DEF SetTempPromise
  <2>3. RenderPromise(i) => RenderPromise(i)'
    BY <1>1 DEF RenderPromise
  <2>4. GetTypePromise(i) => GetTypePromise(i)'
    BY <1>1 DEF GetTypePromise
  <2>5. BuildPromise(i) => BuildPromise(i)'
    <3>1. [part \in Parts |-> Latest(i, part, NoText)]' = [part \in Parts |-> Latest(i, part, NoText)]
      BY <1>4
    <3> QED
      BY <1>1, <3>1 DEF BuildPromise
  <2>6. GetLevelPromise(i) => GetLevelPromise(i)'
    BY <1>1, <1>4 DEF GetLevelPromise
  <2> QED
    BY <1>1, <1>9, <2>1, <2>2, <2>3, <2>4, <2>5, <2>6 DEF ObjectPromise
<1>10. ASSUME NEW i, CallPromise(i) PROVE CallPromise(i)'
  <2>1. ExportPromise(i) => ExportPromise(i)'
    BY <1>1, <1>2, <1>5, <1>6, <1>7 DEF ExportPromise
  <2>2. NavigatePromise(i) => NavigatePromise(i)'
    BY <1>1, <1>4 DEF NavigatePromise
  <2>3. LogPromise(i) => LogPromise(i)'
    BY <1>1, <1>2, <1>7 DEF LogPromise
  <2>4. CreateNodePromise(i) => CreateNodePromise(i)'
    BY <1>1 DEF CreateNodePromise
  <2>5. ProviderPromise(i) => ProviderPromise(i)'
    BY <1>1, <1>4 DEF ProviderPromise
  <2>6. TimestampPromise(i) => TimestampPromise(i)'
    BY <1>1, <1>3 DEF TimestampPromise
  <2>7. ExamplePromise(i) => ExamplePromise(i)'
    BY <1>1 DEF ExamplePromise
  <2>8. SlicingPromise(i) => SlicingPromise(i)'
    BY <1>1 DEF SlicingPromise
  <2> QED
    BY <1>1, <1>10, <2>1, <2>2, <2>3, <2>4, <2>5, <2>6, <2>7, <2>8 DEF CallPromise
<1>11. ASSUME NEW k, Remembers(k) PROVE Remembers(k)'
  <2>1. DialogRemembers(k) => DialogRemembers(k)'
    BY <1>1, <1>4 DEF DialogRemembers
  <2>2. StationRemembers(k) => StationRemembers(k)'
    BY <1>1, <1>2, <1>7 DEF StationRemembers, Listed
  <2>3. ProxyRemembers(k) => ProxyRemembers(k)'
    BY <1>1 DEF ProxyRemembers
  <2>4. ParticlesRemember(k) => ParticlesRemember(k)'
    <3>1. AskedTypes(k)' = AskedTypes(k)
      BY <1>1 DEF AskedTypes
    <3> QED
      BY <1>1, <3>1 DEF ParticlesRemember
  <2>5. BuilderRemembers(k) => BuilderRemembers(k)'
    BY <1>1, <1>4 DEF BuilderRemembers
  <2>6. LoggerRemembers(k) => LoggerRemembers(k)'
    BY <1>1, <1>4 DEF LoggerRemembers
  <2>7. ChainRemembers(k) => ChainRemembers(k)'
    BY <1>1, <1>2, <1>7 DEF ChainRemembers
  <2>8. NavigatorRemembers(k) => NavigatorRemembers(k)'
    BY <1>1, <1>4 DEF NavigatorRemembers
  <2>9. LoggersRemember(k) => LoggersRemember(k)'
    BY <1>1, <1>2, <1>7 DEF LoggersRemember, Listed
  <2>10. FactoryRemembers(k) => FactoryRemembers(k)'
    BY <1>1, <1>4 DEF FactoryRemembers
  <2>11. MixinRemembers(k) => MixinRemembers(k)'
    BY <1>1, <1>2, <1>3 DEF MixinRemembers
  <2>12. AccountRemembers => AccountRemembers'
    BY <1>1 DEF AccountRemembers
  <2> QED
    BY <1>1, <1>11, <2>1, <2>2, <2>3, <2>4, <2>5, <2>6, <2>7, <2>8, <2>9, <2>10, <2>11, <2>12 DEF Remembers
<1>12. Len(calls)' = Len(calls)
  BY <1>1
<1>13. PICK n : n = Len(calls)
  OBVIOUS
<1>14. Remembers(n + 1)'
  BY <1>11, <1>13 DEF PatternIInv
<1> QED
  BY <1>1, <1>8, <1>9, <1>10, <1>12, <1>13, <1>14 DEF PatternIInv

-----------------------------------------------------------------------------
(* Sums.  SumFunction is a fold, which takes the members of the domain in  *)
(* an order of its own: it is the value of any function on subsets that    *)
(* gives 0 to none and may leave out any member.                           *)

\* g adds up w over the subsets of D, whichever member is taken first.
Totals(g, D, w) ==
    /\ g \in [SUBSET D -> Int] /\ g[{}] = 0
    /\ \A T \in SUBSET D : \A x \in T : g[T] = w[x] + g[T \ {x}]

\* Integers are added in any order.
LEMMA EitherFirst == ASSUME NEW a \in Int, NEW b \in Int, NEW c \in Int PROVE a + (b + c) = b + (a + c)
OBVIOUS

\* A family of sets that is not empty has a smallest one, when they are finite.
LEMMA SmallestSet ==
    ASSUME NEW F, F # {}, \A D \in F : IsFiniteSet(D)
    PROVE  \E D \in F : \A C \in F : Cardinality(D) <= Cardinality(C)
<1> DEFINE Sizes == {Cardinality(D) : D \in F}
<1>1. Sizes \in SUBSET Nat /\ Sizes # {}
  BY FS_CardinalityType
<1>2. PICK n \in Sizes : \A m \in Sizes : n <= m
  <2> HIDE DEF Sizes
  <2> QED
    BY <1>1, Smallest
<1> QED
  BY <1>2

\* A set without a member of it is not as large.
LEMMA SmallerSet ==
    ASSUME NEW D, IsFiniteSet(D), NEW x \in D
    PROVE  IsFiniteSet(D \ {x}) /\ ~(Cardinality(D) <= Cardinality(D \ {x}))
<1>1. Cardinality(D \ {x}) = Cardinality(D) - 1 /\ IsFiniteSet(D \ {x})
  BY FS_RemoveElement
<1>2. Cardinality(D) \in Nat
  BY FS_CardinalityType
<1> QED
  BY <1>1, <1>2

\* The integers of a finite set add up, in any order.
LEMMA SumExists ==
    ASSUME NEW E, IsFiniteSet(E), NEW w \in [E -> Int]
    PROVE  \E g : Totals(g, E, w)
<1> DEFINE Bad == {D \in SUBSET E : ~\E g : Totals(g, D, w)}
<1>1. \A D \in SUBSET E : IsFiniteSet(D)
  BY FS_Subset
<1>2. SUFFICES ASSUME E \in Bad PROVE FALSE
  OBVIOUS
<1>3. PICK D \in Bad : \A C \in Bad : Cardinality(D) <= Cardinality(C)
  <2>1. Bad # {} /\ \A D \in Bad : IsFiniteSet(D)
    BY <1>1, <1>2
  <2> HIDE DEF Bad
  <2> QED
    BY <2>1, SmallestSet
<1>4. D # {}
  <2>1. Totals([T \in SUBSET {} |-> 0], {}, w)
    BY DEF Totals
  <2> QED
    BY <2>1
<1>5. PICK x \in D : TRUE
  BY <1>4
<1>6. D \ {x} \notin Bad
  <2>1. ~(Cardinality(D) <= Cardinality(D \ {x}))
    BY <1>1, SmallerSet
  <2> HIDE DEF Bad
  <2> QED
    BY <1>3, <2>1
<1>7. PICK g : Totals(g, D \ {x}, w)
  BY <1>6
<1> DEFINE h == [T \in SUBSET D |-> IF x \in T THEN w[x] + g[T \ {x}] ELSE g[T]]
<1>8. w[x] \in Int /\ \A T \in SUBSET D : T \ {x} \in SUBSET (D \ {x}) /\ g[T \ {x}] \in Int
  BY <1>7 DEF Totals
<1>9. h \in [SUBSET D -> Int]
  <2>1. \A T \in SUBSET D : x \notin T => g[T] \in Int
    BY <1>7 DEF Totals
  <2> QED
    BY <1>8, <2>1
<1>10. h[{}] = 0
  BY <1>7 DEF Totals
<1>11. ASSUME NEW T \in SUBSET D, NEW y \in T PROVE h[T] = w[y] + h[T \ {y}]
  <2>1. T \ {y} \in SUBSET D
    OBVIOUS
  <2>2. CASE y = x
    <3>1. h[T] = w[x] + g[T \ {x}] /\ h[T \ {x}] = g[T \ {x}]
      BY <2>1, <2>2
    <3> HIDE DEF h
    <3> QED
      BY <2>2, <3>1
  <2>3. CASE y # x /\ x \in T
    <3> DEFINE rest == g[(T \ {x}) \ {y}]
    <3>1. h[T] = w[x] + g[T \ {x}] /\ h[T \ {y}] = w[x] + g[(T \ {y}) \ {x}]
      BY <2>1, <2>3
    <3>2. (T \ {y}) \ {x} = (T \ {x}) \ {y}
      OBVIOUS
    <3>3. g[T \ {x}] = w[y] + rest
      BY <1>7, <1>8, <2>3 DEF Totals
    <3>4. w[y] \in Int /\ w[x] \in Int /\ rest \in Int
      BY <1>7, <1>8 DEF Totals
    <3>5. h[T] = w[x] + (w[y] + rest) /\ h[T \ {y}] = w[x] + rest
      <4> HIDE DEF h
      <4> QED
        BY <3>1, <3>2, <3>3
    <3> HIDE DEF h, rest
    <3>6. w[x] + (w[y] + rest) = w[y] + (w[x] + rest)
      BY <3>4, EitherFirst
    <3> QED
      BY <3>5, <3>6
  <2>4. CASE x \notin T
    <3>1. h[T] = g[T] /\ h[T \ {y}] = g[T \ {y}]
      BY <2>1, <2>4
    <3>2. g[T] = w[y] + g[T \ {y}]
      BY <1>7, <2>4 DEF Totals
    <3> HIDE DEF h
    <3> QED
      BY <3>1, <3>2
  <2> QED
    BY <2>2, <2>3, <2>4
<1>12. Totals(h, D, w)
  <2> HIDE DEF h
  <2> QED
    BY <1>9, <1>10, <1>11 DEF Totals
<1> QED
  BY <1>12

\* The fold takes the members of the domain in the order of CHOOSE.
LEMMA SumChooses ==
    ASSUME NEW s
    PROVE  SumFunction(s) = (CHOOSE g : g = [T \in SUBSET DOMAIN s |->
             IF T = {} THEN 0 ELSE s[CHOOSE x \in T : TRUE] + g[T \ {CHOOSE x \in T : TRUE}]])[DOMAIN s]
BY DEF SumFunction, SumFunctionOnSet, FoldFunctionOnSet, MapThenFoldSet

\* SumFunction is the sum of the values, whatever is taken first.
LEMMA SumIs ==
    ASSUME NEW D, IsFiniteSet(D), NEW w \in [D -> Int], NEW g, Totals(g, D, w),
           NEW s, DOMAIN s \subseteq D, \A i \in DOMAIN s : w[i] = s[i]
    PROVE  SumFunction(s) = g[DOMAIN s]
<1> DEFINE P == DOMAIN s
           first(T) == CHOOSE x \in T : TRUE
           Body(f) == [T \in SUBSET P |-> IF T = {} THEN 0 ELSE s[first(T)] + f[T \ {first(T)}]]
           c == CHOOSE f : f = Body(f)
           r == [T \in SUBSET P |-> g[T]]
<1>1. SumFunction(s) = c[P]
  BY SumChooses
<1>2. ASSUME NEW T \in SUBSET P, T # {}
      PROVE  /\ first(T) \in T /\ T \ {first(T)} \in SUBSET P
             /\ g[T] = s[first(T)] + g[T \ {first(T)}]
  <2>1. first(T) \in T
    BY <1>2
  <2> HIDE DEF first
  <2>2. /\ T \in SUBSET D /\ w[first(T)] \in Int /\ g[T \ {first(T)}] \in Int
        /\ w[first(T)] = s[first(T)]
    BY <2>1 DEF Totals
  <2>3. g[T] = w[first(T)] + g[T \ {first(T)}]
    BY <2>1, <2>2 DEF Totals
  <2> QED
    BY <2>1, <2>2, <2>3
<1> HIDE DEF first
<1>3. r = Body(r)
  <2>1. g[{}] = 0
    BY DEF Totals
  <2>2. ASSUME NEW T \in SUBSET P
        PROVE  r[T] = (IF T = {} THEN 0 ELSE s[first(T)] + r[T \ {first(T)}])
    BY <1>2, <2>1
  <2> QED
    BY <2>2
<1>4. c = Body(c)
  <2> HIDE DEF Body, r
  <2> QED
    BY <1>3
<1> HIDE DEF c
<1>5. \A T \in SUBSET P : c[T] = (IF T = {} THEN 0 ELSE s[first(T)] + c[T \ {first(T)}])
  BY <1>4
<1>6. \A T \in SUBSET P : c[T] = g[T]
  <2> DEFINE Bad == {T \in SUBSET P : c[T] # g[T]}
  <2>1. \A T \in Bad : IsFiniteSet(T)
    BY FS_Subset
  <2>2. SUFFICES ASSUME Bad # {} PROVE FALSE
    OBVIOUS
  <2>3. PICK T \in Bad : \A C \in Bad : Cardinality(T) <= Cardinality(C)
    <3> HIDE DEF Bad
    <3> QED
      BY <2>1, <2>2, SmallestSet
  <2>4. T # {}
    BY <1>5, <2>3 DEF Totals
  <2>5. first(T) \in T /\ T \ {first(T)} \in SUBSET P
    BY <1>2, <2>4
  <2>6. T \ {first(T)} \notin Bad
    <3>1. ~(Cardinality(T) <= Cardinality(T \ {first(T)}))
      BY <2>1, <2>5, SmallerSet
    <3> HIDE DEF Bad
    <3> QED
      BY <2>3, <3>1
  <2>7. c[T \ {first(T)}] = g[T \ {first(T)}]
    BY <2>5, <2>6
  <2>8. c[T] = s[first(T)] + c[T \ {first(T)}]
    BY <1>5, <2>4
  <2>9. g[T] = s[first(T)] + g[T \ {first(T)}]
    BY <1>2, <2>4
  <2> QED
    BY <2>7, <2>8, <2>9
<1> QED
  BY <1>1, <1>6

\* A sum without a value is 0.
LEMMA SumOfNone == ASSUME NEW s, DOMAIN s = {} PROVE SumFunction(s) = 0
<1> DEFINE D == {}
           w == [i \in D |-> 0]
           g == [T \in SUBSET D |-> 0]
<1>1. Totals(g, D, w) /\ w \in [D -> Int] /\ g[{}] = 0
  BY DEF Totals
<1>2. IsFiniteSet(D)
  BY FS_EmptySet
<1>3. DOMAIN s \subseteq D /\ \A i \in DOMAIN s : w[i] = s[i]
  OBVIOUS
<1> HIDE DEF D, w, g
<1>4. SumFunction(s) = g[DOMAIN s]
  BY <1>1, <1>2, <1>3, SumIs
<1> QED
  BY <1>1, <1>4

\* A value x more adds w[x].
LEMMA SumAddsOne ==
    ASSUME NEW D, IsFiniteSet(D), NEW w \in [D -> Int], NEW x \in D
    PROVE  LET v == [y \in D \ {x} |-> w[y]]
           IN  SumFunction(v) \in Int /\ SumFunction(w) = w[x] + SumFunction(v)
<1> DEFINE v == [y \in D \ {x} |-> w[y]]
<1>1. PICK g : Totals(g, D, w)
  BY SumExists
<1>2. SumFunction(w) = g[D]
  <2>1. DOMAIN w = D /\ DOMAIN w \subseteq D /\ \A i \in DOMAIN w : w[i] = w[i]
    OBVIOUS
  <2>2. SumFunction(w) = g[DOMAIN w]
    BY <1>1, <2>1, SumIs
  <2> QED
    BY <2>1, <2>2
<1>3. SumFunction(v) = g[D \ {x}]
  <2>1. DOMAIN v \subseteq D /\ \A i \in DOMAIN v : w[i] = v[i]
    OBVIOUS
  <2>2. SumFunction(v) = g[DOMAIN v]
    <3> HIDE DEF v
    <3> QED
      BY <1>1, <2>1, SumIs
  <2>3. DOMAIN v = D \ {x}
    OBVIOUS
  <2> QED
    BY <2>2, <2>3
<1>4. g[D \ {x}] \in Int /\ g[D] = w[x] + g[D \ {x}]
  BY <1>1 DEF Totals
<1> HIDE DEF v
<1>5. SumFunction(v) \in Int /\ SumFunction(w) = w[x] + SumFunction(v)
  BY <1>2, <1>3, <1>4
<1> QED
  BY <1>5 DEF v

\* What an injection maps the members of T to, and of T without x.
LEMMA ImageWithout ==
    ASSUME NEW D, NEW p, \A x, y \in D : p[x] = p[y] => x = y, NEW T \in SUBSET D, NEW x \in T
    PROVE  {p[y] : y \in T \ {x}} = {p[y] : y \in T} \ {p[x]}
OBVIOUS

\* Values that change places have the same sum.
LEMMA SumRearranged ==
    ASSUME NEW D, NEW E, IsFiniteSet(D), IsFiniteSet(E), NEW w \in [E -> Int],
           NEW p \in [D -> E], \A x, y \in D : p[x] = p[y] => x = y, \A z \in E : \E x \in D : p[x] = z,
           NEW v, v = [x \in D |-> w[p[x]]]
    PROVE  SumFunction(v) = SumFunction(w)
<1> DEFINE image(T) == {p[y] : y \in T}
<1>1. PICK g : Totals(g, E, w)
  BY SumExists
<1>2. image(D) = E /\ image({}) = {} /\ \A T \in SUBSET D : image(T) \in SUBSET E
  OBVIOUS
<1> DEFINE h == [T \in SUBSET D |-> g[image(T)]]
<1>3. Totals(h, D, v)
  <2>1. h \in [SUBSET D -> Int] /\ h[{}] = 0
    BY <1>1, <1>2 DEF Totals
  <2>2. ASSUME NEW T \in SUBSET D, NEW x \in T PROVE h[T] = v[x] + h[T \ {x}]
    <3>1. image(T \ {x}) = image(T) \ {p[x]}
      BY ImageWithout
    <3>2. p[x] \in image(T) /\ image(T) \in SUBSET E
      BY <1>2
    <3> HIDE DEF image
    <3>3. g[image(T)] = w[p[x]] + g[image(T) \ {p[x]}]
      BY <1>1, <3>2 DEF Totals
    <3>4. v[x] = w[p[x]] /\ h[T] = g[image(T)] /\ h[T \ {x}] = g[image(T \ {x})]
      OBVIOUS
    <3> HIDE DEF h
    <3> QED
      BY <3>1, <3>3, <3>4
  <2> HIDE DEF h
  <2> QED
    BY <2>1, <2>2 DEF Totals
<1>4. v \in [D -> Int] /\ h[D] = g[E]
  BY <1>2
<1> HIDE DEF h, image
<1>5. SumFunction(v) = h[D]
  <2>1. DOMAIN v = D /\ DOMAIN v \subseteq D /\ \A i \in DOMAIN v : v[i] = v[i]
    BY <1>4
  <2>2. SumFunction(v) = h[DOMAIN v]
    BY <1>3, <1>4, <2>1, SumIs
  <2> QED
    BY <2>1, <2>2
<1>6. SumFunction(w) = g[E]
  <2>1. DOMAIN w = E /\ DOMAIN w \subseteq E /\ \A i \in DOMAIN w : w[i] = w[i]
    OBVIOUS
  <2>2. SumFunction(w) = g[DOMAIN w]
    BY <1>1, <2>1, SumIs
  <2> QED
    BY <2>1, <2>2
<1> QED
  BY <1>4, <1>5, <1>6

-----------------------------------------------------------------------------
(* Remainders.                                                             *)

\* A remainder is less than the divisor.
LEMMA RemainderType ==
    ASSUME NEW n \in Nat \ {0}, NEW a \in Int
    PROVE  a % n \in 0 .. n - 1
OBVIOUS

\* What is less than the divisor is its own remainder.
LEMMA RemainderOfSmall ==
    ASSUME NEW n \in Nat \ {0}, NEW a \in 0 .. n - 1
    PROVE  a % n = a
OBVIOUS

\* Quotient and remainder.
LEMMA Division ==
    ASSUME NEW n \in Nat \ {0}, NEW a \in Int
    PROVE  a \div n \in Int /\ a = n * (a \div n) + (a % n)
OBVIOUS

\* Quotient and remainder are unique.
LEMMA RemainderIs ==
    ASSUME NEW n \in Nat \ {0}, NEW d \in Int, NEW r \in 0 .. n - 1
    PROVE  (n * d + r) % n = r
OBVIOUS

\* A multiple of the divisor more leaves the same remainder.
LEMMA MultipleMore ==
    ASSUME NEW n \in Nat \ {0}, NEW a \in Int, NEW d \in Int
    PROVE  (a + n * d) % n = a % n
<1> DEFINE q == a \div n
           r == a % n
<1>1. r \in 0 .. n - 1 /\ q \in Int /\ a = n * q + r
  BY RemainderType, Division
<1> HIDE DEF q, r
<1>2. n * q \in Int /\ n * d \in Int /\ n * (q + d) = n * q + n * d /\ q + d \in Int /\ r \in Int
  BY <1>1
<1>3. a + n * d = n * (q + d) + r
  BY <1>1, <1>2
<1>4. (n * (q + d) + r) % n = r
  BY <1>1, <1>2, RemainderIs
<1> QED
  BY <1>3, <1>4 DEF r

\* The divisor more leaves the same remainder.
LEMMA DivisorMore ==
    ASSUME NEW n \in Nat \ {0}, NEW a \in Int
    PROVE  (a + n) % n = a % n
<1>1. PICK d \in Int : n * d = n
  <2>1. n * 1 = n /\ 1 \in Int
    OBVIOUS
  <2> QED
    BY <2>1
<1>2. (a + n * d) % n = a % n
  BY MultipleMore
<1> QED
  BY <1>1, <1>2

\* A sum has the remainder of the sum with a remainder.
LEMMA RemainderOfSum ==
    ASSUME NEW n \in Nat \ {0}, NEW a \in Int, NEW b \in Int
    PROVE  ((a % n) + b) % n = (a + b) % n
<1> DEFINE q == a \div n
           r == a % n
<1>1. r \in 0 .. n - 1 /\ q \in Int /\ a = n * q + r /\ n * q \in Int
  BY RemainderType, Division
<1> HIDE DEF q, r
<1>2. a + b = (r + b) + n * q /\ r + b \in Int
  BY <1>1
<1>3. ((r + b) + n * q) % n = (r + b) % n
  BY <1>1, <1>2, MultipleMore
<1> QED
  BY <1>2, <1>3 DEF r

\* A remainder by a multiple of the divisor has the remainder of the dividend.
LEMMA RemainderByMultiple ==
    ASSUME NEW n \in Nat \ {0}, NEW m \in Nat \ {0}, m % n = 0, NEW a \in Int
    PROVE  (a % m) % n = a % n
<1> DEFINE k == m \div n
           q == a \div m
           r == a % m
<1>1. k \in Int /\ m = n * k
  BY Division
<1>2. q \in Int /\ a = m * q + r /\ r \in Int
  BY Division, RemainderType
<1> HIDE DEF k, q, r
<1>3. m * q = n * (k * q) /\ k * q \in Int
  BY <1>1, <1>2
<1>4. a = r + n * (k * q)
  BY <1>2, <1>3
<1>5. (r + n * (k * q)) % n = r % n
  BY <1>2, <1>3, MultipleMore
<1> QED
  BY <1>4, <1>5 DEF r

\* The remainder as an operator of its own: its operands are then found by the
\* provers whatever arithmetic they are made of.
Rem(a, n) == a % n

\* The remainder of a with b added, when they are c and the divisor more.
LEMMA SumMore ==
    ASSUME NEW n \in Nat \ {0}, NEW a \in Int, NEW b \in Int, NEW c \in Int, a + b = c + n
    PROVE  Rem(Rem(a, n) + b, n) = Rem(c, n)
<1>1. ((a % n) + b) % n = (a + b) % n
  BY RemainderOfSum
<1>2. (c + n) % n = c % n
  BY DivisorMore
<1> QED
  BY <1>1, <1>2 DEF Rem

-----------------------------------------------------------------------------
(* The ring.  A ball that is at position i after t steps began t positions *)
(* before; the balls after t steps are those of TotalAfter, rotated.       *)

\* The marks that a ball leaves are finitely many.
LEMMA MarksFinite ==
    ASSUME NEW r, NEW i, NEW t \in Nat
    PROVE  IsFiniteSet(MarksLeft(r, i, t)) /\ Cardinality(MarksLeft(r, i, t)) \in Nat
<1>1. IsFiniteSet(0 .. t - 1)
  BY FS_Interval
<1>2. MarksLeft(r, i, t) \subseteq 0 .. t - 1
  BY DEF MarksLeft
<1> QED
  BY <1>1, <1>2, FS_Subset, FS_CardinalityType

\* One more is odd when one less is even.
LEMMA ParityFlips == ASSUME NEW c \in Nat PROVE ((c + 1) % 2 = 0) = (c % 2 # 0)
OBVIOUS

\* A ball is white or black, and flips when it leaves a mark.
LEMMA BallFlips ==
    ASSUME NEW r, NEW i \in Int, NEW t \in Nat
    PROVE  /\ BallAfter(r, i, t) \in {1, -1}
           /\ BallAfter(r, i, t + 1) =
                IF (i + t) % r.N \in r.marked THEN - BallAfter(r, i, t) ELSE BallAfter(r, i, t)
<1> DEFINE before == MarksLeft(r, i, t)
           after == MarksLeft(r, i, t + 1)
<1>1. IsFiniteSet(before) /\ Cardinality(before) \in Nat
  BY MarksFinite
<1>2. 0 .. (t + 1) - 1 = (0 .. t - 1) \cup {t} /\ t \notin 0 .. t - 1
  OBVIOUS
<1>3. t \notin before /\ after = IF (i + t) % r.N \in r.marked THEN before \cup {t} ELSE before
  BY <1>2 DEF MarksLeft
<1> HIDE DEF before, after
<1>4. CASE (i + t) % r.N \in r.marked
  <2>1. Cardinality(after) = Cardinality(before) + 1
    BY <1>1, <1>3, <1>4, FS_AddElement
  <2>2. (Cardinality(after) % 2 = 0) = (Cardinality(before) % 2 # 0)
    BY <1>1, <2>1, ParityFlips
  <2> QED
    BY <1>4, <2>2 DEF BallAfter, before, after
<1>5. CASE (i + t) % r.N \notin r.marked
  BY <1>3, <1>5 DEF BallAfter, before, after
<1> QED
  BY <1>4, <1>5

\* At first every ball is white.
LEMMA BallAtFirst == ASSUME NEW r, NEW i PROVE BallAfter(r, i, 0) = 1
<1>1. MarksLeft(r, i, 0) = {}
  BY DEF MarksLeft
<1>2. Cardinality(MarksLeft(r, i, 0)) = 0
  BY <1>1, FS_EmptySet
<1> QED
  BY <1>2 DEF BallAfter

\* Where the ball at position i after t steps began.
Start(r, i, t) == (i + Period(r) - t) % r.N

\* One position and one step back lead to the same start.
LEMMA BackToStart ==
    ASSUME NEW n \in Nat \ {0}, NEW i \in Int, NEW t \in Int, NEW p \in Int, p = n + n
    PROVE  /\ Rem(i + n - 1, n) \in 0 .. n - 1
           /\ Rem(Rem(i + n - 1, n) + p - (t - 1), n) = Rem(i + p - t, n)
           /\ Rem(Rem(i + p - t, n) + (t - 1), n) = Rem(i + n - 1, n)
<1>1. /\ i + n - 1 \in Int /\ p - (t - 1) \in Int /\ i + p - t \in Int /\ t - 1 \in Int
      /\ (i + n - 1) + (p - (t - 1)) = (i + p - t) + n
      /\ (i + p - t) + (t - 1) = (i + n - 1) + n
  OBVIOUS
<1>2. \A a, b, c \in Int : a + b = c + n => Rem(Rem(a, n) + b, n) = Rem(c, n)
  BY SumMore
<1>3. \A a \in Int : Rem(a, n) \in 0 .. n - 1
  BY RemainderType DEF Rem
<1>4. Rem(Rem(i + n - 1, n) + (p - (t - 1)), n) = Rem(i + p - t, n)
  BY <1>1, <1>2
<1>5. Rem(Rem(i + p - t, n) + (t - 1), n) = Rem(i + n - 1, n)
  BY <1>1, <1>2
<1>6. Rem(i + n - 1, n) \in 0 .. n - 1
  BY <1>1, <1>3
<1>7. Rem(i + n - 1, n) + p - (t - 1) = Rem(i + n - 1, n) + (p - (t - 1))
  BY <1>6
<1> QED
  BY <1>4, <1>5, <1>6, <1>7

\* The ball at position i after t steps was one position before it earlier.
LEMMA OnePositionBefore ==
    ASSUME NEW r, r.N \in Nat \ {0}, NEW i \in Positions(r), NEW t \in 1 .. Period(r)
    PROVE  LET from == (i + r.N - 1) % r.N
           IN  /\ from \in Positions(r) /\ Start(r, from, t - 1) = Start(r, i, t)
               /\ (Start(r, i, t) + (t - 1)) % r.N = from
<1>1. i \in Int /\ t \in Int /\ Period(r) \in Int /\ Period(r) = r.N + r.N
  BY DEF Positions, Period
<1>2. /\ Rem(i + r.N - 1, r.N) \in 0 .. r.N - 1
      /\ Rem(Rem(i + r.N - 1, r.N) + Period(r) - (t - 1), r.N) = Rem(i + Period(r) - t, r.N)
      /\ Rem(Rem(i + Period(r) - t, r.N) + (t - 1), r.N) = Rem(i + r.N - 1, r.N)
  BY <1>1, BackToStart
<1> QED
  BY <1>2 DEF Rem, Start, Positions

\* The balls of the constructor are those that began t positions before.
LEMMA BallsAre ==
    ASSUME NEW r, r.N \in Nat \ {0}, NEW t \in 0 .. Period(r)
    PROVE  Balls(r)[t] = [i \in Positions(r) |-> BallAfter(r, Start(r, i, t), t)]
<1> DEFINE T == 0 .. Period(r)
           from(i) == (i + r.N - 1) % r.N
           Body(f) == [u \in T |->
              IF u = 0 THEN [i \in Positions(r) |-> 1]
              ELSE [i \in Positions(r) |->
                      IF from(i) \in r.marked THEN - f[u - 1][from(i)] ELSE f[u - 1][from(i)]]]
           b == [u \in T |-> [i \in Positions(r) |-> BallAfter(r, Start(r, i, u), u)]]
           c == CHOOSE f : f = Body(f)
<1>1. Balls(r) = c
  BY DEF Balls
<1>2. Period(r) \in Nat /\ T \in SUBSET Nat
  BY DEF Period
<1>3. b = Body(b)
  <2> SUFFICES ASSUME NEW u \in T PROVE b[u] = Body(b)[u]
    OBVIOUS
  <2>1. CASE u = 0
    <3>1. \A i \in Positions(r) : BallAfter(r, Start(r, i, u), u) = 1
      BY <2>1, BallAtFirst
    <3> QED
      BY <2>1, <3>1
  <2>2. CASE u # 0
    <3>1. u \in 1 .. Period(r) /\ u - 1 \in Nat /\ u - 1 \in T /\ (u - 1) + 1 = u
      BY <1>2, <2>2
    <3>2. ASSUME NEW i \in Positions(r)
          PROVE  BallAfter(r, Start(r, i, u), u) =
                   IF from(i) \in r.marked THEN - b[u - 1][from(i)] ELSE b[u - 1][from(i)]
      <4>1. /\ from(i) \in Positions(r) /\ Start(r, from(i), u - 1) = Start(r, i, u)
            /\ (Start(r, i, u) + (u - 1)) % r.N = from(i)
        BY <3>1, OnePositionBefore
      <4>2. b[u - 1][from(i)] = BallAfter(r, Start(r, from(i), u - 1), u - 1)
        BY <3>1, <4>1
      <4>3. Start(r, i, u) \in Int
        <5>1. i + Period(r) - u \in Int
          BY <1>2, <3>1 DEF Positions
        <5> QED
          BY <5>1, RemainderType DEF Start
      <4>4. BallAfter(r, Start(r, i, u), (u - 1) + 1) =
              IF (Start(r, i, u) + (u - 1)) % r.N \in r.marked
                THEN - BallAfter(r, Start(r, i, u), u - 1) ELSE BallAfter(r, Start(r, i, u), u - 1)
        BY <3>1, <4>3, BallFlips
      <4> HIDE DEF b, from
      <4> QED
        BY <3>1, <4>1, <4>2, <4>4
    <3>3. Body(b)[u] = [i \in Positions(r) |->
             IF from(i) \in r.marked THEN - b[u - 1][from(i)] ELSE b[u - 1][from(i)]]
      <4> HIDE DEF b, from
      <4> QED
        BY <2>2
    <3>4. b[u] = [i \in Positions(r) |-> BallAfter(r, Start(r, i, u), u)]
      OBVIOUS
    <3> HIDE DEF b, from, Body
    <3> QED
      BY <3>2, <3>3, <3>4
  <2> QED
    BY <2>1, <2>2
<1>4. c = Body(c)
  <2> HIDE DEF Body, b
  <2> QED
    BY <1>3
<1> HIDE DEF c
<1>5. c[0] = b[0] /\ \A u \in T : u # 0 /\ c[u - 1] = b[u - 1] => c[u] = b[u]
  <2>1. ASSUME NEW f, f = Body(f)
        PROVE  /\ f[0] = [i \in Positions(r) |-> 1]
               /\ \A u \in T : u # 0 => f[u] = [i \in Positions(r) |->
                    IF from(i) \in r.marked THEN - f[u - 1][from(i)] ELSE f[u - 1][from(i)]]
    <3>1. 0 \in T
      BY <1>2
    <3>2. \A u \in T : f[u] = Body(f)[u]
      BY <2>1
    <3> HIDE DEF from, T
    <3> QED
      BY <3>1, <3>2
  <2> HIDE DEF from, Body, b
  <2>2. /\ c[0] = [i \in Positions(r) |-> 1]
        /\ \A u \in T : u # 0 => c[u] = [i \in Positions(r) |->
             IF from(i) \in r.marked THEN - c[u - 1][from(i)] ELSE c[u - 1][from(i)]]
    BY <1>4, <2>1
  <2>3. /\ b[0] = [i \in Positions(r) |-> 1]
        /\ \A u \in T : u # 0 => b[u] = [i \in Positions(r) |->
             IF from(i) \in r.marked THEN - b[u - 1][from(i)] ELSE b[u - 1][from(i)]]
    BY <1>3, <2>1
  <2>4. ASSUME NEW u \in T, u # 0, c[u - 1] = b[u - 1] PROVE c[u] = b[u]
    <3>1. /\ c[u] = [i \in Positions(r) |->
               IF from(i) \in r.marked THEN - c[u - 1][from(i)] ELSE c[u - 1][from(i)]]
          /\ b[u] = [i \in Positions(r) |->
               IF from(i) \in r.marked THEN - b[u - 1][from(i)] ELSE b[u - 1][from(i)]]
      BY <2>2, <2>3, <2>4
    <3> QED
      BY <2>4, <3>1
  <2> QED
    BY <2>2, <2>3, <2>4
<1>6. \A u \in T : c[u] = b[u]
  <2> DEFINE Bad == {u \in T : c[u] # b[u]}
  <2>1. SUFFICES ASSUME Bad # {} PROVE FALSE
    OBVIOUS
  <2>2. PICK u \in Bad : \A s \in Bad : u <= s
    <3>1. Bad \in SUBSET Nat
      BY <1>2
    <3> HIDE DEF Bad
    <3> QED
      BY <2>1, <3>1, Smallest
  <2> HIDE DEF b
  <2>3. u # 0 /\ u \in T
    BY <1>5, <2>2
  <2>4. u - 1 \in T /\ ~(u <= u - 1)
    BY <1>2, <2>3
  <2>5. u - 1 \notin Bad
    <3> HIDE DEF Bad
    <3> QED
      BY <2>2, <2>4
  <2> QED
    BY <1>5, <2>2, <2>3, <2>4, <2>5
<1> QED
  BY <1>1, <1>6

\* Going t steps back and on again, or on and back again, leads round the ring.
LEMMA RoundTrip ==
    ASSUME NEW n \in Nat \ {0}, NEW i \in 0 .. n - 1, NEW t \in Int, NEW p \in Int, p = n + n
    PROVE  /\ Rem(i + p - t, n) \in 0 .. n - 1 /\ Rem(Rem(i + p - t, n) + t, n) = i
           /\ Rem(i + t, n) \in 0 .. n - 1 /\ Rem(Rem(i + t, n) + p - t, n) = i
<1>1. /\ i + p - t \in Int /\ i + t \in Int /\ p - t \in Int /\ i + n \in Int /\ i \in Int
      /\ (i + p - t) + t = (i + n) + n /\ (i + t) + (p - t) = (i + n) + n
  OBVIOUS
<1>2. \A a, b, c \in Int : a + b = c + n => Rem(Rem(a, n) + b, n) = Rem(c, n)
  BY SumMore
<1>3. \A a \in Int : Rem(a, n) \in 0 .. n - 1
  BY RemainderType DEF Rem
<1>4. Rem(i + n, n) = i
  BY <1>1, DivisorMore, RemainderOfSmall DEF Rem
<1>5. Rem(Rem(i + p - t, n) + t, n) = Rem(i + n, n)
  BY <1>1, <1>2
<1>6. Rem(Rem(i + t, n) + (p - t), n) = Rem(i + n, n)
  BY <1>1, <1>2
<1>7. Rem(i + t, n) \in 0 .. n - 1 /\ Rem(i + p - t, n) \in 0 .. n - 1
  BY <1>1, <1>3
<1>8. Rem(i + t, n) + p - t = Rem(i + t, n) + (p - t)
  BY <1>7
<1> QED
  BY <1>4, <1>5, <1>6, <1>7, <1>8

\* What the constructor saves for t steps is the total after t steps.
LEMMA SavedIsTotal ==
    ASSUME NEW r, r.N \in Nat \ {0}, NEW t \in 0 .. Period(r) - 1
    PROVE  Saved(r)[t] = TotalAfter(r, t)
<1> DEFINE D == Positions(r)
           w == [i \in D |-> BallAfter(r, i, t)]
           p == [i \in D |-> Start(r, i, t)]
           v == [i \in D |-> w[p[i]]]
           on(z) == (z + t) % r.N
<1>1. IsFiniteSet(D)
  <2>1. 0 \in Int /\ r.N - 1 \in Int
    OBVIOUS
  <2> QED
    BY <2>1, FS_Interval DEF Positions
<1>2. t \in Nat /\ t \in 0 .. Period(r) /\ Period(r) \in Nat /\ Period(r) = r.N + r.N
  BY DEF Period
<1>3. w \in [D -> Int]
  <2>1. \A i \in D : i \in Int
    BY DEF Positions
  <2> QED
    BY <1>2, <2>1, BallFlips
<1>4. \A i \in D : /\ Start(r, i, t) \in D /\ on(Start(r, i, t)) = i
                   /\ on(i) \in D /\ Start(r, on(i), t) = i
  <2> SUFFICES ASSUME NEW i \in D
               PROVE  /\ Start(r, i, t) \in D /\ on(Start(r, i, t)) = i
                      /\ on(i) \in D /\ Start(r, on(i), t) = i
    OBVIOUS
  <2>1. /\ Rem(i + Period(r) - t, r.N) \in 0 .. r.N - 1 /\ Rem(Rem(i + Period(r) - t, r.N) + t, r.N) = i
        /\ Rem(i + t, r.N) \in 0 .. r.N - 1 /\ Rem(Rem(i + t, r.N) + Period(r) - t, r.N) = i
    <3>1. i \in 0 .. r.N - 1 /\ t \in Int /\ Period(r) \in Int
      BY <1>2 DEF Positions
    <3> HIDE DEF D, on
    <3> QED
      BY <1>2, <3>1, RoundTrip
  <2> QED
    BY <2>1 DEF Rem, Start, Positions
<1> HIDE DEF on
<1>5. p \in [D -> D] /\ (\A x, y \in D : p[x] = p[y] => x = y) /\ \A z \in D : \E x \in D : p[x] = z
  <2>1. p \in [D -> D] /\ \A x \in D : p[x] = Start(r, x, t)
    BY <1>4
  <2> HIDE DEF p
  <2>2. \A x, y \in D : p[x] = p[y] => x = y
    BY <1>4, <2>1
  <2>3. \A z \in D : \E x \in D : p[x] = z
    BY <1>4, <2>1
  <2> QED
    BY <2>1, <2>2, <2>3
<1>6. Balls(r)[t] = v
  <2>1. Balls(r)[t] = [i \in D |-> BallAfter(r, Start(r, i, t), t)]
    BY <1>2, BallsAre
  <2>2. \A i \in D : w[p[i]] = BallAfter(r, Start(r, i, t), t)
    BY <1>4
  <2> HIDE DEF w, p
  <2> QED
    BY <2>1, <2>2
<1>7. SumFunction(v) = SumFunction(w)
  <2> HIDE DEF w, p, D
  <2> QED
    BY <1>1, <1>3, <1>5, SumRearranged
<1>8. Saved(r)[t] = SumFunction(Balls(r)[t])
  BY DEF Saved
<1> QED
  BY <1>6, <1>7, <1>8 DEF TotalAfter

\* The ring's steps stay within its period, and curr_step_ is that of the steps
\* made, unless it has passed step 0 where it must not.
RingIInv ==
    /\ ring \in Rings /\ underflow \in BOOLEAN
    /\ curr_step \in 0 .. Period(ring) - 1 /\ elapsed \in 0 .. Period(ring) - 1
    /\ ~underflow \/ Word % Period(ring) = 0 => curr_step = elapsed

\* The period of a ring.
LEMMA RingIs ==
    ASSUME ring \in Rings
    PROVE  /\ ring.N \in Nat \ {0} /\ Period(ring) \in Nat \ {0}
           /\ Period(ring) = 2 * ring.N /\ Period(ring) <= 2 * MaxBalls
BY RingAssumption DEF Rings, Period

\* The ring begins at step 0.
LEMMA RingInitial == KacInit => RingIInv
<1> SUFFICES ASSUME KacInit PROVE RingIInv
  OBVIOUS
<1>1. ring \in Rings /\ curr_step = 0 /\ elapsed = 0 /\ underflow = FALSE
  BY DEF KacInit
<1>2. Period(ring) \in Nat \ {0} /\ 0 \in 0 .. Period(ring) - 1
  <2>1. Period(ring) \in Nat \ {0}
    BY <1>1, RingIs
  <2> QED
    BY <2>1
<1> QED
  BY <1>1, <1>2 DEF RingIInv

\* step() goes one on in both counts.
LEMMA StepKeepsRing == ASSUME RingIInv, KacStep PROVE RingIInv'
<1>1. /\ ring \in Rings /\ underflow \in BOOLEAN /\ Period(ring) \in Nat \ {0}
      /\ curr_step + 1 \in Int /\ elapsed + 1 \in Int
  BY RingIs DEF RingIInv
<1>2. \A a \in Int : a % Period(ring) \in 0 .. Period(ring) - 1
  BY <1>1, RemainderType
<1>3. ring' = ring /\ underflow' = underflow /\ curr_step' \in 0 .. Period(ring) - 1 /\ elapsed' \in 0 .. Period(ring) - 1
  BY <1>1, <1>2 DEF KacStep
<1>4. curr_step = elapsed => curr_step' = elapsed'
  BY DEF KacStep
<1> QED
  BY <1>1, <1>3, <1>4 DEF RingIInv

\* kstep() adds k modulo 2^w, which changes the sum only when it was negative,
\* and then nothing modulo a period that divides 2^w.
LEMMA KStepKeepsRing == ASSUME RingIInv, NEW k \in KSteps, KStep(k) PROVE RingIInv'
<1>1. /\ ring \in Rings /\ underflow \in BOOLEAN
      /\ curr_step \in 0 .. Period(ring) - 1 /\ elapsed \in 0 .. Period(ring) - 1
  BY DEF RingIInv
<1>2. Period(ring) \in Nat \ {0} /\ Period(ring) <= 2 * MaxBalls /\ 2 * MaxBalls \in Nat
  BY <1>1, RingIs, RingAssumption
<1>3. k \in Int /\ k + 2 * MaxBalls <= Word /\ Word \in Nat \ {0}
  BY RingAssumption
<1>4. curr_step + k \in Int /\ elapsed + k \in Int /\ curr_step + k < Word
  BY <1>1, <1>2, <1>3
<1>5. /\ ring' = ring /\ underflow' \in BOOLEAN /\ curr_step' = Advanced(k)
      /\ elapsed' = (elapsed + k) % Period(ring)
      /\ (~underflow' => ~underflow /\ ~(curr_step + k < 0))
  BY <1>1 DEF KStep
<1>6. curr_step' \in 0 .. Period(ring) - 1 /\ elapsed' \in 0 .. Period(ring) - 1
  <2>1. (curr_step + k) % Word \in Int
    BY <1>3, <1>4, RemainderType
  <2> QED
    BY <1>2, <1>4, <1>5, <2>1, RemainderType DEF Advanced
<1>7. ASSUME ~underflow' PROVE curr_step' = elapsed'
  <2>1. curr_step = elapsed /\ curr_step + k \in 0 .. Word - 1
    BY <1>3, <1>4, <1>5, <1>7 DEF RingIInv
  <2>2. (curr_step + k) % Word = curr_step + k
    BY <1>3, <2>1, RemainderOfSmall
  <2> QED
    BY <1>5, <2>1, <2>2 DEF Advanced
<1>8. ASSUME Word % Period(ring) = 0 PROVE curr_step' = elapsed'
  <2>1. curr_step = elapsed
    BY <1>8 DEF RingIInv
  <2>2. ((curr_step + k) % Word) % Period(ring) = (curr_step + k) % Period(ring)
    BY <1>2, <1>3, <1>4, <1>8, RemainderByMultiple
  <2> QED
    BY <1>5, <2>1, <2>2 DEF Advanced
<1> QED
  BY <1>1, <1>5, <1>6, <1>7, <1>8 DEF RingIInv

\* Under the invariant the colour is that of the balls.
LEMMA RingIsRight == RingIInv => RingAgrees
<1> SUFFICES ASSUME RingIInv, ~underflow \/ Word % Period(ring) = 0
             PROVE  Color = TotalAfter(ring, elapsed)
  BY DEF RingAgrees
<1>1. ring \in Rings /\ curr_step \in 0 .. Period(ring) - 1 /\ curr_step = elapsed
  BY DEF RingIInv
<1>2. ring.N \in Nat \ {0}
  BY <1>1, RingIs
<1>3. Saved(ring)[curr_step] = TotalAfter(ring, curr_step)
  BY <1>1, <1>2, SavedIsTotal
<1> QED
  BY <1>1, <1>3 DEF Color

\* A ball that has gone round the ring goes on as before, in its other colour
\* when the ring has an odd number of marks.
LEMMA OnceRound ==
    ASSUME NEW r, r.N \in Nat \ {0}, NEW i \in Int, NEW t \in Nat
    PROVE  BallAfter(r, i, t + r.N) =
             IF BallAfter(r, i, r.N) = 1 THEN BallAfter(r, i, t) ELSE - BallAfter(r, i, t)
<1> DEFINE turned(u) == IF BallAfter(r, i, r.N) = 1 THEN BallAfter(r, i, u) ELSE - BallAfter(r, i, u)
           Bad == {u \in Nat : BallAfter(r, i, u + r.N) # turned(u)}
<1>1. \A u \in Nat : /\ BallAfter(r, i, u) \in {1, -1}
                     /\ BallAfter(r, i, u + 1) =
                          IF (i + u) % r.N \in r.marked THEN - BallAfter(r, i, u) ELSE BallAfter(r, i, u)
  BY BallFlips
<1>2. 0 \notin Bad
  <2>1. 0 + r.N = r.N /\ BallAfter(r, i, 0) = 1 /\ BallAfter(r, i, r.N) \in {1, -1}
    BY <1>1, BallAtFirst
  <2> QED
    BY <2>1
<1>3. ASSUME NEW u \in Nat, u \notin Bad PROVE u + 1 \notin Bad
  <2>1. BallAfter(r, i, u + r.N) = turned(u)
    BY <1>3
  <2>2. (i + (u + r.N)) % r.N = (i + u) % r.N
    <3>1. i + u \in Int /\ i + (u + r.N) = (i + u) + r.N
      OBVIOUS
    <3> QED
      BY <3>1, DivisorMore
  <2>3. u + r.N \in Nat /\ (u + 1) + r.N = (u + r.N) + 1
    OBVIOUS
  <2>4. BallAfter(r, i, (u + 1) + r.N) =
          IF (i + u) % r.N \in r.marked THEN - BallAfter(r, i, u + r.N) ELSE BallAfter(r, i, u + r.N)
    BY <1>1, <2>2, <2>3
  <2>5. BallAfter(r, i, u + 1) =
          IF (i + u) % r.N \in r.marked THEN - BallAfter(r, i, u) ELSE BallAfter(r, i, u)
    BY <1>1
  <2>6. BallAfter(r, i, u) \in Int
    BY <1>1
  <2>7. BallAfter(r, i, (u + 1) + r.N) = turned(u + 1)
    BY <2>1, <2>4, <2>5, <2>6
  <2> HIDE DEF turned
  <2> QED
    BY <2>7
<1>4. Bad = {}
  <2>1. SUFFICES ASSUME Bad # {} PROVE FALSE
    OBVIOUS
  <2>2. Bad \in SUBSET Nat
    OBVIOUS
  <2> HIDE DEF Bad
  <2>3. PICK u \in Bad : \A s \in Bad : u <= s
    BY <2>1, <2>2, Smallest
  <2>4. u \in Nat /\ u # 0
    BY <1>2, <2>2
  <2>5. u - 1 \in Nat /\ ~(u <= u - 1) /\ (u - 1) + 1 = u
    BY <2>4
  <2>6. u - 1 \notin Bad
    BY <2>3, <2>5
  <2> QED
    BY <1>3, <2>5, <2>6
<1> QED
  BY <1>4

\* Two times round the ring every ball has its colour again: saved_ need hold
\* no more than a period, and color() of it is that of any later time.
THEOREM RingRepeats ==
    ASSUME NEW r, r.N \in Nat \ {0}, NEW t \in Nat
    PROVE  TotalAfter(r, t + Period(r)) = TotalAfter(r, t)
<1>1. ASSUME NEW i \in Positions(r) PROVE BallAfter(r, i, t + Period(r)) = BallAfter(r, i, t)
  <2>1. i \in Int /\ t + r.N \in Nat /\ t + Period(r) = (t + r.N) + r.N
    BY DEF Positions, Period
  <2>2. /\ BallAfter(r, i, (t + r.N) + r.N) =
             IF BallAfter(r, i, r.N) = 1 THEN BallAfter(r, i, t + r.N) ELSE - BallAfter(r, i, t + r.N)
        /\ BallAfter(r, i, t + r.N) =
             IF BallAfter(r, i, r.N) = 1 THEN BallAfter(r, i, t) ELSE - BallAfter(r, i, t)
    BY <2>1, OnceRound
  <2>3. BallAfter(r, i, t) \in Int
    BY <2>1, BallFlips
  <2> QED
    BY <2>1, <2>2, <2>3
<1>2. [i \in Positions(r) |-> BallAfter(r, i, t + Period(r))] = [i \in Positions(r) |-> BallAfter(r, i, t)]
  BY <1>1
<1> QED
  BY <1>2 DEF TotalAfter

-----------------------------------------------------------------------------
(* The game.  A counter of a player is the number of its cells in a line,  *)
(* and a line has N cells.                                                 *)

\* A set of as many pairs as a side is long has N members.
LEMMA SideToLine ==
    ASSUME NEW line, NEW f, f \in [Side -> line], \A x, y \in Side : f[x] = f[y] => x = y,
           \A cell \in line : \E x \in Side : f[x] = cell
    PROVE  IsFiniteSet(line) /\ Cardinality(line) = N
<1>1. f \in Bijection(Side, line)
  BY Fun_IsBij
<1>2. ExistsBijection(Side, line)
  BY <1>1 DEF ExistsBijection
<1>3. IsFiniteSet(Side) /\ Cardinality(Side) = N
  <2>1. 0 \in Int /\ N - 1 \in Int /\ N \in Nat /\ ~(0 > N - 1) /\ (N - 1) - 0 + 1 = N
    BY BoardAssumption
  <2>2. IsFiniteSet(0 .. N - 1) /\ Cardinality(0 .. N - 1) = (N - 1) - 0 + 1
    BY <2>1, FS_Interval
  <2> QED
    BY <2>1, <2>2 DEF Side
<1> QED
  BY <1>2, <1>3, FS_Bijection

\* Every line has N cells.
LEMMA LineHasN ==
    ASSUME NEW line \in Lines
    PROVE  IsFiniteSet(line) /\ Cardinality(line) = N
<1>1. ASSUME NEW i \in Side PROVE IsFiniteSet(Row(i)) /\ Cardinality(Row(i)) = N
  <2> DEFINE f == [j \in Side |-> <<i, j>>]
  <2>1. f \in [Side -> Row(i)] /\ (\A x, y \in Side : f[x] = f[y] => x = y)
    BY DEF Row
  <2>2. \A cell \in Row(i) : \E x \in Side : f[x] = cell
    BY DEF Row
  <2> HIDE DEF f
  <2> QED
    BY <2>1, <2>2, SideToLine
<1>2. ASSUME NEW j \in Side PROVE IsFiniteSet(Column(j)) /\ Cardinality(Column(j)) = N
  <2> DEFINE f == [i \in Side |-> <<i, j>>]
  <2>1. f \in [Side -> Column(j)] /\ (\A x, y \in Side : f[x] = f[y] => x = y)
    BY DEF Column
  <2>2. \A cell \in Column(j) : \E x \in Side : f[x] = cell
    BY DEF Column
  <2> HIDE DEF f
  <2> QED
    BY <2>1, <2>2, SideToLine
<1>3. IsFiniteSet(Diagonal) /\ Cardinality(Diagonal) = N
  <2> DEFINE f == [i \in Side |-> <<i, i>>]
  <2>1. f \in [Side -> Diagonal] /\ (\A x, y \in Side : f[x] = f[y] => x = y)
    BY DEF Diagonal, Cells
  <2>2. \A cell \in Diagonal : \E x \in Side : f[x] = cell
    BY DEF Diagonal, Cells
  <2> HIDE DEF f
  <2> QED
    BY <2>1, <2>2, SideToLine
<1>4. IsFiniteSet(AntiDiagonal) /\ Cardinality(AntiDiagonal) = N
  <2> DEFINE f == [i \in Side |-> <<i, N - 1 - i>>]
  <2>1. \A i \in Side : N - 1 - i \in Side /\ i + (N - 1 - i) = N - 1
    BY BoardAssumption DEF Side
  <2>2. f \in [Side -> AntiDiagonal] /\ (\A x, y \in Side : f[x] = f[y] => x = y)
    BY <2>1 DEF AntiDiagonal, Cells
  <2>3. \A cell \in AntiDiagonal : \E x \in Side : f[x] = cell
    <3>1. \A i, j \in Side : i + j = N - 1 => j = N - 1 - i
      BY BoardAssumption DEF Side
    <3> QED
      BY <3>1 DEF AntiDiagonal, Cells
  <2> HIDE DEF f
  <2> QED
    BY <2>2, <2>3, SideToLine
<1> QED
  BY <1>1, <1>2, <1>3, <1>4 DEF Lines

\* The number of the cells S in a line is N when S holds the line.
LEMMA FullLine ==
    ASSUME NEW line \in Lines, NEW S
    PROVE  /\ IsFiniteSet(S \cap line) /\ Cardinality(S \cap line) \in Nat
           /\ Cardinality(S \cap line) = N <=> line \subseteq S
<1>1. IsFiniteSet(line) /\ Cardinality(line) = N
  BY LineHasN
<1>2. S \cap line \in SUBSET line
  OBVIOUS
<1>3. IsFiniteSet(S \cap line) /\ (Cardinality(line) = Cardinality(S \cap line) => line = S \cap line)
  BY <1>1, <1>2, FS_Subset
<1>4. Cardinality(S \cap line) \in Nat
  BY <1>3, FS_CardinalityType
<1>5. line \subseteq S => S \cap line = line
  OBVIOUS
<1> QED
  BY <1>1, <1>3, <1>4, <1>5

\* A cell more counts in the lines it is on.
LEMMA CellCounts ==
    ASSUME NEW line \in Lines, NEW S, NEW cell, cell \notin S
    PROVE  Cardinality((S \cup {cell}) \cap line) =
             IF cell \in line THEN Cardinality(S \cap line) + 1 ELSE Cardinality(S \cap line)
<1>1. IsFiniteSet(S \cap line)
  BY FullLine
<1>2. (S \cup {cell}) \cap line = IF cell \in line THEN (S \cap line) \cup {cell} ELSE S \cap line
  OBVIOUS
<1>3. cell \notin S \cap line
  OBVIOUS
<1> QED
  BY <1>1, <1>2, <1>3, FS_AddElement

Counters == [rows : [Side -> Nat], cols : [Side -> Nat], diagonal : Nat, antidiag : Nat]

\* The counters of player count the cells S.
CountsOf(player, S) ==
    /\ \A i \in Side : player.rows[i] = Cardinality(S \cap Row(i))
    /\ \A j \in Side : player.cols[j] = Cardinality(S \cap Column(j))
    /\ player.diagonal = Cardinality(S \cap Diagonal)
    /\ player.antidiag = Cardinality(S \cap AntiDiagonal)

TicIInv ==
    /\ players \in [1 .. 2 -> Counters] /\ board \in [1 .. 2 -> SUBSET Cells] /\ winner \in 0 .. 2
    /\ \A p \in 1 .. 2 : CountsOf(players[p], board[p])
    /\ WinnerHasLine

\* The rows, columns and diagonals are lines.
LEMMA AreLines ==
    /\ \A i \in Side : Row(i) \in Lines
    /\ \A j \in Side : Column(j) \in Lines
    /\ Diagonal \in Lines /\ AntiDiagonal \in Lines
BY DEF Lines

\* An empty board has no full line.
LEMMA GameInitial == TicInit => TicIInv
<1> SUFFICES ASSUME TicInit PROVE TicIInv
  OBVIOUS
<1>1. N \in Nat \ {0}
  BY BoardAssumption
<1>2. NoCounts \in Counters
  BY DEF NoCounts, Counters
<1>3. CountsOf(NoCounts, {})
  <2>1. \A L : {} \cap L = {}
    OBVIOUS
  <2>2. \A L : Cardinality({} \cap L) = 0
    BY <2>1, FS_EmptySet
  <2> QED
    BY <2>2 DEF CountsOf, NoCounts
<1>4. \A line \in Lines : ~(line \subseteq {})
  <2> SUFFICES ASSUME NEW line \in Lines, line \subseteq {} PROVE FALSE
    OBVIOUS
  <2>1. {} \cap line = {} /\ Cardinality({}) = 0
    BY FS_EmptySet
  <2>2. Cardinality({} \cap line) = N
    BY FullLine
  <2> QED
    BY <1>1, <2>1, <2>2
<1>5. /\ players \in [1 .. 2 -> Counters] /\ board \in [1 .. 2 -> SUBSET Cells] /\ winner = 0
      /\ \A p \in 1 .. 2 : players[p] = NoCounts /\ board[p] = {}
  BY <1>2 DEF TicInit
<1>6. WinnerHasLine
  BY <1>4, <1>5 DEF WinnerHasLine
<1> QED
  BY <1>3, <1>5, <1>6 DEF TicIInv

\* A player that has placed a stone counts it.
LEMMA PlacedCounts ==
    ASSUME NEW player \in Counters, NEW S \in SUBSET Cells, CountsOf(player, S),
           NEW row \in Side, NEW col \in Side, <<row, col>> \notin S
    PROVE  /\ Placed(player, row, col) \in Counters
           /\ CountsOf(Placed(player, row, col), S \cup {<<row, col>>})
<1> DEFINE cell == <<row, col>>
           after == Placed(player, row, col)
           T == S \cup {cell}
<1>1. /\ \A i \in Side : cell \in Row(i) <=> i = row
      /\ \A j \in Side : cell \in Column(j) <=> j = col
      /\ cell \in Diagonal <=> row = col
      /\ cell \in AntiDiagonal <=> row + col = N - 1
  <2>1. \A i \in Side : cell \in Row(i) <=> i = row
    BY DEF Row
  <2>2. \A j \in Side : cell \in Column(j) <=> j = col
    BY DEF Column
  <2>3. cell \in Cells /\ cell[1] = row /\ cell[2] = col
    BY DEF Cells
  <2>4. cell \in Diagonal <=> row = col
    BY <2>3 DEF Diagonal
  <2>5. cell \in AntiDiagonal <=> row + col = N - 1
    BY <2>3 DEF AntiDiagonal
  <2> QED
    BY <2>1, <2>2, <2>4, <2>5
<1>2. /\ after.rows = [player.rows EXCEPT ![row] = @ + 1]
      /\ after.cols = [player.cols EXCEPT ![col] = @ + 1]
      /\ after.diagonal = IF row = col THEN player.diagonal + 1 ELSE player.diagonal
      /\ after.antidiag = IF row + col = N - 1 THEN player.antidiag + 1 ELSE player.antidiag
  BY DEF Placed, Counters
<1>3. after \in Counters
  <2>1. /\ player.rows \in [Side -> Nat] /\ player.cols \in [Side -> Nat]
        /\ player.diagonal \in Nat /\ player.antidiag \in Nat
    BY DEF Counters
  <2>2. /\ after.rows \in [Side -> Nat] /\ after.cols \in [Side -> Nat]
        /\ after.diagonal \in Nat /\ after.antidiag \in Nat
    BY <1>2, <2>1
  <2> DEFINE rows == [player.rows EXCEPT ![row] = @ + 1]
             cols == [player.cols EXCEPT ![col] = @ + 1]
             diagonal == IF row = col THEN player.diagonal + 1 ELSE player.diagonal
             antidiag == IF row + col = N - 1 THEN player.antidiag + 1 ELSE player.antidiag
  <2>3. after = [player EXCEPT !.rows = rows, !.cols = cols, !.diagonal = diagonal, !.antidiag = antidiag]
    BY DEF Placed
  <2>4. /\ rows \in [Side -> Nat] /\ cols \in [Side -> Nat] /\ diagonal \in Nat /\ antidiag \in Nat
    BY <2>1
  <2> HIDE DEF after, rows, cols, diagonal, antidiag
  <2> QED
    BY <2>3, <2>4 DEF Counters
<1>4. \A line \in Lines : Cardinality(T \cap line) =
                            IF cell \in line THEN Cardinality(S \cap line) + 1 ELSE Cardinality(S \cap line)
  BY CellCounts
<1> HIDE DEF after, cell, T
<1>5. /\ \A i \in Side : after.rows[i] = IF i = row THEN player.rows[i] + 1 ELSE player.rows[i]
      /\ \A j \in Side : after.cols[j] = IF j = col THEN player.cols[j] + 1 ELSE player.cols[j]
  <2>1. player.rows \in [Side -> Nat] /\ player.cols \in [Side -> Nat]
    BY DEF Counters
  <2> QED
    BY <1>2, <2>1
<1>6. ASSUME NEW i \in Side PROVE after.rows[i] = Cardinality(T \cap Row(i))
  <2>1. Row(i) \in Lines
    BY AreLines
  <2>2. Cardinality(T \cap Row(i)) = IF i = row THEN Cardinality(S \cap Row(i)) + 1 ELSE Cardinality(S \cap Row(i))
    BY <1>1, <1>4, <2>1
  <2>3. player.rows[i] = Cardinality(S \cap Row(i))
    BY DEF CountsOf
  <2> QED
    BY <1>5, <2>2, <2>3
<1>7. ASSUME NEW j \in Side PROVE after.cols[j] = Cardinality(T \cap Column(j))
  <2>1. Column(j) \in Lines
    BY AreLines
  <2>2. Cardinality(T \cap Column(j)) = IF j = col THEN Cardinality(S \cap Column(j)) + 1 ELSE Cardinality(S \cap Column(j))
    BY <1>1, <1>4, <2>1
  <2>3. player.cols[j] = Cardinality(S \cap Column(j))
    BY DEF CountsOf
  <2> QED
    BY <1>5, <2>2, <2>3
<1>8. after.diagonal = Cardinality(T \cap Diagonal)
  BY <1>1, <1>2, <1>4, AreLines DEF CountsOf
<1>9. after.antidiag = Cardinality(T \cap AntiDiagonal)
  BY <1>1, <1>2, <1>4, AreLines DEF CountsOf
<1> QED
  BY <1>3, <1>6, <1>7, <1>8, <1>9 DEF CountsOf, after, T, cell

\* When every full line goes through the cell of the move, the move wins
\* exactly when a line is full.
LEMMA WinsWithLine ==
    ASSUME NEW player, NEW T, CountsOf(player, T), NEW row \in Side, NEW col \in Side,
           \A line \in Lines : line \subseteq T => <<row, col>> \in line
    PROVE  Wins(player, row, col) <=> \E line \in Lines : line \subseteq T
<1>1. /\ player.rows[row] = N <=> Row(row) \subseteq T
      /\ player.cols[col] = N <=> Column(col) \subseteq T
      /\ player.diagonal = N <=> Diagonal \subseteq T
      /\ player.antidiag = N <=> AntiDiagonal \subseteq T
  <2>1. /\ player.rows[row] = Cardinality(T \cap Row(row)) /\ player.cols[col] = Cardinality(T \cap Column(col))
        /\ player.diagonal = Cardinality(T \cap Diagonal) /\ player.antidiag = Cardinality(T \cap AntiDiagonal)
    BY DEF CountsOf
  <2>2. Row(row) \in Lines /\ Column(col) \in Lines /\ Diagonal \in Lines /\ AntiDiagonal \in Lines
    BY AreLines
  <2>3. \A line \in Lines : Cardinality(T \cap line) = N <=> line \subseteq T
    BY FullLine
  <2>4. /\ Cardinality(T \cap Row(row)) = N <=> Row(row) \subseteq T
        /\ Cardinality(T \cap Column(col)) = N <=> Column(col) \subseteq T
    BY <2>2, <2>3
  <2>5. /\ Cardinality(T \cap Diagonal) = N <=> Diagonal \subseteq T
        /\ Cardinality(T \cap AntiDiagonal) = N <=> AntiDiagonal \subseteq T
    BY <2>2, <2>3
  <2> QED
    BY <2>1, <2>4, <2>5
<1>2. Wins(player, row, col) => \E line \in Lines : line \subseteq T
  BY <1>1, AreLines DEF Wins
<1>3. ASSUME NEW line \in Lines, line \subseteq T PROVE Wins(player, row, col)
  <2>1. <<row, col>> \in line
    BY <1>3
  <2>2. line \in {Row(row), Column(col), Diagonal, AntiDiagonal}
    BY <2>1 DEF Lines, Row, Column
  <2> QED
    BY <1>1, <1>3, <2>2 DEF Wins
<1> QED
  BY <1>2, <1>3

\* A move keeps the invariant.
LEMMA MoveKeepsGame ==
    ASSUME TicIInv, NEW p \in 1 .. 2, NEW row \in Side, NEW col \in Side, MoveTo(p, row, col)
    PROVE  TicIInv'
<1> DEFINE cell == <<row, col>>
<1>1. /\ players \in [1 .. 2 -> Counters] /\ board \in [1 .. 2 -> SUBSET Cells]
      /\ \A q \in 1 .. 2 : CountsOf(players[q], board[q])
  BY DEF TicIInv
<1>2. winner = 0 /\ cell \notin board[p]
  BY DEF MoveTo
<1>3. \A q \in 1 .. 2 : \A line \in Lines : ~(line \subseteq board[q])
  <2>1. \A q \in 1 .. 2 : (\E line \in Lines : line \subseteq board[q]) => winner = q
    BY DEF TicIInv, WinnerHasLine
  <2> QED
    BY <1>2, <2>1
<1>4. /\ players' = [players EXCEPT ![p] = Placed(players[p], row, col)]
      /\ board' = [board EXCEPT ![p] = board[p] \cup {cell}]
      /\ winner' = IF Wins(players'[p], row, col) THEN p ELSE 0
  BY DEF MoveTo
<1>5. /\ Placed(players[p], row, col) \in Counters
      /\ CountsOf(Placed(players[p], row, col), board[p] \cup {cell})
  BY <1>1, <1>2, PlacedCounts
<1>6. cell \in Cells
  BY DEF Cells
<1> HIDE DEF cell
<1>7. /\ players' \in [1 .. 2 -> Counters] /\ board' \in [1 .. 2 -> SUBSET Cells]
      /\ players'[p] = Placed(players[p], row, col) /\ board'[p] = board[p] \cup {cell}
      /\ \A q \in 1 .. 2 : q # p => players'[q] = players[q] /\ board'[q] = board[q]
  BY <1>1, <1>4, <1>5, <1>6
<1>8. \A q \in 1 .. 2 : CountsOf(players'[q], board'[q])
  BY <1>1, <1>5, <1>7
<1>9. Wins(players'[p], row, col) <=> \E line \in Lines : line \subseteq board'[p]
  <2>1. CountsOf(players'[p], board'[p])
    BY <1>8
  <2>2. board'[p] = board[p] \cup {<<row, col>>} /\ \A line \in Lines : ~(line \subseteq board[p])
    BY <1>3, <1>7 DEF cell
  <2>3. \A line \in Lines : line \subseteq board'[p] => <<row, col>> \in line
    BY <2>2
  <2> QED
    BY <2>1, <2>3, WinsWithLine
<1>10. \A q \in 1 .. 2 : winner' = q <=> \E line \in Lines : line \subseteq board'[q]
  <2> SUFFICES ASSUME NEW q \in 1 .. 2 PROVE winner' = q <=> \E line \in Lines : line \subseteq board'[q]
    OBVIOUS
  <2>1. CASE q = p
    BY <1>4, <1>9, <2>1
  <2>2. CASE q # p
    BY <1>3, <1>4, <1>7, <2>2
  <2> QED
    BY <2>1, <2>2
<1>11. winner' \in 0 .. 2
  BY <1>4
<1> QED
  BY <1>7, <1>8, <1>10, <1>11 DEF TicIInv, WinnerHasLine

-----------------------------------------------------------------------------
(* The book.  While its behaviour is defined, the orders that rest are all *)
(* on one side, and the volumes of a side are the totals of its orders.    *)

\* An order, and the orders of a book.
Order == [price : BookPrices, volume : BookVolumes, buy : BOOLEAN]

\* An order more adds its volume at its price and side.
LEMMA OneMorePlaced ==
    ASSUME NEW os \in Seq(Order), NEW o \in Order, NEW price \in BookPrices, NEW buy \in BOOLEAN
    PROVE  /\ VolumePlaced(os, price, buy) \in Int
           /\ VolumePlaced(Append(os, o), price, buy) = VolumeOf(o, price, buy) + VolumePlaced(os, price, buy)
<1> DEFINE D == 1 .. Len(os) + 1
           x == Len(os) + 1
           w == [i \in D |-> VolumeOf(Append(os, o)[i], price, buy)]
           v == [i \in DOMAIN os |-> VolumeOf(os[i], price, buy)]
<1>1. Len(os) \in Nat /\ DOMAIN os = 1 .. Len(os) /\ DOMAIN Append(os, o) = D /\ x \in D
  OBVIOUS
<1>2. IsFiniteSet(D)
  BY <1>1, FS_Interval
<1>3. D \ {x} = DOMAIN os
  BY <1>1
<1>4. Append(os, o) \in Seq(Order) /\ Append(os, o)[x] = o /\ \A i \in DOMAIN os : Append(os, o)[i] = os[i]
  OBVIOUS
<1>5. \A q \in Order : VolumeOf(q, price, buy) \in Int
  <2> SUFFICES ASSUME NEW q \in Order PROVE VolumeOf(q, price, buy) \in Int
    OBVIOUS
  <2>1. q.volume \in Int
    BY BookAssumption DEF Order
  <2>2. VolumeOf(q, price, buy) \in {q.volume, 0}
    BY Zenon DEF VolumeOf
  <2> QED
    BY <2>1, <2>2
<1>6. w \in [D -> Int]
  <2>1. \A i \in D : Append(os, o)[i] \in Order
    BY <1>1, <1>4
  <2> QED
    BY <1>5, <2>1
<1>7. v = [y \in D \ {x} |-> w[y]]
  <2>1. \A y \in DOMAIN os : y \in D
    BY <1>1
  <2>2. \A y \in DOMAIN os : w[y] = VolumeOf(os[y], price, buy)
    BY <1>4, <2>1
  <2> HIDE DEF D, x, w
  <2> QED
    BY <1>3, <2>2
<1>8. w[x] = VolumeOf(o, price, buy)
  BY <1>1, <1>4
<1> HIDE DEF w, v, D, x
<1>9. SumFunction(v) \in Int /\ SumFunction(w) = w[x] + SumFunction(v)
  <2>1. x \in D
    BY <1>1
  <2> DEFINE u == [y \in D \ {x} |-> w[y]]
  <2>2. SumFunction(u) \in Int /\ SumFunction(w) = w[x] + SumFunction(u)
    BY <1>2, <1>6, <2>1, SumAddsOne
  <2>3. v = u
    BY <1>7
  <2> HIDE DEF u
  <2> QED
    BY <2>2, <2>3
<1>10. VolumePlaced(os, price, buy) = SumFunction(v) /\ VolumePlaced(Append(os, o), price, buy) = SumFunction(w)
  BY <1>1 DEF VolumePlaced, v, w
<1> QED
  BY <1>8, <1>9, <1>10

\* The orders that rest have a volume, and a side that has had one has a price.
BookIInv ==
    /\ placed \in Seq(Order) /\ orders \in SUBSET Nat
    /\ bidvolumes \in [BookPrices -> Int] /\ askvolumes \in [BookPrices -> Int]
    /\ \A id \in orders : id + 1 \in DOMAIN placed /\ placed[id + 1].volume # 0
    /\ ~bookUndefined =>
         /\ \A price \in BookPrices : /\ bidvolumes[price] = VolumePlaced(placed, price, TRUE)
                                      /\ askvolumes[price] = VolumePlaced(placed, price, FALSE)
         /\ \A i \in DOMAIN placed :
              placed[i].volume # 0 => IF placed[i].buy THEN bids # {} ELSE asks # {}
         /\ \A i, j \in DOMAIN placed :
              i < j /\ placed[i].buy # placed[j].buy => placed[i].volume = 0 \/ placed[j].volume <= 0

\* The book is right while the invariant holds.
LEMMA BookIsRight == BookIInv => VolumesAddUp
<1> SUFFICES ASSUME BookIInv PROVE VolumesAddUp
  OBVIOUS
<1>1. ASSUME ~bookUndefined, NEW price \in BookPrices, NEW buy \in BOOLEAN
      PROVE  PriceVolume(price, buy) = VolumePlaced(placed, price, buy)
  <2>1. CASE buy = TRUE
    BY <1>1, <2>1 DEF BookIInv, PriceVolume
  <2>2. CASE buy = FALSE
    BY <1>1, <2>2 DEF BookIInv, PriceVolume
  <2> QED
    BY <2>1, <2>2
<1> QED
  BY <1>1 DEF BookIInv, VolumesAddUp

\* A book without orders.
LEMMA BookInitial == BookInit => BookIInv
<1> SUFFICES ASSUME BookInit PROVE BookIInv
  OBVIOUS
<1>1. /\ placed = <<>> /\ orders = {}
      /\ bidvolumes = [p \in BookPrices |-> 0] /\ askvolumes = [p \in BookPrices |-> 0]
  BY DEF BookInit
<1>2. \A price, buy : VolumePlaced(<<>>, price, buy) = 0
  <2> SUFFICES ASSUME NEW price, NEW buy PROVE VolumePlaced(<<>>, price, buy) = 0
    OBVIOUS
  <2> DEFINE s == [i \in DOMAIN <<>> |-> VolumeOf(<<>>[i], price, buy)]
  <2>1. DOMAIN s = {}
    OBVIOUS
  <2> HIDE DEF s
  <2>2. SumFunction(s) = 0
    BY <2>1, SumOfNone
  <2> QED
    BY <2>2 DEF VolumePlaced, s
<1>3. <<>> \in Seq(Order) /\ DOMAIN <<>> = {}
  OBVIOUS
<1>4. placed \in Seq(Order) /\ DOMAIN placed = {} /\ orders \in SUBSET Nat
  BY <1>1, <1>3
<1>5. bidvolumes \in [BookPrices -> Int] /\ askvolumes \in [BookPrices -> Int]
  BY <1>1
<1>6. \A price \in BookPrices : /\ bidvolumes[price] = VolumePlaced(placed, price, TRUE)
                                /\ askvolumes[price] = VolumePlaced(placed, price, FALSE)
  BY <1>1, <1>2
<1>7. \A id \in orders : id + 1 \in DOMAIN placed /\ placed[id + 1].volume # 0
  BY <1>1
<1> QED
  BY <1>4, <1>5, <1>6, <1>7 DEF BookIInv

\* A cancellation changes no volume.
LEMMA CancelKeepsBook ==
    ASSUME BookIInv, ~bookUndefined, NEW id, CancelBookOrder(id)
    PROVE  BookIInv'
<1>1. UNCHANGED <<bids, asks, bidvolumes, askvolumes, orders, placed>>
  BY DEF CancelBookOrder
<1> QED
  BY <1>1 DEF BookIInv

\* An order that a book accepts is the last one placed.
LEMMA PlaceKeepsBook ==
    ASSUME BookIInv, ~bookUndefined, NEW price \in BookPrices, NEW volume \in BookVolumes, NEW buy \in BOOLEAN,
           PlaceOrder(price, volume, buy)
    PROVE  BookIInv'
<1> DEFINE o == [price |-> price, volume |-> volume, buy |-> buy]
           n == Len(placed)
<1>1. /\ placed \in Seq(Order) /\ orders \in SUBSET Nat
      /\ bidvolumes \in [BookPrices -> Int] /\ askvolumes \in [BookPrices -> Int]
      /\ \A id \in orders : id + 1 \in DOMAIN placed /\ placed[id + 1].volume # 0
  BY DEF BookIInv
<1>2. o \in Order /\ volume \in Int /\ o.price = price /\ o.volume = volume /\ o.buy = buy
  BY BookAssumption DEF Order
<1>3. placed' = Append(placed, o)
  BY DEF PlaceOrder
<1> HIDE DEF o
<1>4. /\ placed' \in Seq(Order) /\ n \in Nat /\ DOMAIN placed = 1 .. n /\ DOMAIN placed' = 1 .. n + 1
      /\ placed'[n + 1] = o /\ \A i \in DOMAIN placed : placed'[i] = placed[i]
  BY <1>1, <1>2, <1>3
<1>5. \A i \in DOMAIN placed' : i \in DOMAIN placed \/ i = n + 1
  BY <1>4
<1>8. \A id \in orders : id + 1 \in DOMAIN placed' /\ placed'[id + 1].volume # 0
  <2> SUFFICES ASSUME NEW id \in orders PROVE id + 1 \in DOMAIN placed' /\ placed'[id + 1].volume # 0
    OBVIOUS
  <2>1. id + 1 \in DOMAIN placed /\ placed[id + 1].volume # 0
    BY <1>1
  <2>2. \A i \in DOMAIN placed : i \in DOMAIN placed' /\ placed'[i] = placed[i]
    BY <1>4
  <2> QED
    BY <2>1, <2>2
<1>6. CASE NothingToMatch(IF buy THEN asks ELSE bids, volume)
  <2>1. bookUndefined' /\ UNCHANGED <<bids, asks, bidvolumes, askvolumes, orders>>
    BY <1>6 DEF PlaceOrder
  <2>2. \A id \in orders' : id + 1 \in DOMAIN placed' /\ placed'[id + 1].volume # 0
    BY <1>8, <2>1
  <2> QED
    BY <1>1, <1>4, <2>1, <2>2 DEF BookIInv
<1>7. CASE ~NothingToMatch(IF buy THEN asks ELSE bids, volume)
  <2>1. /\ IF buy THEN PlaceBid(price, volume) ELSE PlaceAsk(price, volume)
        /\ orders' = IF volume = 0 THEN orders ELSE orders \cup {n}
    BY <1>7 DEF PlaceOrder, Id
  <2>2. volume > 0 => (IF buy THEN asks ELSE bids) = {}
    BY <1>7 DEF NothingToMatch
  <2>3. \A id \in orders' : id + 1 \in DOMAIN placed' /\ placed'[id + 1].volume # 0
    <3> SUFFICES ASSUME NEW id \in orders' PROVE id + 1 \in DOMAIN placed' /\ placed'[id + 1].volume # 0
      OBVIOUS
    <3>1. CASE id \in orders
      BY <1>8, <3>1
    <3>2. CASE id \notin orders
      <4>1. id = n /\ volume # 0
        BY <2>1, <3>2
      <4>2. n + 1 \in DOMAIN placed' /\ placed'[n + 1].volume # 0
        BY <1>2, <1>4, <4>1
      <4> QED
        BY <4>1, <4>2
    <3> QED
      BY <3>1, <3>2
  <2>4. orders' \in SUBSET Nat
    BY <1>1, <1>4, <2>1
  <2>5. /\ bidvolumes' \in [BookPrices -> Int] /\ askvolumes' \in [BookPrices -> Int]
        /\ \A p \in BookPrices :
             /\ bidvolumes'[p] = VolumeOf(o, p, TRUE) + bidvolumes[p]
             /\ askvolumes'[p] = VolumeOf(o, p, FALSE) + askvolumes[p]
    <3>1. CASE buy
      BY <1>1, <1>2, <2>1, <3>1 DEF PlaceBid, VolumeOf
    <3>2. CASE ~buy
      BY <1>1, <1>2, <2>1, <3>2 DEF PlaceAsk, VolumeOf
    <3> QED
      BY <3>1, <3>2
  <2>6. \A p \in BookPrices : /\ bidvolumes'[p] = VolumePlaced(placed', p, TRUE)
                              /\ askvolumes'[p] = VolumePlaced(placed', p, FALSE)
    <3>1. \A p \in BookPrices : /\ bidvolumes[p] = VolumePlaced(placed, p, TRUE)
                                /\ askvolumes[p] = VolumePlaced(placed, p, FALSE)
      BY DEF BookIInv
    <3>2. \A p \in BookPrices :
            /\ VolumePlaced(placed', p, TRUE) = VolumeOf(o, p, TRUE) + VolumePlaced(placed, p, TRUE)
            /\ VolumePlaced(placed', p, FALSE) = VolumeOf(o, p, FALSE) + VolumePlaced(placed, p, FALSE)
      BY <1>1, <1>2, <1>3, OneMorePlaced
    <3> QED
      BY <2>5, <3>1, <3>2
  <2>7. /\ bids' = IF buy /\ volume # 0 THEN bids \cup {price} ELSE bids
        /\ asks' = IF ~buy /\ volume # 0 THEN asks \cup {price} ELSE asks
    BY <2>1 DEF PlaceBid, PlaceAsk
  <2>8. \A i \in DOMAIN placed : placed[i].volume # 0 => IF placed[i].buy THEN bids # {} ELSE asks # {}
    BY DEF BookIInv
  <2>9. \A i \in DOMAIN placed' : placed'[i].volume # 0 => IF placed'[i].buy THEN bids' # {} ELSE asks' # {}
    <3> SUFFICES ASSUME NEW i \in DOMAIN placed', placed'[i].volume # 0
                 PROVE  IF placed'[i].buy THEN bids' # {} ELSE asks' # {}
      OBVIOUS
    <3>1. CASE i \in DOMAIN placed
      BY <1>4, <2>7, <2>8, <3>1
    <3>2. CASE i = n + 1
      BY <1>2, <1>4, <2>7, <3>2
    <3> QED
      BY <1>5, <3>1, <3>2
  <2>10. \A i, j \in DOMAIN placed' :
           i < j /\ placed'[i].buy # placed'[j].buy => placed'[i].volume = 0 \/ placed'[j].volume <= 0
    <3> SUFFICES ASSUME NEW i \in DOMAIN placed', NEW j \in DOMAIN placed', i < j, placed'[i].buy # placed'[j].buy
                 PROVE  placed'[i].volume = 0 \/ placed'[j].volume <= 0
      OBVIOUS
    <3>1. i \in DOMAIN placed
      BY <1>4
    <3>2. CASE j \in DOMAIN placed
      BY <1>4, <3>1, <3>2 DEF BookIInv
    <3>3. CASE j = n + 1
      <4>1. placed'[j].volume = volume /\ placed'[j].buy = buy /\ placed'[i] = placed[i]
        BY <1>2, <1>4, <3>1, <3>3
      <4>2. placed[i].buy \in BOOLEAN /\ (placed[i].buy <=> ~buy)
        <5>1. placed[i] \in Order
          BY <1>1, <3>1
        <5>2. placed[i].buy \in BOOLEAN
          BY <5>1 DEF Order
        <5>3. placed[i].buy # buy
          BY <4>1
        <5> QED
          BY <5>2, <5>3, Zenon
      <4>3. volume > 0 => placed[i].volume = 0
        BY <2>2, <2>8, <3>1, <4>2
      <4> QED
        BY <1>2, <4>1, <4>3
    <3> QED
      BY <1>5, <3>2, <3>3
  <2> QED
    BY <1>4, <2>3, <2>4, <2>5, <2>6, <2>9, <2>10 DEF BookIInv
<1> QED
  BY <1>6, <1>7

-----------------------------------------------------------------------------
(* The tree.  A node holds the values of its range in order, and a range   *)
(* without a node has only identities.                                     *)

\* A set that has 0 and the successor of each member has every natural.
LEMMA AllNaturals ==
    ASSUME NEW S, 0 \in S, \A n \in Nat : n \in S => n + 1 \in S
    PROVE  \A n \in Nat : n \in S
<1> DEFINE Bad == Nat \ S
<1>1. SUFFICES ASSUME Bad # {} PROVE FALSE
  OBVIOUS
<1>2. Bad \in SUBSET Nat
  OBVIOUS
<1> HIDE DEF Bad
<1>3. PICK n \in Bad : \A m \in Bad : n <= m
  BY <1>1, <1>2, Smallest
<1>4. n \in Nat /\ n \notin S /\ n # 0
  BY <1>2 DEF Bad
<1>5. n - 1 \in Nat /\ ~(n <= n - 1) /\ (n - 1) + 1 = n
  BY <1>4
<1>6. n - 1 \in S
  BY <1>3, <1>5 DEF Bad
<1> QED
  BY <1>4, <1>5, <1>6

\* What Combined adds one value after the other.
LEMMA CombinedOneMore ==
    ASSUME NEW rs, NEW low \in Nat, NEW high \in -1 .. MaxInt
    PROVE  Combined(rs, low, high) =
             IF high < low THEN identity ELSE combine(Combined(rs, low, high - 1), rs[high])
<1> DEFINE D == -1 .. MaxInt
           Body(f) == [i \in D |-> IF i < low THEN identity ELSE combine(f[i - 1], rs[i])]
           Solved == {k \in Nat : \E g : \A i \in D : i < k => g[i] = Body(g)[i]}
           c == CHOOSE f : f = Body(f)
<1>1. MaxInt \in Nat
  BY TreeAssumption
<1>2. \A f : \A i \in D : Body(f)[i] = IF i < low THEN identity ELSE combine(f[i - 1], rs[i])
  OBVIOUS
<1>3. 0 \in Solved
  <2> DEFINE g == [i \in D |-> identity]
  <2>1. \A i \in D : i < 0 => g[i] = identity /\ i < low
    OBVIOUS
  <2> HIDE DEF g, Body, D
  <2>2. \A i \in D : i < 0 => g[i] = Body(g)[i]
    BY <1>2, <2>1
  <2> QED
    BY <2>2
<1>4. ASSUME NEW k \in Nat, k \in Solved PROVE k + 1 \in Solved
  <2>1. PICK g : \A i \in D : i < k => g[i] = Body(g)[i]
    BY <1>4
  <2> DEFINE h == Body(g)
  <2>2. ASSUME NEW i \in D, i < k + 1 PROVE h[i] = Body(h)[i]
    <3>1. i < low => h[i] = identity /\ Body(h)[i] = identity
      BY <1>2
    <3>2. ASSUME ~(i < low) PROVE h[i - 1] = g[i - 1]
      <4>1. i - 1 \in D /\ i - 1 < k
        BY <1>1, <2>2, <3>2
      <4> HIDE DEF Body, D
      <4> QED
        BY <2>1, <4>1
    <3> HIDE DEF h, D
    <3>3. ~(i < low) => h[i] = combine(g[i - 1], rs[i]) /\ Body(h)[i] = combine(h[i - 1], rs[i])
      BY <1>2 DEF h
    <3> HIDE DEF Body
    <3> QED
      BY <3>1, <3>2, <3>3
  <2> HIDE DEF h, Body
  <2> QED
    BY <2>2
<1>5. MaxInt + 1 \in Solved
  <2> HIDE DEF Solved
  <2> QED
    BY <1>1, <1>3, <1>4, AllNaturals
<1>6. c = Body(c)
  <2>1. PICK g : \A i \in D : i < MaxInt + 1 => g[i] = Body(g)[i]
    BY <1>5
  <2> DEFINE h == Body(g)
  <2>2. \A i \in D : h[i] = g[i]
    BY <1>1, <2>1
  <2>3. \A i \in D : ~(i < low) => i - 1 \in D
    BY <1>1
  <2>4. h = Body(h)
    <3>1. \A i \in D : (IF i < low THEN identity ELSE combine(g[i - 1], rs[i])) =
                       (IF i < low THEN identity ELSE combine(h[i - 1], rs[i]))
      <4> HIDE DEF h, D
      <4> QED
        BY <2>2, <2>3
    <3> HIDE DEF D
    <3> QED
      BY <3>1
  <2> HIDE DEF h, Body
  <2> QED
    BY <2>4
<1>7. \A i \in D : c[i] = IF i < low THEN identity ELSE combine(c[i - 1], rs[i])
  <2> HIDE DEF c
  <2> QED
    BY <1>6
<1>8. \A i : Combined(rs, low, i) = c[i]
  BY DEF Combined
<1> HIDE DEF c
<1> QED
  BY <1>7, <1>8

\* combine is associative, and identity is its identity.
LEMMA CombineIs ==
    /\ identity \in Seq(Symbols)
    /\ \A s, t \in Seq(Symbols) : combine(s, t) \in Seq(Symbols)
    /\ \A s \in Seq(Symbols) : combine(s, identity) = s /\ combine(identity, s) = s
    /\ \A s, t, u \in Seq(Symbols) : combine(combine(s, t), u) = combine(s, combine(t, u))
<1>1. identity \in Seq(Symbols)
  BY DEF identity
<1>2. ASSUME NEW s \in Seq(Symbols), NEW t \in Seq(Symbols) PROVE combine(s, t) \in Seq(Symbols)
  BY DEF combine
<1>3. ASSUME NEW s \in Seq(Symbols) PROVE combine(s, identity) = s /\ combine(identity, s) = s
  BY ConcatEmptySeq DEF combine, identity
<1>4. ASSUME NEW s \in Seq(Symbols), NEW t \in Seq(Symbols), NEW u \in Seq(Symbols)
      PROVE  combine(combine(s, t), u) = combine(s, combine(t, u))
  <2>1. (s \o t) \o u = s \o (t \o u)
    BY ConcatAssociative
  <2> QED
    BY <2>1 DEF combine
<1> QED
  BY <1>1, <1>2, <1>3, <1>4

\* Values that are sequences, from one index to another.
Values(rs, low, high) == \A i \in low .. high : rs[i] \in Seq(Symbols)

\* Nothing combined, and the type of what is combined.
LEMMA CombinedType ==
    ASSUME NEW rs, NEW low \in Nat, NEW high \in low - 1 .. MaxInt, Values(rs, low, high)
    PROVE  Combined(rs, low, low - 1) = identity /\ Combined(rs, low, high) \in Seq(Symbols)
<1> DEFINE S == {n \in Nat : low - 1 + n <= high => Combined(rs, low, low - 1 + n) \in Seq(Symbols)}
<1>1. MaxInt \in Nat /\ low \in Nat /\ high \in Int /\ low - 1 <= high /\ high <= MaxInt
  BY TreeAssumption
<1>2. Combined(rs, low, low - 1) = identity
  <2>1. low - 1 \in -1 .. MaxInt /\ low - 1 < low
    BY <1>1
  <2> QED
    BY <2>1, CombinedOneMore
<1>3. identity \in Seq(Symbols)
  BY DEF identity
<1>4. 0 \in S
  BY <1>1, <1>2, <1>3
<1>5. ASSUME NEW n \in Nat, n \in S PROVE n + 1 \in S
  <2> SUFFICES ASSUME low - 1 + (n + 1) <= high PROVE Combined(rs, low, low - 1 + (n + 1)) \in Seq(Symbols)
    OBVIOUS
  <2> DEFINE h == low - 1 + (n + 1)
  <2>1. h \in -1 .. MaxInt /\ ~(h < low) /\ h - 1 = low - 1 + n /\ h \in low .. high /\ low - 1 + n <= high
    BY <1>1
  <2>2. Combined(rs, low, h - 1) \in Seq(Symbols)
    BY <1>5, <2>1
  <2> HIDE DEF h
  <2>3. rs[h] \in Seq(Symbols)
    BY <2>1 DEF Values
  <2>4. Combined(rs, low, h) = combine(Combined(rs, low, h - 1), rs[h])
    BY <2>1, CombinedOneMore
  <2> QED
    BY <2>2, <2>3, <2>4, CombineIs DEF h
<1>6. high - low + 1 \in S
  <2>1. high - low + 1 \in Nat
    BY <1>1
  <2> HIDE DEF S
  <2> QED
    BY <1>4, <1>5, <2>1, AllNaturals
<1>7. low - 1 + (high - low + 1) = high
  BY <1>1
<1> QED
  BY <1>2, <1>6, <1>7

\* Only the values from low to high matter.
LEMMA CombinedSame ==
    ASSUME NEW rs, NEW ss, NEW low \in Nat, NEW high \in low - 1 .. MaxInt,
           \A i \in low .. high : rs[i] = ss[i]
    PROVE  Combined(rs, low, high) = Combined(ss, low, high)
<1> DEFINE S == {n \in Nat : low - 1 + n <= high =>
                               Combined(rs, low, low - 1 + n) = Combined(ss, low, low - 1 + n)}
<1>1. MaxInt \in Nat /\ low \in Nat /\ high \in Int /\ low - 1 <= high /\ high <= MaxInt
  BY TreeAssumption
<1>2. 0 \in S
  <2>1. low - 1 \in -1 .. MaxInt /\ low - 1 < low /\ low - 1 + 0 = low - 1
    BY <1>1
  <2>2. Combined(rs, low, low - 1) = identity /\ Combined(ss, low, low - 1) = identity
    BY <2>1, CombinedOneMore
  <2> QED
    BY <2>1, <2>2
<1>3. ASSUME NEW n \in Nat, n \in S PROVE n + 1 \in S
  <2> SUFFICES ASSUME low - 1 + (n + 1) <= high
               PROVE  Combined(rs, low, low - 1 + (n + 1)) = Combined(ss, low, low - 1 + (n + 1))
    OBVIOUS
  <2> DEFINE h == low - 1 + (n + 1)
  <2>1. h \in -1 .. MaxInt /\ ~(h < low) /\ h - 1 = low - 1 + n /\ h \in low .. high /\ low - 1 + n <= high
    BY <1>1
  <2>2. Combined(rs, low, h - 1) = Combined(ss, low, h - 1)
    BY <1>3, <2>1
  <2> HIDE DEF h
  <2>3. /\ Combined(rs, low, h) = combine(Combined(rs, low, h - 1), rs[h])
        /\ Combined(ss, low, h) = combine(Combined(ss, low, h - 1), ss[h])
    BY <2>1, CombinedOneMore
  <2> QED
    BY <2>1, <2>2, <2>3 DEF h
<1>4. high - low + 1 \in S
  <2>1. high - low + 1 \in Nat
    BY <1>1
  <2> HIDE DEF S
  <2> QED
    BY <1>2, <1>3, <2>1, AllNaturals
<1>5. low - 1 + (high - low + 1) = high
  BY <1>1
<1> QED
  BY <1>4, <1>5

\* Identities combine to the identity.
LEMMA CombinedNone ==
    ASSUME NEW rs, NEW low \in Nat, NEW high \in low - 1 .. MaxInt,
           \A i \in low .. high : rs[i] = identity
    PROVE  Combined(rs, low, high) = identity
<1> DEFINE S == {n \in Nat : low - 1 + n <= high => Combined(rs, low, low - 1 + n) = identity}
<1>1. MaxInt \in Nat /\ low \in Nat /\ high \in Int /\ low - 1 <= high /\ high <= MaxInt
  BY TreeAssumption
<1>2. 0 \in S
  <2>1. low - 1 \in -1 .. MaxInt /\ low - 1 < low /\ low - 1 + 0 = low - 1
    BY <1>1
  <2>2. Combined(rs, low, low - 1) = identity
    BY <2>1, CombinedOneMore
  <2> QED
    BY <2>1, <2>2
<1>3. ASSUME NEW n \in Nat, n \in S PROVE n + 1 \in S
  <2> SUFFICES ASSUME low - 1 + (n + 1) <= high PROVE Combined(rs, low, low - 1 + (n + 1)) = identity
    OBVIOUS
  <2> DEFINE h == low - 1 + (n + 1)
  <2>1. h \in -1 .. MaxInt /\ ~(h < low) /\ h - 1 = low - 1 + n /\ h \in low .. high /\ low - 1 + n <= high
    BY <1>1
  <2>2. Combined(rs, low, h - 1) = identity
    BY <1>3, <2>1
  <2> HIDE DEF h
  <2>3. Combined(rs, low, h) = combine(identity, identity)
    BY <2>1, <2>2, CombinedOneMore
  <2>4. combine(identity, identity) = identity
    BY DEF combine, identity
  <2> QED
    BY <2>3, <2>4 DEF h
<1>4. high - low + 1 \in S
  <2>1. high - low + 1 \in Nat
    BY <1>1
  <2> HIDE DEF S
  <2> QED
    BY <1>2, <1>3, <2>1, AllNaturals
<1>5. low - 1 + (high - low + 1) = high
  BY <1>1
<1> QED
  BY <1>4, <1>5

\* Two ranges side by side.
LEMMA CombinedSplit ==
    ASSUME NEW rs, NEW low \in Nat, NEW high \in low - 1 .. MaxInt, NEW mid \in low - 1 .. high,
           Values(rs, low, high)
    PROVE  Combined(rs, low, high) = combine(Combined(rs, low, mid), Combined(rs, mid + 1, high))
<1> DEFINE S == {n \in Nat : mid + n <= high =>
                    Combined(rs, low, mid + n) = combine(Combined(rs, low, mid), Combined(rs, mid + 1, mid + n))}
<1>1. /\ MaxInt \in Nat /\ low \in Nat /\ high \in Int /\ low - 1 <= high /\ high <= MaxInt
      /\ mid \in Int /\ low - 1 <= mid /\ mid <= high /\ mid + 1 \in Nat
  BY TreeAssumption
<1>2. ASSUME NEW h \in mid .. high
      PROVE  Combined(rs, low, h) \in Seq(Symbols) /\ Combined(rs, mid + 1, h) \in Seq(Symbols)
  <2>1. h \in low - 1 .. MaxInt /\ h \in (mid + 1) - 1 .. MaxInt
    BY <1>1
  <2>2. Values(rs, low, h) /\ Values(rs, mid + 1, h)
    BY <1>1 DEF Values
  <2> QED
    BY <1>1, <2>1, <2>2, CombinedType
<1>3. 0 \in S
  <2>1. mid + 0 = mid /\ mid \in mid .. high /\ mid < mid + 1 /\ mid \in -1 .. MaxInt
    BY <1>1
  <2>2. Combined(rs, mid + 1, mid) = identity
    BY <1>1, <2>1, CombinedOneMore
  <2>3. combine(Combined(rs, low, mid), identity) = Combined(rs, low, mid)
    BY <1>2, <2>1 DEF combine, identity
  <2> QED
    BY <2>1, <2>2, <2>3
<1>4. ASSUME NEW n \in Nat, n \in S PROVE n + 1 \in S
  <2> SUFFICES ASSUME mid + (n + 1) <= high
               PROVE  Combined(rs, low, mid + (n + 1)) =
                        combine(Combined(rs, low, mid), Combined(rs, mid + 1, mid + (n + 1)))
    OBVIOUS
  <2> DEFINE h == mid + (n + 1)
  <2>1. /\ h \in -1 .. MaxInt /\ ~(h < low) /\ ~(h < mid + 1) /\ h - 1 = mid + n /\ h \in low .. high
        /\ mid + n <= high /\ h - 1 \in mid .. high /\ mid \in mid .. high
    BY <1>1
  <2>2. Combined(rs, low, h - 1) = combine(Combined(rs, low, mid), Combined(rs, mid + 1, h - 1))
    BY <1>4, <2>1
  <2> HIDE DEF h
  <2>3. /\ Combined(rs, low, h) = combine(Combined(rs, low, h - 1), rs[h])
        /\ Combined(rs, mid + 1, h) = combine(Combined(rs, mid + 1, h - 1), rs[h])
    BY <1>1, <2>1, CombinedOneMore
  <2>4. /\ rs[h] \in Seq(Symbols) /\ Combined(rs, low, mid) \in Seq(Symbols)
        /\ Combined(rs, mid + 1, h - 1) \in Seq(Symbols)
    BY <1>2, <2>1 DEF Values
  <2>5. combine(combine(Combined(rs, low, mid), Combined(rs, mid + 1, h - 1)), rs[h]) =
          combine(Combined(rs, low, mid), combine(Combined(rs, mid + 1, h - 1), rs[h]))
    BY <2>4, CombineIs
  <2> QED
    BY <2>2, <2>3, <2>5 DEF h
<1>5. high - mid \in S
  <2>1. high - mid \in Nat
    BY <1>1
  <2> HIDE DEF S
  <2> QED
    BY <1>3, <1>4, <2>1, AllNaturals
<1>6. mid + (high - mid) = high
  BY <1>1
<1> QED
  BY <1>5, <1>6

\* The ranges that the calls reach from the one of a node.
AllRanges    == {r \in Nat \X Nat : r[1] <= r[2]}
Children(r)  == IF r[1] < r[2] THEN {Left(r), Right(r)} ELSE {}
HalvesIn(S) == \A r \in S : Children(r) \subseteq S
Below(q)     == {r \in AllRanges : \A S \in SUBSET AllRanges : q \in S /\ HalvesIn(S) => r \in S}
Within(r, q) == q[1] <= r[1] /\ r[2] <= q[2]

\* The halves of a range.
LEMMA Halves ==
    ASSUME NEW q \in AllRanges, q[1] < q[2]
    PROVE  /\ Left(q) \in AllRanges /\ Right(q) \in AllRanges
           /\ Mid(q) \in q[1] .. q[2] - 1
           /\ Left(q)[1] = q[1] /\ Left(q)[2] = Mid(q) /\ Right(q)[1] = Mid(q) + 1 /\ Right(q)[2] = q[2]
<1>1. q[1] \in Nat /\ q[2] \in Nat
  BY DEF AllRanges
<1>2. \A d \in Nat : d > 0 => d \div 2 \in Nat /\ d \div 2 < d
  OBVIOUS
<1>3. q[2] - q[1] \in Nat /\ q[2] - q[1] > 0
  BY <1>1
<1>4. (q[2] - q[1]) \div 2 \in Nat /\ (q[2] - q[1]) \div 2 < q[2] - q[1]
  BY <1>2, <1>3
<1>5. Mid(q) \in q[1] .. q[2] - 1
  BY <1>1, <1>4 DEF Mid
<1>6. Left(q) = <<q[1], Mid(q)>> /\ Right(q) = <<Mid(q) + 1, q[2]>>
  BY DEF Left, Right
<1> QED
  BY <1>1, <1>5, <1>6 DEF AllRanges

\* What is below a range: itself and what is below its halves, all within it.
LEMMA BelowIs ==
    ASSUME NEW q \in AllRanges
    PROVE  /\ q \in Below(q) /\ HalvesIn(Below(q))
           /\ \A r \in Below(q) : r \in AllRanges /\ Within(r, q)
           /\ q[1] < q[2] => Below(Left(q)) \subseteq Below(q) /\ Below(Right(q)) \subseteq Below(q)
           /\ \A r \in Below(q) : r = q \/ (q[1] < q[2] /\ (r \in Below(Left(q)) \/ r \in Below(Right(q))))
<1>1. ASSUME NEW x \in AllRanges PROVE x \in Below(x) /\ HalvesIn(Below(x)) /\ Below(x) \in SUBSET AllRanges
  <2>1. x \in Below(x) /\ Below(x) \in SUBSET AllRanges
    BY DEF Below
  <2>2. ASSUME NEW r \in Below(x), NEW c \in Children(r) PROVE c \in Below(x)
    <3>1. r \in AllRanges
      BY DEF Below
    <3>2. c \in AllRanges
      BY <3>1, Halves DEF Children
    <3>3. ASSUME NEW S \in SUBSET AllRanges, x \in S, HalvesIn(S) PROVE c \in S
      <4>1. r \in S
        BY <3>3 DEF Below
      <4> QED
        BY <3>3, <4>1 DEF HalvesIn
    <3> QED
      BY <3>2, <3>3 DEF Below
  <2> QED
    BY <2>1, <2>2 DEF HalvesIn
<1>2. ASSUME NEW S \in SUBSET AllRanges, q \in S, HalvesIn(S) PROVE Below(q) \subseteq S
  BY <1>2 DEF Below
<1>3. \A r \in Below(q) : r \in AllRanges /\ Within(r, q)
  <2> DEFINE S == {r \in AllRanges : Within(r, q)}
  <2>1. q \in S
    BY DEF Within, AllRanges
  <2>2. ASSUME NEW r \in S, NEW c \in Children(r) PROVE c \in S
    <3>1. r \in AllRanges /\ r[1] < r[2] /\ c \in {Left(r), Right(r)}
      BY DEF Children
    <3>2. /\ Left(r) \in AllRanges /\ Right(r) \in AllRanges
          /\ Mid(r) \in r[1] .. r[2] - 1
          /\ Left(r)[1] = r[1] /\ Left(r)[2] = Mid(r) /\ Right(r)[1] = Mid(r) + 1 /\ Right(r)[2] = r[2]
      BY <3>1, Halves
    <3>3. r[1] \in Nat /\ r[2] \in Nat /\ q[1] \in Nat /\ q[2] \in Nat /\ q[1] <= r[1] /\ r[2] <= q[2]
      BY DEF AllRanges, Within
    <3>4. Within(Left(r), q) /\ Within(Right(r), q)
      BY <3>2, <3>3 DEF Within
    <3> QED
      BY <3>1, <3>2, <3>4
  <2>3. HalvesIn(S)
    BY <2>2 DEF HalvesIn
  <2> QED
    BY <1>2, <2>1, <2>3
<1>4. ASSUME q[1] < q[2] PROVE Below(Left(q)) \subseteq Below(q) /\ Below(Right(q)) \subseteq Below(q)
  <2>1. Left(q) \in AllRanges /\ Right(q) \in AllRanges /\ Children(q) = {Left(q), Right(q)}
    BY <1>4, Halves DEF Children
  <2>2. ASSUME NEW c \in Children(q), NEW r \in Below(c) PROVE r \in Below(q)
    <3>1. ASSUME NEW S \in SUBSET AllRanges, q \in S, HalvesIn(S) PROVE r \in S
      <4>1. c \in S
        BY <3>1 DEF HalvesIn
      <4> QED
        BY <3>1, <4>1 DEF Below
    <3> QED
      BY <3>1 DEF Below
  <2> QED
    BY <2>1, <2>2
<1>5. ASSUME NEW r \in Below(q)
      PROVE  r = q \/ (q[1] < q[2] /\ (r \in Below(Left(q)) \/ r \in Below(Right(q))))
  <2>1. CASE q[1] < q[2]
    <3> DEFINE S == {q} \cup Below(Left(q)) \cup Below(Right(q))
    <3>1. Left(q) \in AllRanges /\ Right(q) \in AllRanges /\ Children(q) = {Left(q), Right(q)}
      BY <2>1, Halves DEF Children
    <3>2. /\ Left(q) \in Below(Left(q)) /\ HalvesIn(Below(Left(q))) /\ Below(Left(q)) \in SUBSET AllRanges
          /\ Right(q) \in Below(Right(q)) /\ HalvesIn(Below(Right(q))) /\ Below(Right(q)) \in SUBSET AllRanges
      BY <1>1, <3>1
    <3>3. S \in SUBSET AllRanges /\ q \in S
      BY <3>2
    <3>4. HalvesIn(S)
      <4> SUFFICES ASSUME NEW x \in S PROVE Children(x) \subseteq S
        BY DEF HalvesIn
      <4>1. CASE x = q
        BY <3>1, <3>2, <4>1
      <4>2. CASE x \in Below(Left(q))
        BY <3>2, <4>2 DEF HalvesIn
      <4>3. CASE x \in Below(Right(q))
        BY <3>2, <4>3 DEF HalvesIn
      <4> QED
        BY <4>1, <4>2, <4>3
    <3>5. r \in S
      BY <1>2, <3>3, <3>4
    <3> QED
      BY <2>1, <3>5
  <2>2. CASE ~(q[1] < q[2])
    <3>1. HalvesIn({q})
      BY <2>2 DEF HalvesIn, Children
    <3>2. {q} \in SUBSET AllRanges
      OBVIOUS
    <3> QED
      BY <1>2, <3>1, <3>2
  <2> QED
    BY <2>1, <2>2
<1> QED
  BY <1>1, <1>3, <1>4, <1>5

\* Ranges of a tree: those below a range of it are.
LEMMA RangesAre ==
    ASSUME NEW n \in Nat, NEW q \in Ranges(n)
    PROVE  /\ q \in AllRanges /\ \A r \in Below(q) : r \in Ranges(n)
           /\ q[1] \in 0 .. n - 1 /\ q[2] \in 0 .. n - 1 /\ q[1] <= q[2]
<1>1. q \in AllRanges /\ q[1] \in 0 .. n - 1 /\ q[2] \in 0 .. n - 1 /\ q[1] <= q[2]
  BY DEF Ranges, AllRanges
<1>2. ASSUME NEW r \in Below(q) PROVE r \in Ranges(n)
  <2>1. r \in AllRanges /\ q[1] <= r[1] /\ r[2] <= q[2]
    BY <1>1, BelowIs DEF Within
  <2>2. r = <<r[1], r[2]>> /\ r[1] \in Nat /\ r[2] \in Nat /\ r[1] <= r[2]
    BY <2>1 DEF AllRanges
  <2>3. r[1] \in 0 .. n - 1 /\ r[2] \in 0 .. n - 1
    BY <1>1, <2>1, <2>2
  <2> QED
    BY <2>2, <2>3 DEF Ranges
<1> QED
  BY <1>1, <1>2

\* What a node has, and a range without one.
Holds(ns, rs, r) ==
    IF r \in DOMAIN ns THEN ns[r] = Combined(rs, r[1], r[2])
    ELSE \A i \in r[1] .. r[2] : rs[i] = identity

\* Two trees have the same node for r.
SameNode(ns, ms, r) == (r \in DOMAIN ns <=> r \in DOMAIN ms) /\ (r \in DOMAIN ms => ns[r] = ms[r])

\* A node whose readings do not change holds what it held.
LEMMA HoldsStill ==
    ASSUME NEW ns, NEW ms, NEW rs, NEW ss, NEW r \in AllRanges, r[2] <= MaxInt, Holds(ms, rs, r),
           SameNode(ns, ms, r), \A i \in r[1] .. r[2] : rs[i] = ss[i]
    PROVE  Holds(ns, ss, r)
<1>1. r[1] \in Nat /\ r[2] \in r[1] - 1 .. MaxInt
  BY DEF AllRanges
<1>2. Combined(rs, r[1], r[2]) = Combined(ss, r[1], r[2])
  BY <1>1, CombinedSame
<1> QED
  BY <1>2 DEF Holds, SameNode

\* The value of a node, or of none, is that of its range.
LEMMA ValueHeld ==
    ASSUME NEW ns, NEW rs, NEW r \in AllRanges, r[2] <= MaxInt, Holds(ns, rs, r)
    PROVE  valueOf(ns, r) = Combined(rs, r[1], r[2])
<1>1. r[1] \in Nat /\ r[2] \in r[1] - 1 .. MaxInt
  BY DEF AllRanges
<1>2. CASE r \in DOMAIN ns
  BY <1>2 DEF Holds, valueOf
<1>3. CASE r \notin DOMAIN ns
  <2>1. \A i \in r[1] .. r[2] : rs[i] = identity
    BY <1>3 DEF Holds
  <2>2. Combined(rs, r[1], r[2]) = identity
    BY <1>1, <2>1, CombinedNone
  <2> QED
    BY <1>3, <2>2 DEF valueOf
<1> QED
  BY <1>2, <1>3

\* The combined values of the halves are those of the range.
LEMMA HalvesCombine ==
    ASSUME NEW rs, NEW q \in AllRanges, q[1] < q[2], q[2] <= MaxInt, Values(rs, q[1], q[2])
    PROVE  Combined(rs, q[1], q[2]) =
             combine(Combined(rs, Left(q)[1], Left(q)[2]), Combined(rs, Right(q)[1], Right(q)[2]))
<1>1. q[1] \in Nat /\ q[2] \in q[1] - 1 .. MaxInt /\ q[2] \in Nat
  BY DEF AllRanges
<1>2. /\ Mid(q) \in q[1] .. q[2] - 1
      /\ Left(q)[1] = q[1] /\ Left(q)[2] = Mid(q) /\ Right(q)[1] = Mid(q) + 1 /\ Right(q)[2] = q[2]
  BY Halves
<1>3. Mid(q) \in q[1] - 1 .. q[2]
  BY <1>1, <1>2
<1>4. Combined(rs, q[1], q[2]) = combine(Combined(rs, q[1], Mid(q)), Combined(rs, Mid(q) + 1, q[2]))
  BY <1>1, <1>3, CombinedSplit
<1> QED
  BY <1>2, <1>4

\* Writing one node leaves the others.
LEMMA WrittenIs ==
    ASSUME NEW ns, NEW q, NEW v
    PROVE  /\ DOMAIN Written(ns, q, v) = DOMAIN ns \cup {q} /\ Written(ns, q, v)[q] = v
           /\ \A r : r # q => SameNode(Written(ns, q, v), ns, r)
BY DEF Written, SameNode

\* The child on the way to an index.
ChildFor(q, index) == IF index <= Mid(q) THEN Left(q) ELSE Right(q)

\* insert_ of a node is that of the child on the way, and then its own value.
LEMMA InsertIs ==
    ASSUME NEW index \in Int, NEW value, size \in Nat, NEW q \in Ranges(size)
    PROVE  insert_(index, value)[q] =
             IF q[1] = q[2] THEN Written(nodes, q, value)
             ELSE LET below == insert_(index, value)[ChildFor(q, index)]
                  IN  Written(below, q, combine(valueOf(below, Left(q)), valueOf(below, Right(q))))
<1> DEFINE D == Ranges(size)
           of(x, below) == IF x[1] = x[2] THEN Written(nodes, x, value)
                           ELSE Written(below, x, combine(valueOf(below, Left(x)), valueOf(below, Right(x))))
           Body(f) == [x \in D |-> of(x, f[ChildFor(x, index)])]
           rank(x) == x[2] - x[1]
           Solved == {k \in Nat : \E g : \A x \in D : rank(x) < k => g[x] = Body(g)[x]}
           c == CHOOSE f : f = Body(f)
<1>1. ASSUME NEW x \in D
      PROVE  /\ rank(x) \in Nat /\ rank(x) < size
             /\ x[1] # x[2] => ChildFor(x, index) \in D /\ rank(ChildFor(x, index)) < rank(x)
  <2>1. /\ x \in AllRanges /\ (\A r \in Below(x) : r \in D)
        /\ x[1] \in 0 .. size - 1 /\ x[2] \in 0 .. size - 1 /\ x[1] <= x[2]
    BY RangesAre
  <2>2. ASSUME x[1] # x[2] PROVE ChildFor(x, index) \in D /\ rank(ChildFor(x, index)) < rank(x)
    <3>1. x[1] < x[2]
      BY <2>1, <2>2
    <3>2. /\ Left(x) \in AllRanges /\ Right(x) \in AllRanges /\ Mid(x) \in x[1] .. x[2] - 1
          /\ Left(x)[1] = x[1] /\ Left(x)[2] = Mid(x) /\ Right(x)[1] = Mid(x) + 1 /\ Right(x)[2] = x[2]
      BY <2>1, <3>1, Halves
    <3>3. Left(x) \in Below(x) /\ Right(x) \in Below(x)
      BY <2>1, <3>1, <3>2, BelowIs
    <3>4. rank(Left(x)) < rank(x) /\ rank(Right(x)) < rank(x)
      BY <2>1, <3>2
    <3> HIDE DEF rank
    <3> QED
      BY <2>1, <3>3, <3>4 DEF ChildFor
  <2> QED
    BY <2>1, <2>2
<1>2. \A f : \A x \in D : Body(f)[x] = of(x, f[ChildFor(x, index)])
  OBVIOUS
<1>3. 0 \in Solved
  <2>1. \A x \in D : ~(rank(x) < 0)
    BY <1>1
  <2> HIDE DEF D, rank, Body
  <2> QED
    BY <2>1
<1>4. \A x \in D : \A a, b : x[1] = x[2] => of(x, a) = of(x, b)
  OBVIOUS
<1>5. ASSUME NEW k \in Nat, k \in Solved PROVE k + 1 \in Solved
  <2>1. PICK g : \A x \in D : rank(x) < k => g[x] = Body(g)[x]
    BY <1>5
  <2> DEFINE h == Body(g)
  <2>2. ASSUME NEW x \in D, rank(x) < k + 1 PROVE h[x] = Body(h)[x]
    <3> DEFINE y == ChildFor(x, index)
    <3>1. h[x] = of(x, g[y]) /\ Body(h)[x] = of(x, h[y])
      BY <1>2
    <3>2. ASSUME x[1] # x[2] PROVE h[y] = g[y]
      <4>1. y \in D /\ rank(y) < k
        <5>1. rank(x) \in Nat /\ y \in D /\ rank(y) < rank(x) /\ rank(y) \in Nat
          BY <1>1, <3>2
        <5> HIDE DEF rank
        <5> QED
          BY <2>2, <5>1
      <4> HIDE DEF y, D, rank, Body
      <4> QED
        BY <2>1, <4>1
    <3> HIDE DEF y, D, rank, h, Body, of
    <3> QED
      BY <1>4, <3>1, <3>2
  <2> HIDE DEF h, Body, rank, D
  <2> QED
    BY <2>2
<1>6. size \in Solved
  <2> HIDE DEF Solved
  <2> QED
    BY <1>3, <1>5, AllNaturals
<1>7. c = Body(c)
  <2>1. PICK g : \A x \in D : rank(x) < size => g[x] = Body(g)[x]
    BY <1>6
  <2> DEFINE h == Body(g)
  <2>2. \A x \in D : h[x] = g[x]
    <3> HIDE DEF D, rank, Body
    <3> QED
      BY <1>1, <2>1
  <2>3. \A x \in D : of(x, g[ChildFor(x, index)]) = of(x, h[ChildFor(x, index)])
    <3> SUFFICES ASSUME NEW x \in D PROVE of(x, g[ChildFor(x, index)]) = of(x, h[ChildFor(x, index)])
      OBVIOUS
    <3>1. x[1] # x[2] => ChildFor(x, index) \in D
      BY <1>1
    <3>2. x[1] # x[2] => g[ChildFor(x, index)] = h[ChildFor(x, index)]
      <4> HIDE DEF h, D
      <4> QED
        BY <2>2, <3>1
    <3> HIDE DEF of, h, D
    <3> QED
      BY <1>4, <3>2
  <2>4. h = Body(h)
    <3> HIDE DEF of, D
    <3> QED
      BY <2>3
  <2> HIDE DEF h, Body
  <2> QED
    BY <2>4
<1>8. \A x \in D : c[x] = of(x, c[ChildFor(x, index)])
  <2> HIDE DEF c, of
  <2> QED
    BY <1>7
<1>9. insert_(index, value) = c
  BY DEF insert_, ChildFor
<1> HIDE DEF c
<1>10. insert_(index, value)[q] = of(q, insert_(index, value)[ChildFor(q, index)])
  BY <1>8, <1>9
<1> HIDE DEF D
<1> QED
  BY <1>10

\* query_ of a node is found from those of its children, unless the node is
\* outside the range asked for, inside it, or null; and that of a single index is
\* found without them.
LEMMA QueryIs ==
    ASSUME NEW left \in Int, NEW right \in Int, size \in Nat, NEW q \in Ranges(size)
    PROVE  query_(left, right)[q] =
             IF q \notin DOMAIN nodes \/ right < q[1] \/ q[2] < left THEN identity
             ELSE IF left <= q[1] /\ q[2] <= right THEN nodes[q]
             ELSE combine(query_(left, right)[Left(q)], query_(left, right)[Right(q)])
<1> DEFINE D == Ranges(size)
           of(x, a, b) == IF x \notin DOMAIN nodes \/ right < x[1] \/ x[2] < left THEN identity
                          ELSE IF left <= x[1] /\ x[2] <= right THEN nodes[x]
                          ELSE combine(a, b)
           Body(f) == [x \in D |-> of(x, f[Left(x)], f[Right(x)])]
           rank(x) == x[2] - x[1]
           Solved == {k \in Nat : \E g : \A x \in D : rank(x) < k => g[x] = Body(g)[x]}
           c == CHOOSE f : f = Body(f)
<1>1. ASSUME NEW x \in D
      PROVE  /\ rank(x) \in Nat /\ rank(x) < size
             /\ x[1] # x[2] => /\ Left(x) \in D /\ rank(Left(x)) < rank(x)
                               /\ Right(x) \in D /\ rank(Right(x)) < rank(x)
  <2>1. /\ x \in AllRanges /\ (\A r \in Below(x) : r \in D)
        /\ x[1] \in 0 .. size - 1 /\ x[2] \in 0 .. size - 1 /\ x[1] <= x[2]
    BY RangesAre
  <2>2. ASSUME x[1] # x[2]
        PROVE  Left(x) \in D /\ rank(Left(x)) < rank(x) /\ Right(x) \in D /\ rank(Right(x)) < rank(x)
    <3>1. x[1] < x[2]
      BY <2>1, <2>2
    <3>2. /\ Left(x) \in AllRanges /\ Right(x) \in AllRanges /\ Mid(x) \in x[1] .. x[2] - 1
          /\ Left(x)[1] = x[1] /\ Left(x)[2] = Mid(x) /\ Right(x)[1] = Mid(x) + 1 /\ Right(x)[2] = x[2]
      BY <2>1, <3>1, Halves
    <3>3. Left(x) \in Below(x) /\ Right(x) \in Below(x)
      BY <2>1, <3>1, <3>2, BelowIs
    <3>4. rank(Left(x)) < rank(x) /\ rank(Right(x)) < rank(x)
      BY <2>1, <3>2
    <3> HIDE DEF rank
    <3> QED
      BY <2>1, <3>3, <3>4
  <2> QED
    BY <2>1, <2>2
<1>2. \A f : \A x \in D : Body(f)[x] = of(x, f[Left(x)], f[Right(x)])
  OBVIOUS
<1>3. 0 \in Solved
  <2>1. \A x \in D : ~(rank(x) < 0)
    BY <1>1
  <2> HIDE DEF D, rank, Body
  <2> QED
    BY <2>1
<1>4. \A x \in D : \A a, b, d, e : x[1] = x[2] => of(x, a, b) = of(x, d, e)
  <2> SUFFICES ASSUME NEW x \in D, x[1] = x[2], ~(right < x[1]), ~(x[2] < left)
               PROVE  left <= x[1] /\ x[2] <= right
    OBVIOUS
  <2>1. x[1] \in Int /\ x[2] \in Int
    BY RangesAre
  <2> QED
    BY <2>1
<1>5. ASSUME NEW k \in Nat, k \in Solved PROVE k + 1 \in Solved
  <2>1. PICK g : \A x \in D : rank(x) < k => g[x] = Body(g)[x]
    BY <1>5
  <2> DEFINE h == Body(g)
  <2>2. ASSUME NEW x \in D, rank(x) < k + 1 PROVE h[x] = Body(h)[x]
    <3>1. h[x] = of(x, g[Left(x)], g[Right(x)]) /\ Body(h)[x] = of(x, h[Left(x)], h[Right(x)])
      BY <1>2
    <3>2. ASSUME NEW y \in {Left(x), Right(x)}, x[1] # x[2] PROVE h[y] = g[y]
      <4>1. y \in D /\ rank(y) < k
        <5>1. rank(x) \in Nat /\ y \in D /\ rank(y) < rank(x)
          BY <1>1, <3>2
        <5>2. rank(y) \in Nat
          BY <1>1, <5>1
        <5> HIDE DEF rank
        <5> QED
          BY <2>2, <5>1, <5>2
      <4> HIDE DEF D, rank, Body
      <4> QED
        BY <2>1, <4>1
    <3> HIDE DEF D, rank, h, Body, of
    <3>3. x[1] # x[2] => h[Left(x)] = g[Left(x)] /\ h[Right(x)] = g[Right(x)]
      BY <3>2
    <3> QED
      BY <1>4, <3>1, <3>3
  <2> HIDE DEF h, Body, rank, D
  <2> QED
    BY <2>2
<1>6. size \in Solved
  <2> HIDE DEF Solved
  <2> QED
    BY <1>3, <1>5, AllNaturals
<1>7. c = Body(c)
  <2>1. PICK g : \A x \in D : rank(x) < size => g[x] = Body(g)[x]
    BY <1>6
  <2> DEFINE h == Body(g)
  <2>2. \A x \in D : h[x] = g[x]
    <3> HIDE DEF D, rank, Body
    <3> QED
      BY <1>1, <2>1
  <2>3. \A x \in D : of(x, g[Left(x)], g[Right(x)]) = of(x, h[Left(x)], h[Right(x)])
    <3> SUFFICES ASSUME NEW x \in D
                 PROVE  of(x, g[Left(x)], g[Right(x)]) = of(x, h[Left(x)], h[Right(x)])
      OBVIOUS
    <3>1. x[1] # x[2] => Left(x) \in D /\ Right(x) \in D
      BY <1>1
    <3>2. x[1] # x[2] => g[Left(x)] = h[Left(x)] /\ g[Right(x)] = h[Right(x)]
      <4> HIDE DEF h, D
      <4> QED
        BY <2>2, <3>1
    <3> HIDE DEF of, h, D
    <3> QED
      BY <1>4, <3>2
  <2>4. h = Body(h)
    <3> HIDE DEF of, D
    <3> QED
      BY <2>3
  <2> HIDE DEF h, Body
  <2> QED
    BY <2>4
<1>8. \A x \in D : c[x] = of(x, c[Left(x)], c[Right(x)])
  <2> HIDE DEF c, of
  <2> QED
    BY <1>7
<1>9. query_(left, right) = c
  BY DEF query_
<1> HIDE DEF c
<1>10. query_(left, right)[q] = of(q, query_(left, right)[Left(q)], query_(left, right)[Right(q)])
  BY <1>8, <1>9
<1> HIDE DEF D
<1> QED
  BY <1>10

\* The tree is that of its readings.
TreeIInv ==
    /\ size \in 1 .. MaxInt
    /\ readings \in [0 .. size - 1 -> Seq(Symbols)]
    /\ DOMAIN nodes \subseteq Ranges(size)
    /\ \A r \in Below(Root(size)) : Holds(nodes, readings, r)

\* The range of the root.
LEMMA RootIs ==
    ASSUME NEW n \in Nat \ {0}
    PROVE  Root(n) \in Ranges(n) /\ Root(n) \in AllRanges /\ Root(n)[1] = 0 /\ Root(n)[2] = n - 1
<1>1. 0 \in 0 .. n - 1 /\ n - 1 \in 0 .. n - 1 /\ 0 <= n - 1 /\ n - 1 \in Nat
  OBVIOUS
<1> QED
  BY <1>1 DEF Root, Ranges, AllRanges

\* The ranges of the tree.
LEMMA RangeOfTree ==
    ASSUME TreeIInv, NEW q \in Below(Root(size))
    PROVE  /\ q \in Ranges(size) /\ q \in AllRanges
           /\ q[1] \in 0 .. size - 1 /\ q[2] \in q[1] .. size - 1 /\ q[2] <= MaxInt
           /\ q[1] \in Nat /\ q[2] \in q[1] - 1 .. MaxInt
           /\ q[1] < q[2] => Left(q) \in Below(Root(size)) /\ Right(q) \in Below(Root(size))
<1>1. size \in Nat \ {0} /\ size - 1 < MaxInt /\ MaxInt \in Nat
  BY TreeAssumption DEF TreeIInv
<1>2. Root(size) \in Ranges(size) /\ Root(size) \in AllRanges
  BY <1>1, RootIs
<1>3. q \in Ranges(size)
  BY <1>1, <1>2, RangesAre
<1>4. q \in AllRanges /\ q[1] \in 0 .. size - 1 /\ q[2] \in 0 .. size - 1 /\ q[1] <= q[2]
  BY <1>1, <1>3, RangesAre
<1>5. q[1] < q[2] => Left(q) \in Below(Root(size)) /\ Right(q) \in Below(Root(size))
  BY <1>2, BelowIs DEF HalvesIn, Children
<1> QED
  BY <1>1, <1>3, <1>4, <1>5

\* The readings that a query asks for, among identities.
AskedFor(left, right) == [i \in 0 .. size - 1 |-> IF left <= i /\ i <= right THEN readings[i] ELSE identity]

\* One node of a query: the values of its range that are asked for.
LEMMA QueryStep ==
    ASSUME TreeIInv, NEW left \in Int, NEW right \in Int, NEW q \in Below(Root(size)),
           q[1] < q[2] =>
             \A y \in {Left(q), Right(q)} :
                query_(left, right)[y] = Combined(AskedFor(left, right), y[1], y[2])
    PROVE  query_(left, right)[q] = Combined(AskedFor(left, right), q[1], q[2])
<1> DEFINE m == AskedFor(left, right)
<1>1. /\ q \in Ranges(size) /\ q \in AllRanges
      /\ q[1] \in 0 .. size - 1 /\ q[2] \in q[1] .. size - 1 /\ q[2] <= MaxInt
      /\ q[1] \in Nat /\ q[2] \in q[1] - 1 .. MaxInt
  BY RangeOfTree
<1>2. size \in Nat /\ Holds(nodes, readings, q)
  BY DEF TreeIInv
<1>3. /\ query_(left, right)[q] =
           IF q \notin DOMAIN nodes \/ right < q[1] \/ q[2] < left THEN identity
           ELSE IF left <= q[1] /\ q[2] <= right THEN nodes[q]
           ELSE combine(query_(left, right)[Left(q)], query_(left, right)[Right(q)])
  BY <1>1, <1>2, QueryIs
<1>4. ASSUME NEW i \in q[1] .. q[2]
      PROVE  /\ m[i] = (IF left <= i /\ i <= right THEN readings[i] ELSE identity)
             /\ m[i] \in Seq(Symbols)
  <2>1. i \in 0 .. size - 1
    BY <1>1, <1>2
  <2>2. m[i] = IF left <= i /\ i <= right THEN readings[i] ELSE identity
    BY <2>1 DEF AskedFor
  <2>3. readings[i] \in Seq(Symbols) /\ identity \in Seq(Symbols)
    BY <2>1, CombineIs DEF TreeIInv
  <2> HIDE DEF m
  <2> QED
    BY <2>2, <2>3
<1> HIDE DEF m
<1>5. CASE q \notin DOMAIN nodes \/ right < q[1] \/ q[2] < left
  <2>1. \A i \in q[1] .. q[2] : m[i] = identity
    <3> SUFFICES ASSUME NEW i \in q[1] .. q[2] PROVE m[i] = identity
      OBVIOUS
    <3>1. CASE q \notin DOMAIN nodes
      <4>1. readings[i] = identity
        BY <1>2, <3>1 DEF Holds
      <4> QED
        BY <1>4, <4>1
    <3>2. CASE right < q[1] \/ q[2] < left
      <4>1. ~(left <= i /\ i <= right)
        BY <1>1, <3>2
      <4> QED
        BY <1>4, <4>1
    <3> QED
      BY <1>5, <3>1, <3>2
  <2>2. Combined(m, q[1], q[2]) = identity
    BY <1>1, <2>1, CombinedNone
  <2> QED
    BY <1>3, <1>5, <2>2 DEF m
<1>6. CASE ~(q \notin DOMAIN nodes \/ right < q[1] \/ q[2] < left) /\ left <= q[1] /\ q[2] <= right
  <2>1. \A i \in q[1] .. q[2] : m[i] = readings[i]
    <3> SUFFICES ASSUME NEW i \in q[1] .. q[2] PROVE m[i] = readings[i]
      OBVIOUS
    <3>1. left <= i /\ i <= right
      BY <1>1, <1>6
    <3> QED
      BY <1>4, <3>1
  <2>2. Combined(m, q[1], q[2]) = Combined(readings, q[1], q[2])
    BY <1>1, <2>1, CombinedSame
  <2>3. nodes[q] = Combined(readings, q[1], q[2])
    BY <1>2, <1>6 DEF Holds
  <2> QED
    BY <1>3, <1>6, <2>2, <2>3 DEF m
<1>7. CASE ~(q \notin DOMAIN nodes \/ right < q[1] \/ q[2] < left) /\ ~(left <= q[1] /\ q[2] <= right)
  <2>1. q[1] < q[2]
    BY <1>1, <1>7
  <2>2. Values(m, q[1], q[2])
    BY <1>4 DEF Values
  <2>3. Combined(m, q[1], q[2]) =
          combine(Combined(m, Left(q)[1], Left(q)[2]), Combined(m, Right(q)[1], Right(q)[2]))
    BY <1>1, <2>1, <2>2, HalvesCombine
  <2>4. /\ query_(left, right)[Left(q)] = Combined(m, Left(q)[1], Left(q)[2])
        /\ query_(left, right)[Right(q)] = Combined(m, Right(q)[1], Right(q)[2])
    BY <2>1 DEF m
  <2>5. query_(left, right)[q] = combine(query_(left, right)[Left(q)], query_(left, right)[Right(q)])
    BY <1>3, <1>7
  <2> QED
    BY <2>3, <2>4, <2>5 DEF m
<1> QED
  BY <1>5, <1>6, <1>7

\* What is shown of a range of the tree from what is shown of its halves is shown
\* of every range of the tree: there is no longest descent.
LEMMA Descent ==
    ASSUME TreeIInv, NEW Shown,
           \A q \in Below(Root(size)) :
              (q[1] < q[2] => Left(q) \in Shown /\ Right(q) \in Shown) => q \in Shown
    PROVE  Below(Root(size)) \subseteq Shown
<1> DEFINE rank(q) == q[2] - q[1]
           S == {k \in Nat : \A q \in Below(Root(size)) : rank(q) < k => q \in Shown}
<1>1. ASSUME NEW q \in Below(Root(size))
      PROVE  /\ rank(q) \in Nat /\ rank(q) < size
             /\ q[1] < q[2] => /\ Left(q) \in Below(Root(size)) /\ rank(Left(q)) < rank(q)
                               /\ Right(q) \in Below(Root(size)) /\ rank(Right(q)) < rank(q)
  <2>1. /\ q \in AllRanges /\ q[1] \in 0 .. size - 1 /\ q[2] \in q[1] .. size - 1
        /\ q[1] < q[2] => Left(q) \in Below(Root(size)) /\ Right(q) \in Below(Root(size))
    BY RangeOfTree
  <2>2. size \in Nat
    BY DEF TreeIInv
  <2>3. q[1] < q[2] => /\ Mid(q) \in q[1] .. q[2] - 1
                       /\ Left(q)[1] = q[1] /\ Left(q)[2] = Mid(q)
                       /\ Right(q)[1] = Mid(q) + 1 /\ Right(q)[2] = q[2]
    BY <2>1, Halves
  <2>4. q[1] < q[2] => rank(Left(q)) < rank(q) /\ rank(Right(q)) < rank(q)
    BY <2>1, <2>2, <2>3
  <2>5. rank(q) \in Nat /\ rank(q) < size
    BY <2>1, <2>2
  <2> HIDE DEF rank
  <2> QED
    BY <2>1, <2>4, <2>5
<1> HIDE DEF rank
<1>2. 0 \in S
  <2>1. \A q \in Below(Root(size)) : ~(rank(q) < 0)
    BY <1>1
  <2> QED
    BY <2>1
<1>3. ASSUME NEW k \in Nat, k \in S PROVE k + 1 \in S
  <2>1. ASSUME NEW q \in Below(Root(size)), rank(q) < k + 1 PROVE q \in Shown
    <3>1. ASSUME NEW y \in Below(Root(size)), rank(y) < rank(q) PROVE y \in Shown
      <4>1. rank(y) < k
        BY <1>1, <2>1, <3>1
      <4> QED
        BY <1>3, <4>1
    <3>2. q[1] < q[2] => Left(q) \in Shown /\ Right(q) \in Shown
      BY <1>1, <3>1
    <3> QED
      BY <3>2
  <2>2. k + 1 \in Nat
    OBVIOUS
  <2> QED
    BY <2>1, <2>2
<1>4. size \in S
  <2>1. size \in Nat
    BY DEF TreeIInv
  <2> HIDE DEF S
  <2> QED
    BY <1>2, <1>3, <2>1, AllNaturals
<1> QED
  BY <1>1, <1>4

\* A query of a tree that is that of its readings combines those asked for.
LEMMA QueryIsRight ==
    ASSUME TreeIInv, NEW left \in 0 .. size - 1, NEW right \in left .. size - 1
    PROVE  query(left, right) = Combined(readings, left, right)
<1> DEFINE m == AskedFor(left, right)
           Shown == {q \in Below(Root(size)) : query_(left, right)[q] = Combined(m, q[1], q[2])}
<1>1. /\ size \in Nat \ {0} /\ size - 1 < MaxInt /\ MaxInt \in Nat /\ left \in Int /\ right \in Int
      /\ 0 <= left /\ left <= right /\ right <= size - 1
  BY TreeAssumption DEF TreeIInv
<1>2. Root(size) \in AllRanges /\ Root(size)[1] = 0 /\ Root(size)[2] = size - 1 /\ Root(size) \in Below(Root(size))
  BY <1>1, RootIs, BelowIs
<1>3. Below(Root(size)) \subseteq Shown
  <2>1. ASSUME NEW q \in Below(Root(size)), q[1] < q[2] => Left(q) \in Shown /\ Right(q) \in Shown
        PROVE  q \in Shown
    <3>1. q[1] < q[2] => \A y \in {Left(q), Right(q)} : query_(left, right)[y] = Combined(m, y[1], y[2])
      BY <2>1
    <3>2. query_(left, right)[q] = Combined(m, q[1], q[2])
      BY <1>1, <3>1, QueryStep
    <3> QED
      BY <3>2
  <2> HIDE DEF Shown
  <2> QED
    BY <2>1, Descent
<1>4. query(left, right) = Combined(m, 0, size - 1)
  <2>1. query_(left, right)[Root(size)] = Combined(m, Root(size)[1], Root(size)[2])
    BY <1>2, <1>3
  <2> QED
    BY <1>2, <2>1 DEF query
<1>5. ASSUME NEW i \in 0 .. size - 1
      PROVE  /\ m[i] = (IF left <= i /\ i <= right THEN readings[i] ELSE identity)
             /\ m[i] \in Seq(Symbols)
  <2>1. m[i] = IF left <= i /\ i <= right THEN readings[i] ELSE identity
    BY DEF AskedFor
  <2>2. readings[i] \in Seq(Symbols) /\ identity \in Seq(Symbols)
    BY CombineIs DEF TreeIInv
  <2> HIDE DEF m
  <2> QED
    BY <2>1, <2>2
<1> HIDE DEF m, Shown
<1>6. Combined(m, 0, left - 1) = identity
  <2>1. left - 1 \in 0 - 1 .. MaxInt
    BY <1>1
  <2>2. \A i \in 0 .. left - 1 : m[i] = identity
    <3> SUFFICES ASSUME NEW i \in 0 .. left - 1 PROVE m[i] = identity
      OBVIOUS
    <3>1. i \in 0 .. size - 1 /\ ~(left <= i)
      BY <1>1
    <3> QED
      BY <1>5, <3>1
  <2>3. 0 \in Nat
    OBVIOUS
  <2> QED
    BY <2>1, <2>2, <2>3, CombinedNone
<1>7. Combined(m, right + 1, size - 1) = identity
  <2>1. right + 1 \in Nat /\ size - 1 \in (right + 1) - 1 .. MaxInt
    BY <1>1
  <2>2. \A i \in right + 1 .. size - 1 : m[i] = identity
    <3> SUFFICES ASSUME NEW i \in right + 1 .. size - 1 PROVE m[i] = identity
      OBVIOUS
    <3>1. i \in 0 .. size - 1 /\ ~(i <= right)
      BY <1>1
    <3> QED
      BY <1>5, <3>1
  <2> QED
    BY <2>1, <2>2, CombinedNone
<1>8. Combined(m, left, right) = Combined(readings, left, right)
  <2>1. left \in Nat /\ right \in left - 1 .. MaxInt
    BY <1>1
  <2>2. \A i \in left .. right : m[i] = readings[i]
    <3> SUFFICES ASSUME NEW i \in left .. right PROVE m[i] = readings[i]
      OBVIOUS
    <3>1. i \in 0 .. size - 1 /\ left <= i /\ i <= right
      BY <1>1
    <3> QED
      BY <1>5, <3>1
  <2> QED
    BY <2>1, <2>2, CombinedSame
<1>9. Combined(m, 0, size - 1) = combine(Combined(m, 0, left - 1), Combined(m, left, size - 1))
  <2>1. 0 \in Nat /\ size - 1 \in 0 - 1 .. MaxInt /\ left - 1 \in 0 - 1 .. size - 1 /\ (left - 1) + 1 = left
    BY <1>1
  <2>2. Values(m, 0, size - 1)
    BY <1>5 DEF Values
  <2>3. Combined(m, 0, size - 1) = combine(Combined(m, 0, left - 1), Combined(m, (left - 1) + 1, size - 1))
    BY <2>1, <2>2, CombinedSplit
  <2> QED
    BY <2>1, <2>3
<1>10. Combined(m, left, size - 1) = combine(Combined(m, left, right), Combined(m, right + 1, size - 1))
  <2>1. left \in Nat /\ size - 1 \in left - 1 .. MaxInt /\ right \in left - 1 .. size - 1
    BY <1>1
  <2>2. Values(m, left, size - 1)
    BY <1>1, <1>5 DEF Values
  <2> QED
    BY <2>1, <2>2, CombinedSplit
<1>11. Combined(readings, left, right) \in Seq(Symbols)
  <2>1. left \in Nat /\ right \in left - 1 .. MaxInt
    BY <1>1
  <2>2. Values(readings, left, right)
    BY <1>1 DEF Values, TreeIInv
  <2> QED
    BY <2>1, <2>2, CombinedType
<1> QED
  BY <1>4, <1>6, <1>7, <1>8, <1>9, <1>10, <1>11, CombineIs

\* One value combined is itself.
LEMMA CombinedOne ==
    ASSUME NEW rs, NEW i \in 0 .. MaxInt, rs[i] \in Seq(Symbols)
    PROVE  Combined(rs, i, i) = rs[i]
<1>1. MaxInt \in Nat /\ i \in Nat /\ i \in -1 .. MaxInt /\ i - 1 \in -1 .. MaxInt /\ i - 1 < i /\ ~(i < i)
  BY TreeAssumption
<1>2. Combined(rs, i, i - 1) = identity
  BY <1>1, CombinedOneMore
<1>3. Combined(rs, i, i) = combine(Combined(rs, i, i - 1), rs[i])
  BY <1>1, CombinedOneMore
<1> QED
  BY <1>2, <1>3, CombineIs

\* What is below one half of a range is not below the other, nor the range.
LEMMA Siblings ==
    ASSUME NEW q \in AllRanges, q[1] < q[2]
    PROVE  /\ \A r \in Below(Left(q)) : r \notin Below(Right(q)) /\ r # q
           /\ \A r \in Below(Right(q)) : r # q
<1>1. /\ Left(q) \in AllRanges /\ Right(q) \in AllRanges /\ Mid(q) \in q[1] .. q[2] - 1
      /\ Left(q)[1] = q[1] /\ Left(q)[2] = Mid(q) /\ Right(q)[1] = Mid(q) + 1 /\ Right(q)[2] = q[2]
  BY Halves
<1>2. q[1] \in Nat /\ q[2] \in Nat
  BY DEF AllRanges
<1>3. \A r \in Below(Left(q)) : r[1] \in Nat /\ r[2] \in Nat /\ r[1] <= r[2] /\ q[1] <= r[1] /\ r[2] <= Mid(q)
  <2>1. \A r \in Below(Left(q)) : r \in AllRanges /\ Within(r, Left(q))
    BY <1>1, BelowIs
  <2> QED
    BY <1>1, <2>1 DEF AllRanges, Within
<1>4. \A r \in Below(Right(q)) : r[1] \in Nat /\ r[2] \in Nat /\ r[1] <= r[2] /\ Mid(q) + 1 <= r[1] /\ r[2] <= q[2]
  <2>1. \A r \in Below(Right(q)) : r \in AllRanges /\ Within(r, Right(q))
    BY <1>1, BelowIs
  <2> QED
    BY <1>1, <2>1 DEF AllRanges, Within
<1>5. ASSUME NEW r \in Below(Left(q)) PROVE r \notin Below(Right(q)) /\ r # q
  BY <1>1, <1>2, <1>3, <1>4
<1>6. ASSUME NEW r \in Below(Right(q)) PROVE r # q
  BY <1>1, <1>2, <1>4
<1> QED
  BY <1>5, <1>6

\* The tree g, made of the present one by writing below q only, is that of the
\* readings rs there.
MadeRight(g, rs, q) ==
    /\ DOMAIN g \subseteq Ranges(size)
    /\ \A r \in Below(q) : Holds(g, rs, r)
    /\ \A r \in AllRanges : r \notin Below(q) => SameNode(g, nodes, r)

\* insert_ of the node of a single index.
LEMMA InsertHere ==
    ASSUME TreeIInv, NEW value \in Seq(Symbols), NEW rs, NEW q \in Below(Root(size)),
           q[1] = q[2], rs[q[1]] = value
    PROVE  MadeRight(Written(nodes, q, value), rs, q)
<1> DEFINE g == Written(nodes, q, value)
<1>1. q \in Ranges(size) /\ q \in AllRanges /\ q[1] \in 0 .. size - 1 /\ q[1] \in 0 .. MaxInt
  <2>1. /\ q \in Ranges(size) /\ q \in AllRanges /\ q[1] \in 0 .. size - 1 /\ q[1] \in Nat /\ q[2] <= MaxInt
    BY RangeOfTree
  <2>2. MaxInt \in Nat
    BY TreeAssumption
  <2> QED
    BY <2>1, <2>2
<1>2. DOMAIN g = DOMAIN nodes \cup {q} /\ g[q] = value /\ \A r : r # q => SameNode(g, nodes, r)
  BY DEF Written, SameNode
<1> HIDE DEF g
<1>3. Holds(g, rs, q)
  <2>1. Combined(rs, q[1], q[1]) = value
    BY <1>1, CombinedOne
  <2> QED
    BY <1>2, <2>1 DEF Holds
<1>4. \A r \in Below(q) : r = q
  <2>1. ~(q[1] < q[2])
    BY <1>1
  <2> QED
    BY <1>1, <2>1, BelowIs
<1>5. q \in Below(q)
  BY <1>1, BelowIs
<1>6. DOMAIN g \subseteq Ranges(size)
  BY <1>1, <1>2 DEF TreeIInv
<1> QED
  BY <1>2, <1>3, <1>4, <1>5, <1>6 DEF MadeRight, g

\* insert_ of a node, after the child y on the way to index; z is the other.
LEMMA InsertAbove ==
    ASSUME TreeIInv, NEW index \in 0 .. size - 1, NEW rs \in [0 .. size - 1 -> Seq(Symbols)],
           \A i \in 0 .. size - 1 : i # index => rs[i] = readings[i],
           NEW q \in Below(Root(size)), index \in q[1] .. q[2], q[1] < q[2],
           NEW below, MadeRight(below, rs, ChildFor(q, index))
    PROVE  MadeRight(Written(below, q, combine(valueOf(below, Left(q)), valueOf(below, Right(q)))), rs, q)
<1> DEFINE y == ChildFor(q, index)
           z == IF index <= Mid(q) THEN Right(q) ELSE Left(q)
           v == combine(valueOf(below, Left(q)), valueOf(below, Right(q)))
           g == Written(below, q, v)
<1>1. /\ q \in Ranges(size) /\ q \in AllRanges
      /\ q[1] \in 0 .. size - 1 /\ q[2] \in q[1] .. size - 1 /\ q[2] <= MaxInt
      /\ q[1] \in Nat /\ q[2] \in q[1] - 1 .. MaxInt
      /\ Left(q) \in Below(Root(size)) /\ Right(q) \in Below(Root(size))
  BY RangeOfTree
<1>2. /\ Left(q) \in AllRanges /\ Right(q) \in AllRanges /\ Mid(q) \in q[1] .. q[2] - 1
      /\ Left(q)[1] = q[1] /\ Left(q)[2] = Mid(q) /\ Right(q)[1] = Mid(q) + 1 /\ Right(q)[2] = q[2]
  BY <1>1, Halves
<1>3. MaxInt \in Nat /\ size \in Nat /\ size - 1 < MaxInt /\ index \in Nat
  BY TreeAssumption DEF TreeIInv
<1>4. y \in {Left(q), Right(q)} /\ z \in {Left(q), Right(q)} /\ {y, z} = {Left(q), Right(q)}
  BY DEF ChildFor
<1>5. index \notin z[1] .. z[2]
  <2>1. CASE index <= Mid(q)
    BY <1>1, <1>2, <1>3, <2>1
  <2>2. CASE ~(index <= Mid(q))
    BY <1>1, <1>2, <1>3, <2>2
  <2> QED
    BY <2>1, <2>2
<1>6. \A r \in Below(z) : r \notin Below(y)
  BY <1>1, Siblings DEF ChildFor
<1>7. \A r \in Below(y) \cup Below(z) : r # q
  BY <1>1, <1>4, Siblings
<1>8. /\ DOMAIN below \subseteq Ranges(size)
      /\ \A r \in Below(y) : Holds(below, rs, r)
      /\ \A r \in AllRanges : r \notin Below(y) => SameNode(below, nodes, r)
  BY DEF MadeRight
<1>9. /\ DOMAIN g = DOMAIN below \cup {q} /\ g[q] = v /\ \A r : r # q => SameNode(g, below, r)
  BY WrittenIs
<1>10. y \in Below(Root(size)) /\ z \in Below(Root(size)) /\ y \in AllRanges /\ z \in AllRanges
  BY <1>1, <1>2, <1>4
<1> HIDE DEF g, v, y, z
<1>11. ASSUME NEW r \in Below(z) PROVE Holds(below, rs, r)
  <2>1. r \in AllRanges /\ z[1] <= r[1] /\ r[2] <= z[2] /\ r \in Below(Root(size))
    <3>1. r \in AllRanges /\ Within(r, z)
      BY <1>10, BelowIs
    <3>2. Below(Left(q)) \subseteq Below(q) /\ Below(Right(q)) \subseteq Below(q)
      BY <1>1, BelowIs
    <3>3. Below(q) \subseteq Below(Root(size))
      <4>1. Root(size) \in AllRanges
        BY RootIs DEF TreeIInv
      <4>2. HalvesIn(Below(Root(size))) /\ Below(Root(size)) \in SUBSET AllRanges
        BY <4>1, BelowIs
      <4> QED
        BY <4>2 DEF Below
    <3> QED
      BY <1>4, <3>1, <3>2, <3>3 DEF Within
  <2>2. SameNode(below, nodes, r)
    BY <1>6, <1>8, <2>1
  <2>3. Holds(nodes, readings, r)
    BY <2>1 DEF TreeIInv
  <2>4. r[2] <= MaxInt /\ r[1] \in 0 .. size - 1 /\ r[2] \in r[1] .. size - 1
    BY <2>1, RangeOfTree
  <2>5. \A i \in r[1] .. r[2] : readings[i] = rs[i]
    <3> SUFFICES ASSUME NEW i \in r[1] .. r[2] PROVE readings[i] = rs[i]
      OBVIOUS
    <3>1. i \in 0 .. size - 1 /\ i # index
      <4>1. z[1] \in Nat /\ z[2] \in Nat
        BY <1>10 DEF AllRanges
      <4>2. i \in 0 .. size - 1
        BY <1>3, <2>4
      <4>3. i \in z[1] .. z[2]
        BY <2>1, <2>4, <4>1
      <4> QED
        BY <1>5, <4>2, <4>3
    <3> QED
      BY <3>1
  <2> QED
    BY <2>1, <2>2, <2>3, <2>4, <2>5, HoldsStill
<1>12. \A r \in Below(y) \cup Below(z) : Holds(below, rs, r)
  BY <1>8, <1>11
<1>13. /\ Left(q) \in Below(y) \cup Below(z) /\ Right(q) \in Below(y) \cup Below(z)
       /\ Below(Left(q)) \subseteq Below(y) \cup Below(z) /\ Below(Right(q)) \subseteq Below(y) \cup Below(z)
  <2>1. Left(q) \in Below(Left(q)) /\ Right(q) \in Below(Right(q))
    BY <1>2, BelowIs
  <2> QED
    BY <1>4, <2>1
<1>14. Holds(g, rs, q)
  <2>1. Left(q)[2] <= MaxInt /\ Right(q)[2] <= MaxInt
    BY <1>1, <1>2, <1>3
  <2>2. /\ valueOf(below, Left(q)) = Combined(rs, Left(q)[1], Left(q)[2])
        /\ valueOf(below, Right(q)) = Combined(rs, Right(q)[1], Right(q)[2])
    <3>1. Holds(below, rs, Left(q)) /\ Holds(below, rs, Right(q))
      BY <1>12, <1>13
    <3>2. valueOf(below, Left(q)) = Combined(rs, Left(q)[1], Left(q)[2])
      BY <1>2, <2>1, <3>1, ValueHeld
    <3>3. valueOf(below, Right(q)) = Combined(rs, Right(q)[1], Right(q)[2])
      BY <1>2, <2>1, <3>1, ValueHeld
    <3> QED
      BY <3>2, <3>3
  <2>3. Values(rs, q[1], q[2])
    BY <1>1, <1>3 DEF Values
  <2>4. v = Combined(rs, q[1], q[2])
    BY <1>1, <2>2, <2>3, HalvesCombine DEF v
  <2> QED
    BY <1>9, <2>4 DEF Holds
<1>15. ASSUME NEW r \in Below(q) PROVE Holds(g, rs, r)
  <2>1. CASE r = q
    BY <1>14, <2>1
  <2>2. CASE r # q
    <3>1. r \in Below(y) \cup Below(z)
      BY <1>1, <1>13, <2>2, BelowIs
    <3>2. r \in AllRanges /\ Within(r, q)
      BY <1>1, BelowIs
    <3>3. r[2] <= MaxInt
      BY <1>1, <1>3, <3>2 DEF Within, AllRanges
    <3>4. Holds(below, rs, r) /\ SameNode(g, below, r)
      BY <1>9, <1>12, <2>2, <3>1
    <3> QED
      BY <3>2, <3>3, <3>4, HoldsStill
  <2> QED
    BY <2>1, <2>2
<1>16. ASSUME NEW r \in AllRanges, r \notin Below(q) PROVE SameNode(g, nodes, r)
  <2>1. r # q /\ r \notin Below(y)
    <3>1. q \in Below(q) /\ Below(Left(q)) \subseteq Below(q) /\ Below(Right(q)) \subseteq Below(q)
      BY <1>1, BelowIs
    <3> QED
      BY <1>4, <1>16, <3>1
  <2>2. SameNode(g, below, r) /\ SameNode(below, nodes, r)
    BY <1>8, <1>9, <2>1
  <2> QED
    BY <2>2 DEF SameNode
<1>17. DOMAIN g \subseteq Ranges(size)
  BY <1>1, <1>8, <1>9
<1> QED
  BY <1>15, <1>16, <1>17 DEF MadeRight, g, v

\* An insert makes the tree that of the new readings.
LEMMA InsertKeepsTree ==
    ASSUME TreeIInv, NEW index \in Int, NEW value \in Seq(Symbols), Insert(index, value)
    PROVE  TreeIInv'
<1>1. CASE index \in 0 .. size - 1
  <2> DEFINE rs == [readings EXCEPT ![index] = value]
             made == insert_(index, value)
             Shown == {q \in Below(Root(size)) : index \in q[1] .. q[2] => MadeRight(made[q], rs, q)}
  <2>1. nodes' = made[Root(size)] /\ readings' = rs /\ size' = size
    BY <1>1 DEF Insert
  <2>2. /\ rs \in [0 .. size - 1 -> Seq(Symbols)] /\ rs[index] = value
        /\ \A i \in 0 .. size - 1 : i # index => rs[i] = readings[i]
    BY <1>1 DEF TreeIInv
  <2>3. size \in Nat /\ size \in Nat \ {0}
    BY DEF TreeIInv
  <2> HIDE DEF rs
  <2>4. ASSUME NEW q \in Below(Root(size)), index \in q[1] .. q[2],
               q[1] < q[2] => Left(q) \in Shown /\ Right(q) \in Shown
        PROVE  MadeRight(made[q], rs, q)
    <3>1. q \in Ranges(size) /\ q \in AllRanges /\ q[1] \in 0 .. size - 1 /\ q[2] \in q[1] .. size - 1
      BY RangeOfTree
    <3>2. made[q] = IF q[1] = q[2] THEN Written(nodes, q, value)
                    ELSE LET below == made[ChildFor(q, index)]
                         IN  Written(below, q, combine(valueOf(below, Left(q)), valueOf(below, Right(q))))
      BY <2>3, <3>1, InsertIs
    <3>3. CASE q[1] = q[2]
      <4>1. rs[q[1]] = value
        BY <2>2, <2>4, <3>1, <3>3
      <4>2. MadeRight(Written(nodes, q, value), rs, q)
        BY <3>3, <4>1, InsertHere
      <4> QED
        BY <3>2, <3>3, <4>2
    <3>4. CASE q[1] # q[2]
      <4>1. q[1] < q[2]
        BY <3>1, <3>4
      <4> DEFINE y == ChildFor(q, index)
      <4>2. y \in Shown /\ index \in y[1] .. y[2]
        <5>1. /\ Mid(q) \in q[1] .. q[2] - 1
              /\ Left(q)[1] = q[1] /\ Left(q)[2] = Mid(q) /\ Right(q)[1] = Mid(q) + 1 /\ Right(q)[2] = q[2]
          BY <3>1, <4>1, Halves
        <5>2. index \in y[1] .. y[2]
          BY <2>4, <3>1, <5>1 DEF ChildFor
        <5>3. y \in Shown
          BY <2>4, <4>1 DEF ChildFor
        <5> QED
          BY <5>2, <5>3
      <4>3. MadeRight(made[y], rs, y)
        BY <4>2
      <4> DEFINE below == made[y]
      <4>4. made[q] = Written(below, q, combine(valueOf(below, Left(q)), valueOf(below, Right(q))))
        BY <3>2, <3>4
      <4> HIDE DEF Shown, made
      <4>5. MadeRight(Written(below, q, combine(valueOf(below, Left(q)), valueOf(below, Right(q)))), rs, q)
        BY <1>1, <2>2, <2>4, <4>1, <4>3, InsertAbove
      <4> QED
        BY <4>4, <4>5
    <3> QED
      BY <3>3, <3>4
  <2>5. Below(Root(size)) \subseteq Shown
    <3>1. \A q \in Below(Root(size)) : (q[1] < q[2] => Left(q) \in Shown /\ Right(q) \in Shown) => q \in Shown
      BY <2>4
    <3> HIDE DEF Shown
    <3> QED
      BY <3>1, Descent
  <2>6. /\ Root(size) \in AllRanges /\ Root(size) \in Below(Root(size))
        /\ index \in Root(size)[1] .. Root(size)[2]
    BY <1>1, <2>3, RootIs, BelowIs
  <2>7. MadeRight(nodes', rs, Root(size))
    BY <2>1, <2>5, <2>6
  <2> HIDE DEF Shown, made
  <2>8. DOMAIN nodes' \subseteq Ranges(size) /\ \A r \in Below(Root(size)) : Holds(nodes', rs, r)
    BY <2>7 DEF MadeRight
  <2> QED
    BY <2>1, <2>2, <2>8 DEF TreeIInv
<1>2. CASE index \notin 0 .. size - 1
  <2>1. nodes' = nodes /\ size' = size /\ readings' = readings
    BY <1>2 DEF Insert
  <2> QED
    BY <2>1 DEF TreeIInv
<1> QED
  BY <1>1, <1>2

\* The range of the root of twice the size, and its halves.
LEMMA RootsHalves ==
    ASSUME NEW n \in Nat \ {0}
    PROVE  /\ Root(n * 2) \in Ranges(n * 2) /\ Root(n * 2) \in AllRanges
           /\ Root(n * 2)[1] = 0 /\ Root(n * 2)[2] = n * 2 - 1
           /\ Left(Root(n * 2)) = Root(n) /\ Right(Root(n * 2)) = <<n, n * 2 - 1>>
<1>1. n * 2 \in Nat \ {0}
  OBVIOUS
<1>2. /\ Root(n * 2) \in Ranges(n * 2) /\ Root(n * 2) \in AllRanges
      /\ Root(n * 2)[1] = 0 /\ Root(n * 2)[2] = n * 2 - 1
  BY <1>1, RootIs
<1>3. (n * 2 - 1) \div 2 = n - 1
  OBVIOUS
<1>4. Mid(Root(n * 2)) = n - 1
  <2>1. Mid(Root(n * 2)) = 0 + (n * 2 - 1 - 0) \div 2
    BY <1>2 DEF Mid
  <2>2. n * 2 - 1 - 0 = n * 2 - 1
    OBVIOUS
  <2> QED
    BY <1>3, <2>1, <2>2
<1>5. n - 1 + 1 = n
  OBVIOUS
<1> QED
  BY <1>2, <1>4, <1>5 DEF Left, Right, Root

\* A tree of no node is that of its readings, which are identities.
LEMMA TreeInitial == TreeInit => TreeIInv
<1> SUFFICES ASSUME TreeInit PROVE TreeIInv
  OBVIOUS
<1>1. size \in 1 .. MaxInt
  BY TreeAssumption DEF TreeInit
<1>2. readings = [i \in 0 .. size - 1 |-> identity] /\ identity \in Seq(Symbols)
  BY CombineIs DEF TreeInit
<1>3. DOMAIN nodes = {}
  BY DEF TreeInit
<1>4. ASSUME NEW r \in Below(Root(size)) PROVE Holds(nodes, readings, r)
  <2>1. size \in Nat \ {0}
    BY <1>1
  <2>2. r \in Ranges(size)
    BY <2>1, RootIs, RangesAre
  <2>3. r[1] \in 0 .. size - 1 /\ r[2] \in 0 .. size - 1
    BY <2>1, <2>2, RangesAre
  <2>4. \A i \in r[1] .. r[2] : readings[i] = identity
    <3> SUFFICES ASSUME NEW i \in r[1] .. r[2] PROVE readings[i] = identity
      OBVIOUS
    <3>1. i \in 0 .. size - 1
      BY <2>1, <2>3
    <3> QED
      BY <1>2, <3>1
  <2> QED
    BY <1>3, <2>4 DEF Holds
<1> QED
  BY <1>1, <1>2, <1>3, <1>4 DEF TreeIInv

\* A tree of twice the size has the present one as its left half, and nothing to
\* the right of it.
LEMMA GrowKeepsTree == ASSUME TreeIInv, Grow PROVE TreeIInv'
<1>1. CASE size > MaxInt \div 2
  <2>1. nodes' = nodes /\ size' = size /\ readings' = readings
    BY <1>1 DEF Grow
  <2> QED
    BY <2>1 DEF TreeIInv
<1>2. CASE ~(size > MaxInt \div 2)
  <2> DEFINE top == Root(size * 2)
             v   == combine(valueOf(nodes, Root(size)), identity)
             g   == Written(nodes, top, v)
             rs  == [i \in 0 .. size * 2 - 1 |-> IF i < size THEN readings[i] ELSE identity]
  <2>1. size' = size * 2 /\ nodes' = g /\ readings' = rs
    BY <1>2 DEF Grow
  <2>2. size \in Nat \ {0} /\ MaxInt \in Nat /\ size * 2 \in 1 .. MaxInt /\ size * 2 \in Nat
    <3>1. size \in 1 .. MaxInt /\ MaxInt \in Nat
      BY TreeAssumption DEF TreeIInv
    <3>2. size <= MaxInt \div 2
      BY <1>2, <3>1
    <3>3. size * 2 <= MaxInt
      BY <3>1, <3>2
    <3> QED
      BY <3>1, <3>3
  <2>3. /\ top \in Ranges(size * 2) /\ top \in AllRanges /\ top[1] = 0 /\ top[2] = size * 2 - 1
        /\ Left(top) = Root(size) /\ Right(top) = <<size, size * 2 - 1>>
    BY <2>2, RootsHalves
  <2>4. /\ Root(size) \in Ranges(size) /\ Root(size) \in AllRanges
        /\ Root(size)[1] = 0 /\ Root(size)[2] = size - 1
    BY <2>2, RootIs
  <2>5. /\ rs \in [0 .. size * 2 - 1 -> Seq(Symbols)]
        /\ \A i \in 0 .. size - 1 : rs[i] = readings[i]
        /\ \A i \in size .. size * 2 - 1 : rs[i] = identity
    <3>1. ASSUME NEW i \in 0 .. size * 2 - 1
          PROVE  (IF i < size THEN readings[i] ELSE identity) \in Seq(Symbols)
      <4>1. i < size => i \in 0 .. size - 1
        BY <2>2
      <4> QED
        BY <4>1, CombineIs DEF TreeIInv
    <3>2. \A i \in 0 .. size - 1 : i \in 0 .. size * 2 - 1 /\ i < size
      BY <2>2
    <3>3. \A i \in size .. size * 2 - 1 : i \in 0 .. size * 2 - 1 /\ ~(i < size)
      BY <2>2
    <3> QED
      BY <3>1, <3>2, <3>3
  <2>6. DOMAIN g = DOMAIN nodes \cup {top} /\ g[top] = v /\ \A r : r # top => SameNode(g, nodes, r)
    BY DEF Written, SameNode
  <2> HIDE DEF top, g, v, rs
  <2>7. DOMAIN g \subseteq Ranges(size * 2)
    <3>1. Ranges(size) \subseteq Ranges(size * 2)
      <4>1. \A i \in 0 .. size - 1 : i \in 0 .. size * 2 - 1
        BY <2>2
      <4> QED
        BY <4>1 DEF Ranges
    <3> QED
      BY <2>3, <2>6, <3>1 DEF TreeIInv
  <2>8. top[1] < top[2]
    BY <2>2, <2>3
  <2>9. ASSUME NEW r \in Below(Root(size)) PROVE Holds(g, rs, r)
    <3>1. /\ r \in AllRanges /\ r[1] \in 0 .. size - 1 /\ r[2] \in r[1] .. size - 1 /\ r[2] <= MaxInt
      BY RangeOfTree
    <3>2. r # top
      BY <2>2, <2>3, <3>1
    <3>3. SameNode(g, nodes, r) /\ Holds(nodes, readings, r)
      BY <2>6, <3>2 DEF TreeIInv
    <3>4. \A i \in r[1] .. r[2] : readings[i] = rs[i]
      <4> SUFFICES ASSUME NEW i \in r[1] .. r[2] PROVE readings[i] = rs[i]
        OBVIOUS
      <4>1. i \in 0 .. size - 1
        BY <2>2, <3>1
      <4> QED
        BY <2>5, <4>1
    <3> QED
      BY <3>1, <3>3, <3>4, HoldsStill
  <2>10. ASSUME NEW r \in Below(Right(top)) PROVE Holds(g, rs, r)
    <3>1. r \in AllRanges /\ Within(r, Right(top))
      <4>1. Right(top) \in AllRanges
        BY <2>3, <2>8, Halves
      <4> QED
        BY <4>1, BelowIs
    <3>2. r[1] \in Nat /\ r[2] \in Nat /\ size <= r[1] /\ r[1] <= r[2] /\ r[2] <= size * 2 - 1
      BY <2>3, <3>1 DEF Within, AllRanges
    <3>3. r \notin DOMAIN nodes /\ r # top
      <4>1. r # top
        BY <2>2, <2>3, <3>2
      <4>2. r \notin Ranges(size)
        <5>1. r \in Ranges(size) => r[1] \in 0 .. size - 1
          BY <2>2, RangesAre
        <5> QED
          BY <2>2, <3>2, <5>1
      <4> QED
        BY <4>1, <4>2 DEF TreeIInv
    <3>4. r \notin DOMAIN g
      BY <2>6, <3>3
    <3>5. \A i \in r[1] .. r[2] : rs[i] = identity
      <4> SUFFICES ASSUME NEW i \in r[1] .. r[2] PROVE rs[i] = identity
        OBVIOUS
      <4>1. i \in size .. size * 2 - 1
        BY <2>2, <3>2
      <4> QED
        BY <2>5, <4>1
    <3> QED
      BY <3>4, <3>5 DEF Holds
  <2>11. Holds(g, rs, top)
    <3>1. top[2] <= MaxInt /\ Values(rs, top[1], top[2])
      BY <2>2, <2>3, <2>5 DEF Values
    <3>2. Combined(rs, top[1], top[2]) =
            combine(Combined(rs, Left(top)[1], Left(top)[2]), Combined(rs, Right(top)[1], Right(top)[2]))
      BY <2>3, <2>8, <3>1, HalvesCombine
    <3>3. Left(top)[1] = 0 /\ Left(top)[2] = size - 1 /\ Right(top)[1] = size /\ Right(top)[2] = size * 2 - 1
      BY <2>3, <2>4
    <3>4. Combined(rs, 0, size - 1) = Combined(readings, 0, size - 1)
      <4>1. 0 \in Nat /\ size - 1 \in 0 - 1 .. MaxInt
        BY <2>2
      <4> QED
        BY <2>5, <4>1, CombinedSame
    <3>5. Combined(rs, size, size * 2 - 1) = identity
      <4>1. size \in Nat /\ size * 2 - 1 \in size - 1 .. MaxInt
        BY <2>2
      <4> QED
        BY <2>5, <4>1, CombinedNone
    <3>6. valueOf(nodes, Root(size)) = Combined(readings, 0, size - 1)
      <4>1. Holds(nodes, readings, Root(size))
        BY <2>4, BelowIs DEF TreeIInv
      <4>2. Root(size)[2] <= MaxInt
        BY <2>2, <2>4
      <4> QED
        BY <2>4, <4>1, <4>2, ValueHeld
    <3>7. v = Combined(rs, top[1], top[2])
      BY <3>2, <3>3, <3>4, <3>5, <3>6 DEF v
    <3> QED
      BY <2>6, <3>7 DEF Holds
  <2>12. ASSUME NEW r \in Below(top) PROVE Holds(g, rs, r)
    <3>1. r = top \/ r \in Below(Left(top)) \/ r \in Below(Right(top))
      BY <2>3, BelowIs
    <3> QED
      BY <2>3, <2>9, <2>10, <2>11, <3>1
  <2>13. Root(size') = top
    BY <2>1 DEF top
  <2> QED
    BY <2>1, <2>2, <2>5, <2>7, <2>12, <2>13 DEF TreeIInv
<1> QED
  BY <1>1, <1>2

\* A call on the tree keeps it that of its readings.
LEMMA TreeSteps == ASSUME TreeIInv, TreeNext PROVE TreeIInv'
<1>1. CASE Grow
  BY <1>1, GrowKeepsTree
<1>2. CASE \E index \in -1 .. MaxInt, value \in Leaves : Insert(index, value)
  <2>1. PICK index \in -1 .. MaxInt, value \in Leaves : Insert(index, value)
    BY <1>2
  <2>2. index \in Int /\ value \in Seq(Symbols)
    BY TreeAssumption
  <2> QED
    BY <2>1, <2>2, InsertKeepsTree
<1> QED
  BY <1>1, <1>2 DEF TreeNext

\* A tree that is that of its readings answers every query.
LEMMA TreeIsRight == TreeIInv => QueriesAgree
<1> SUFFICES ASSUME TreeIInv PROVE QueriesAgree
  OBVIOUS
<1>1. size <= MaxInt
  BY TreeAssumption DEF TreeIInv
<1>2. ASSUME NEW left \in 0 .. size - 1, NEW right \in 0 .. size - 1, left <= right
      PROVE  query(left, right) = Combined(readings, left, right)
  <2>1. right \in left .. size - 1
    BY <1>2
  <2> QED
    BY <2>1, QueryIsRight
<1> QED
  BY <1>1, <1>2 DEF QueriesAgree

-----------------------------------------------------------------------------
(* One program runs, the others stand still.                               *)

\* No object of the owning pointers has two owners, none is lost or left
\* dangling but by a copy of Auto_ptr4 that threw, and unique_ptr is never
\* undefined, for all pointers and objects.
THEOREM ObjectsAreOwnedOnce == Spec => []OwnedOnce
<1>1. Init => OwnIInv
  BY OwnInitial DEF Init, NoOwner, OwnInit, Classes
<1>2. OwnIInv /\ [Next]_programVars => OwnIInv'
  <2>1. OwnIInv /\ UNCHANGED ownVars => OwnIInv'
    BY DEF ownVars, OwnIInv, OwnTypeOK, OwnedOnce, OneOwnerEach, DanglesOnlyAfterThrow,
       UniquePtrIsSafe, Owns, Classes
  <2>2. [Next]_programVars => OwnNext \/ UNCHANGED ownVars
    BY DEF Next, programVars
  <2> QED
    BY <2>1, <2>2, OwnStepKeeps
<1>3. OwnIInv => OwnedOnce
  BY DEF OwnIInv
<1> QED
  BY <1>1, <1>2, <1>3, PTL DEF Spec

\* The count of the factory is that of the connections alive and of the slots
\* exceptions have cost; it never exceeds the limit; main gets as many
\* connections as the limit allows; and only a library that destroys the factory
\* first is called back by a connection when it is gone.
THEOREM SlotsAreAccounted == Spec => []SlotsAccounted
<1>1. Init => FactoryIInv
  BY FactoryInitial DEF Init, NoFactory, FactoryInit
<1>2. FactoryIInv /\ [Next]_programVars => FactoryIInv'
  <2>1. FactoryIInv /\ UNCHANGED factoryVars => FactoryIInv'
    BY DEF factoryVars, FactoryIInv, FactoryTypeOK, MainKeepsAll, Counted
  <2>2. [Next]_programVars => FactoryNext \/ UNCHANGED factoryVars
    BY DEF Next, programVars
  <2> QED
    BY <2>1, <2>2, FactoryStepKeeps
<1>3. FactoryIInv => SlotsAccounted
  BY FactoryAssumption DEF FactoryIInv, FactoryTypeOK, MainKeepsAll, Counted, SlotsAccounted
<1> QED
  BY <1>1, <1>2, <1>3, PTL DEF Spec

\* In some paths of the two processes the invariant holds.
SocketsIInv == \E P : SocketsInvariant(P)

\* A process of send_recv.c, of the other socket programs of beej/ and of
\* target.c finds its socket, its connection and its address list as each call
\* needs them, but for the getaddrinfo failure select.c and poll.c miss, and
\* closes what it opened; what is sent back is what was received, in order, and
\* a datagram is answered once, to its sender, with at most a buffer of it.
THEOREM SocketsKeepOrder == Spec => []SocketsInOrder
<1>1. Init => SocketsIInv
  <2> SUFFICES ASSUME Init PROVE SocketsIInv
    OBVIOUS
  <2>1. TrafficInit /\ script \in Programs \cup {[server |-> <<>>, client |-> <<>>]}
    BY DEF Init, SocketInit, SocketsIdle
  <2>2. PICK S : S = script
    OBVIOUS
  <2>3. \A p \in Processes : \E G : Path(S[p], G, First(p))
    BY <2>1, <2>2, ProgramsHavePaths
  <2> DEFINE P == [p \in Processes |-> CHOOSE G : Path(S[p], G, First(p))]
  <2>4. \A p \in Processes : Path(script[p], P[p], First(p))
    BY <2>2, <2>3
  <2> HIDE DEF P
  <2>5. SocketsInvariant(P)
    BY <2>1, <2>4, SocketsInitially
  <2> QED
    BY <2>5 DEF SocketsIInv
<1>2. SocketsIInv /\ [Next]_programVars => SocketsIInv'
  <2> SUFFICES ASSUME SocketsIInv, [Next]_programVars PROVE SocketsIInv'
    OBVIOUS
  <2>1. PICK P : SocketsInvariant(P)
    BY DEF SocketsIInv
  <2>2. SocketNext \/ UNCHANGED socketVars
    BY DEF Next, programVars
  <2>3. SocketsInvariant(P)'
    BY <2>1, <2>2, SocketsKeep, SocketsRest
  <2> QED
    BY <2>3 DEF SocketsIInv
<1>3. SocketsIInv => SocketsInOrder
  BY PathsAreInOrder, TrafficIsEchoed DEF SocketsIInv, SocketsInvariant, SocketsInOrder
<1> QED
  BY <1>1, <1>2, <1>3, PTL DEF Spec

\* Every call on an object of the design pattern examples has the effect that
\* the calls before it promise, for all texts, displays, temperatures, particles
\* and messages and histories of every length.
THEOREM PromisesAreKept == Spec => []PromisesKept
<1>1. Init => PatternIInv
  BY PatternInitial DEF Init
<1>2. PatternIInv /\ [Next]_programVars => PatternIInv'
  <2>1. [Next]_programVars => ObjectPatternsNext \/ DispatchPatternsNext \/ UNCHANGED historyVars
    BY DEF Next, programVars
  <2> QED
    BY <2>1, ObjectStepKeeps, DispatchStepKeeps, HistoryRests
<1>3. PatternIInv => PromisesKept
  <2>1. Recorded => DOMAIN calls = 1 .. Len(calls)
    BY DEF Recorded
  <2> QED
    BY <2>1 DEF PatternIInv, PromisesKept, ObjectsKeepPromises, CallsReachTheirMethods, ObjectNames
<1> QED
  BY <1>1, <1>2, <1>3, PTL DEF Spec

\* The structures are right, each by its own invariant.
StructuresIInv == RingIInv /\ TicIInv /\ BookIInv /\ TreeIInv

\* A step of no structure leaves the invariants alone.
LEMMA StructuresRest ==
    /\ RingIInv /\ UNCHANGED kacVars => RingIInv'
    /\ TicIInv /\ UNCHANGED ticVars => TicIInv'
    /\ BookIInv /\ UNCHANGED bookVars => BookIInv'
    /\ TreeIInv /\ UNCHANGED treeVars => TreeIInv'
<1>1. RingIInv /\ UNCHANGED kacVars => RingIInv'
  BY DEF RingIInv, kacVars
<1>2. TicIInv /\ UNCHANGED ticVars => TicIInv'
  BY DEF TicIInv, WinnerHasLine, ticVars
<1>3. ASSUME BookIInv, UNCHANGED bookVars PROVE BookIInv'
  <2>1. /\ placed' = placed /\ orders' = orders /\ bidvolumes' = bidvolumes /\ askvolumes' = askvolumes
        /\ bids' = bids /\ asks' = asks /\ bookUndefined' = bookUndefined
    BY <1>3 DEF bookVars
  <2> QED
    BY <1>3, <2>1 DEF BookIInv
<1>4. TreeIInv /\ UNCHANGED treeVars => TreeIInv'
  BY DEF TreeIInv, treeVars
<1> QED
  BY <1>1, <1>2, <1>3, <1>4

\* A step of a structure keeps its invariant.
LEMMA StructureSteps ==
    /\ RingIInv /\ KacNext => RingIInv'
    /\ TicIInv /\ TicNext => TicIInv'
    /\ BookIInv /\ BookNext => BookIInv'
    /\ TreeIInv /\ TreeNext => TreeIInv'
<1>1. ASSUME RingIInv, KacNext PROVE RingIInv'
  BY <1>1, StepKeepsRing, KStepKeepsRing DEF KacNext
<1>2. ASSUME TicIInv, TicNext PROVE TicIInv'
  <2>1. PICK p \in 1 .. 2, row \in Side, col \in Side : MoveTo(p, row, col)
    BY <1>2 DEF TicNext
  <2> QED
    BY <1>2, <2>1, MoveKeepsGame
<1>3. ASSUME BookIInv, BookNext PROVE BookIInv'
  <2>1. ~bookUndefined
    BY <1>3 DEF BookNext
  <2>2. CASE \E price \in BookPrices, volume \in BookVolumes, buy \in BOOLEAN : PlaceOrder(price, volume, buy)
    BY <1>3, <2>1, <2>2, PlaceKeepsBook
  <2>3. CASE \E id \in 0 .. MaxPlaced : CancelBookOrder(id)
    BY <1>3, <2>1, <2>3, CancelKeepsBook
  <2> QED
    BY <1>3, <2>2, <2>3 DEF BookNext
<1>4. TreeIInv /\ TreeNext => TreeIInv'
  BY TreeSteps
<1> QED
  BY <1>1, <1>2, <1>3, <1>4

\* The colour of the ring is that of the balls after all its steps, forward and
\* back, as long as no step wraps size_t around in a ring whose period does not
\* divide its range; the game is won by the move that completes a line, and by
\* no other; the volumes of the book are those of its orders, until one of them
\* meets another; and a query of the segment tree combines, in order, what was
\* inserted last at each index of its range, however often the tree has grown.
\* For any size of ring, word, steps, board, prices, volumes, tree and values,
\* and any numbers of moves, orders, inserts and growths.
THEOREM StructuresAreRight == Spec => []StructuresAgree
<1>1. Init => StructuresIInv
  <2> SUFFICES ASSUME Init PROVE StructuresIInv
    OBVIOUS
  <2>1. (KacInit \/ NoRing) /\ TicInit /\ BookInit /\ (TreeInit \/ NoTree)
    BY DEF Init, NoStructure
  <2>2. NoRing => KacInit
    <3>1. [N |-> 1, marked |-> {}] \in Rings
      <4>1. 1 \in 1 .. MaxBalls
        BY RingAssumption
      <4>2. {} \in SUBSET (0 .. 1 - 1)
        OBVIOUS
      <4> QED
        BY <4>1, <4>2 DEF Rings
    <3> QED
      BY <3>1 DEF NoRing, KacInit
  <2>3. NoTree => TreeInit
    BY TreeAssumption DEF NoTree, TreeInit
  <2> QED
    BY <2>1, <2>2, <2>3, RingInitial, GameInitial, BookInitial, TreeInitial DEF StructuresIInv
<1>2. StructuresIInv /\ [Next]_programVars => StructuresIInv'
  <2>1. [Next]_programVars => /\ KacNext \/ UNCHANGED kacVars
                              /\ TicNext \/ UNCHANGED ticVars
                              /\ BookNext \/ UNCHANGED bookVars
                              /\ TreeNext \/ UNCHANGED treeVars
    BY DEF Next, programVars, structureVars
  <2> QED
    BY <2>1, StructuresRest, StructureSteps DEF StructuresIInv
<1>3. StructuresIInv => StructuresAgree
  BY RingIsRight, BookIsRight, TreeIsRight DEF StructuresIInv, StructuresAgree, TicIInv
<1> QED
  BY <1>1, <1>2, <1>3, PTL DEF Spec
=============================================================================
