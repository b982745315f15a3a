---------------------------- MODULE SmallPrograms ----------------------------
(***************************************************************************)
(* The small programs of the repository side by side: a behaviour is the   *)
(* run of one of them, chosen at the start.  They share no state.          *)
(***************************************************************************)
EXTENDS SocketPrograms, OwningPointers, ConnectionFactory, ObjectPatterns, DispatchPatterns,
        KacRing, TicTacToe, PriceVolumeBook, SegmentTree

VARIABLE program

structureVars == <<kacVars, ticVars, bookVars, treeVars>>
programVars == <<program, socketVars, ownVars, factoryVars, historyVars, structureVars>>

NoHistory == pattern = "none" /\ obj = <<>> /\ calls = <<>> /\ effects = <<>>
NoOwner   == class = "unique_ptr" /\ Unborn
NoFactory == user = "main" /\ NothingMade
NoRing    == ring = [N |-> 1, marked |-> {}] /\ curr_step = 0 /\ elapsed = 0 /\ underflow = FALSE

NoTree    == size = 1 /\ nodes = <<>> /\ readings = [i \in 0 .. 0 |-> identity] /\ treeThrew = FALSE

\* The game and the book begin empty, also when nothing is done with them.
NoStructure == NoRing /\ TicInit /\ BookInit /\ NoTree

Init ==
    \/ program = "sockets"  /\ SocketInit  /\ NoOwner /\ NoFactory   /\ NoHistory /\ NoStructure
    \/ program = "owners"   /\ SocketsIdle /\ OwnInit /\ NoFactory   /\ NoHistory /\ NoStructure
    \/ program = "factory"  /\ SocketsIdle /\ NoOwner /\ FactoryInit /\ NoHistory /\ NoStructure
    \/ program = "patterns" /\ SocketsIdle /\ NoOwner /\ NoFactory   /\ NoStructure
                            /\ (ObjectPatternsInit \/ DispatchPatternsInit)
    \/ program = "ring"     /\ SocketsIdle /\ NoOwner /\ NoFactory   /\ NoHistory
                            /\ KacInit /\ TicInit /\ BookInit /\ NoTree
    \/ program = "tree"     /\ SocketsIdle /\ NoOwner /\ NoFactory   /\ NoHistory
                            /\ NoRing /\ TicInit /\ BookInit /\ TreeInit
    \/ program \in {"game", "book"} /\ SocketsIdle /\ NoOwner /\ NoFactory /\ NoHistory /\ NoStructure

Next ==
    \/ /\ program = "sockets" /\ SocketNext
       /\ UNCHANGED <<program, ownVars, factoryVars, historyVars, structureVars>>
    \/ /\ program = "owners" /\ OwnNext
       /\ UNCHANGED <<program, socketVars, factoryVars, historyVars, structureVars>>
    \/ /\ program = "factory" /\ FactoryNext
       /\ UNCHANGED <<program, socketVars, ownVars, historyVars, structureVars>>
    \/ /\ program = "patterns" /\ (ObjectPatternsNext \/ DispatchPatternsNext)
       /\ UNCHANGED <<program, socketVars, ownVars, factoryVars, structureVars>>
    \/ /\ program = "ring" /\ KacNext
       /\ UNCHANGED <<program, socketVars, ownVars, factoryVars, historyVars, ticVars, bookVars, treeVars>>
    \/ /\ program = "game" /\ TicNext
       /\ UNCHANGED <<program, socketVars, ownVars, factoryVars, historyVars, kacVars, bookVars, treeVars>>
    \/ /\ program = "book" /\ BookNext
       /\ UNCHANGED <<program, socketVars, ownVars, factoryVars, historyVars, kacVars, ticVars, treeVars>>
    \/ /\ program = "tree" /\ TreeNext
       /\ UNCHANGED <<program, socketVars, ownVars, factoryVars, historyVars, kacVars, ticVars, bookVars>>

Spec == Init /\ [][Next]_programVars /\ SocketFairness

-----------------------------------------------------------------------------
\* Every call on an object of the design pattern examples has the effect a
\* client expects of it, given the calls before it.
PromisesKept ==
    IF pattern \in {"mediator", "observer", "proxy", "flyweight", "builder", "singleton"}
      THEN ObjectsKeepPromises
      ELSE CallsReachTheirMethods

\* The structures give what a direct account of their history gives: the ring
\* its colour, the game its winner, the book its volumes, a query of the tree the
\* values inserted in its range.
StructuresAgree == RingAgrees /\ WinnerHasLine /\ VolumesAddUp /\ QueriesAgree
=============================================================================
