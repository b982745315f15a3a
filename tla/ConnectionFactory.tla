-------------------------- MODULE ConnectionFactory --------------------------
(***************************************************************************)
(* get_cracked/design_patterns/factory/main.cpp: a factory counts the      *)
(* database connections it has made and makes no more than                 *)
(* MAX_CONNECTIONS_.  A connection's destructor calls back the factory,    *)
(* which counts it down.                                                   *)
(*                                                                         *)
(* "main" is the program of the file: it makes connections in a loop and   *)
(* keeps them in a vector, which is destroyed before the factory.  A       *)
(* "library" user of the same classes closes connections when it likes,    *)
(* catches what CreateConn throws, and may destroy the factory first.      *)
(***************************************************************************)
EXTENDS Integers

CONSTANTS
    MaxConnections,   \* MAX_CONNECTIONS_
    Attempts          \* iterations of main's loop; bound on a library's calls

\* The loop of main asks for more connections than there are.
ASSUME FactoryAssumption == MaxConnections \in Nat /\ Attempts \in Nat /\ MaxConnections <= Attempts

VARIABLES
    user,         \* who uses the classes
    factory,      \* "none", the database of the factory made, or "destroyed"
    num,          \* num_connections_
    conns,        \* connections alive
    attempts,     \* calls of CreateConn so far
    failures,     \* those that returned nullptr
    slotsLost,    \* those in which make_unique threw
    broken        \* a callback ran on a destroyed factory

factoryVars == <<user, factory, num, conns, attempts, failures, slotsLost, broken>>

Databases == {"POSTGRES", "MySQL"}

NothingMade ==
    /\ factory = "none"
    /\ num = 0 /\ conns = 0 /\ attempts = 0 /\ failures = 0 /\ slotsLost = 0
    /\ broken = FALSE

FactoryInit == user \in {"main", "library"} /\ NothingMade

\* DB_TYPE of main is "POSTGRES".
MakeFactory(db) ==
    /\ factory = "none" /\ (user = "main" => db = "POSTGRES")
    /\ factory' = db
    /\ UNCHANGED <<user, num, conns, attempts, failures, slotsLost, broken>>

Asked == factory \in Databases /\ attempts < Attempts /\ attempts' = attempts + 1

CreateRefused ==
    /\ Asked /\ num >= MaxConnections
    /\ failures' = failures + 1
    /\ UNCHANGED <<user, factory, num, conns, slotsLost, broken>>

CreateConn ==
    /\ Asked /\ num < MaxConnections
    /\ num' = num + 1 /\ conns' = conns + 1
    /\ UNCHANGED <<user, factory, failures, slotsLost, broken>>

\* The connection is counted before it is made; the exception ends main, where
\* nothing catches it.
CreateThrows ==
    /\ user = "library" /\ Asked /\ num < MaxConnections
    /\ num' = num + 1 /\ slotsLost' = slotsLost + 1
    /\ UNCHANGED <<user, factory, conns, failures, broken>>

\* Mutant: the callback is lost.
NotCounted == UNCHANGED num

\* disconnect_callback_
Disconnected == num' = num - 1

\* The destructor of a connection; at the end of main, for each of the vector.
CloseConn ==
    /\ conns > 0 /\ (user = "main" => attempts = Attempts)
    /\ conns' = conns - 1
    /\ IF factory = "destroyed"
         THEN broken' = TRUE /\ UNCHANGED num
         ELSE Disconnected /\ UNCHANGED broken
    /\ UNCHANGED <<user, factory, attempts, failures, slotsLost>>

DestroyFactory ==
    /\ factory \in Databases
    /\ user = "main" => attempts = Attempts /\ conns = 0
    /\ factory' = "destroyed"
    /\ UNCHANGED <<user, num, conns, attempts, failures, slotsLost, broken>>

FactoryNext ==
    \/ \E db \in Databases : MakeFactory(db)
    \/ CreateRefused \/ CreateConn \/ CreateThrows \/ CloseConn \/ DestroyFactory

\* While the factory lives its count is the number of connections alive and of
\* those whose construction threw, so that every exception costs a slot for
\* good; there are never more than MAX_CONNECTIONS_; main gets that many and is
\* refused the rest, and never calls back a factory that is gone.
SlotsAccounted ==
    /\ factory # "destroyed" => num = conns + slotsLost
    /\ num <= MaxConnections
    /\ user = "main" /\ attempts = Attempts => failures = Attempts - MaxConnections
    /\ broken => user = "library" /\ factory = "destroyed"
=============================================================================
