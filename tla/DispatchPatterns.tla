-------------------------- MODULE DispatchPatterns --------------------------
(***************************************************************************)
(* The examples of get_cracked/design_patterns/ that pass calls on:        *)
(* decorator, strategy, adapter, facade, abstract factory, mixin and crtp; *)
(* and get_cracked/coding/slicing.cpp.  What a call prints is a sequence   *)
(* of records, names or numbers, one for each method it reaches.           *)
(***************************************************************************)
EXTENDS CallHistory

CONSTANT Messages   \* logged messages, as sequences of characters

\* Characters are strings, and NUL is one.
ASSUME MessageAssumption == Messages \subseteq Seq(STRING)

DispatchPatternsInit ==
    /\ \/ pattern = "decorator" /\ obj = <<"Null">>
       \/ pattern = "strategy" /\ obj = "none"
       \/ pattern = "adapter" /\ obj = <<>>
       \/ pattern = "facade" /\ obj = "CloudController"
       \/ pattern = "abstract_factory" /\ obj = [storage |-> "none", compute |-> "none"]
       \/ pattern = "mixin" /\ obj = [stamped |-> 0, serializable |-> 0]
       \/ pattern = "crtp" /\ obj = "none"
       \/ pattern = "slicing" /\ obj = [balance |-> 100, overdraftLimit |-> 500]
    /\ calls = <<>> /\ effects = <<>>

-----------------------------------------------------------------------------
(* decorator: obj is the chain of exporters, the outermost first.          *)

Decorators == {"Disk", "Network", "Filter"}

\* exporter = make_unique<Decorator>(std::move(exporter))
Wrap(decorator) == Does("decorator", "wrap", decorator, <<decorator>> \o obj, <<>>)

\* Whether an exporter passes the payload on to the next.
Forwards(exporter, large) == exporter # "Null" /\ ~(exporter = "Filter" /\ large)

\* An Export reaches the exporters up to the first that does not forward.
Export(large) ==
    /\ pattern = "decorator"
    /\ Does("decorator", "export", large, obj,
            SubSeq(obj, 1, SelectInSeq(obj, LAMBDA exporter : ~Forwards(exporter, large))))

\* The filters among the decorators, and whether one stops the payload.
Filters(i) == {j \in Earlier(i, "wrap") : calls[j].arg = "Filter"}
Stops(i) == calls[i].arg /\ Filters(i) # {}

\* A payload passes the decorators from the last wrapped to the first, and the
\* NullExporter at the end; one of more than 10000 bytes stops at the last Filter.
ExportPromise(i) ==
    LET wraps == Earlier(i, "wrap")
    IN /\ Len(effects[i]) = IF Stops(i) THEN PlaceFromLast(wraps, Max(Filters(i)))
                                       ELSE Cardinality(wraps) + 1
       /\ \A j \in wraps : (Stops(i) => j >= Max(Filters(i))) =>
                           effects[i][PlaceFromLast(wraps, j)] = calls[j].arg
       /\ Stops(i) \/ Last(effects[i]) = "Null"

-----------------------------------------------------------------------------
(* strategy: the navigator owns its route.                                 *)

Strategies == {"FastestRoute", "ShortestRoute"}

SetStrategy(strategy) == Does("strategy", "strategy", strategy, strategy, <<>>)

Navigate == pattern = "strategy" /\ obj # "none" /\ Does("strategy", "navigate", NoText, obj, <<obj>>)

\* Navigation follows the strategy of the navigator assigned last.
NavigatePromise(i) == effects[i] = <<Latest(i, "strategy", "none")>>

-----------------------------------------------------------------------------
(* adapter: two loggers behind one interface.                              *)

AddLogger(logger) == Does("adapter", "logger", logger, Append(obj, logger), <<>>)

\* m.c_str() printed with %s: up to the first NUL.
CStr(m) == IF "NUL" \in Range(m) THEN SubSeq(m, 1, SelectInSeq(m, LAMBDA c : c = "NUL") - 1) ELSE m

Log(m) ==
    /\ pattern = "adapter"
    /\ Does("adapter", "log", m, obj,
            [k \in DOMAIN obj |->
               IF obj[k] = "LoggerA" THEN [by |-> "Info", text |-> m]
                                     ELSE [by |-> "LogMessage", text |-> CStr(m)]])

\* Every logger gets the message, in the order they were added: LoggerA all of
\* it, LoggerB all of it unless it holds a NUL, and never more.
LogPromise(i) ==
    LET added == Earlier(i, "logger")
    IN /\ Len(effects[i]) = Cardinality(added)
       /\ \A j \in added :
            LET to == calls[j].arg
                line == effects[i][Place(added, j)]
            IN /\ line.by = (IF to = "LoggerA" THEN "Info" ELSE "LogMessage")
               /\ IsPrefix(line.text, calls[i].arg)
               /\ to = "LoggerA" \/ "NUL" \notin Range(calls[i].arg) => line.text = calls[i].arg

-----------------------------------------------------------------------------
(* facade: one call makes a node.                                          *)

NodeSteps == <<"Compute.Allocate", "Network.CreateSubnet", "Storage.Allocate",
               "Storage.AttachToNode", "Network.Configure">>

CreateNode == Does("facade", "node", NoText, obj, NodeSteps)

\* "AttachToNode must be called after a compute instance is allocated", and
\* after the storage; the subnet exists before it is configured.
CreateNodePromise(i) ==
    LET Precedes(a, b) == \E p, q \in DOMAIN effects[i] : p < q /\ effects[i][p] = a /\ effects[i][q] = b
    IN /\ Precedes("Compute.Allocate", "Storage.AttachToNode")
       /\ Precedes("Storage.Allocate", "Storage.AttachToNode")
       /\ Precedes("Network.CreateSubnet", "Network.Configure")

-----------------------------------------------------------------------------
(* abstract factory: the controllers of one cloud provider.                *)

Providers == {"GCP", "AWS"}
Size == [GCP |-> 2000, AWS |-> 1000]

\* The factory of the provider, and the two controllers it creates; any other
\* provider throws.
Choose(provider) ==
    IF provider \in Providers
      THEN Does("abstract_factory", "choose", provider,
                [storage |-> provider, compute |-> provider], <<>>)
      ELSE Does("abstract_factory", "throw", provider, obj, <<>>)

\* Operations of the storage and the compute controller.
UseStorage(op) ==
    /\ pattern = "abstract_factory" /\ obj.storage # "none"
    /\ Does("abstract_factory", op, NoText, obj,
            IF op = "GetSize" THEN <<[by |-> obj.storage, size |-> Size[obj.storage]]>>
                              ELSE <<[by |-> obj.storage]>>)

UseCompute(op) ==
    /\ pattern = "abstract_factory" /\ obj.compute # "none"
    /\ Does("abstract_factory", op, NoText, obj, <<[by |-> obj.compute]>>)

\* Every operation is the chosen provider's; SetSize does not change GetSize.
ProviderPromise(i) ==
    /\ \A k \in DOMAIN effects[i] : effects[i][k].by = Latest(i, "choose", "none")
    /\ calls[i].op = "GetSize" =>
         effects[i][1].size = (IF Latest(i, "choose", "none") = "AWS" THEN 1000 ELSE 2000)

-----------------------------------------------------------------------------
(* mixin: layers over a user; time is the number of calls.                 *)

Now == Len(calls) + 1

\* Timestampped<User>(user): created_ is now().
Stamp == pattern = "mixin" /\ Does("mixin", "stamp", NoText, [obj EXCEPT !.stamped = Now], <<>>)

\* Serializable<Timestampped<User>>(timestampped): forwards to its copy constructor.
Serialize ==
    /\ pattern = "mixin" /\ obj.stamped # 0
    /\ Does("mixin", "serialize", NoText, [obj EXCEPT !.serializable = obj.stamped], <<>>)

\* print, and printWithTimestamp which calls it.
PrintLayer(layer, timestamp) ==
    /\ pattern = "mixin" /\ obj[layer] # 0
    /\ Does("mixin", IF timestamp THEN "printWithTimestamp" ELSE "print", layer, obj,
            <<"User">> \o IF timestamp THEN <<obj[layer]>> ELSE <<>>)

\* A timestamp is the time the timestamped object was made; wrapping it in
\* another layer keeps it, and stamping anew does not reach older copies.
TimestampPromise(i) ==
    LET seen == IF calls[i].arg = "stamped" THEN i ELSE LatestAt(i, "serialize")
    IN seen \in 1 .. i /\ effects[i] = <<"User", LatestAt(seen, "stamp")>>

-----------------------------------------------------------------------------
(* crtp: interface() of Base<T> reaches interface_impl() of T.             *)

Example(derived) == Does("crtp", "example", derived, obj, <<derived>>)

ExamplePromise(i) == effects[i] = <<calls[i].arg>>

-----------------------------------------------------------------------------
(* slicing: an overdraft account passed by value, by reference and as a    *)
(* std::polymorphic, which copies the whole object.                        *)

availableFunds(account) ==
    account.balance + IF "overdraftLimit" \in DOMAIN account THEN account.overdraftLimit ELSE 0

\* The Account part of an account.
Sliced(account) == [balance |-> account.balance]

PrintByValue == pattern = "slicing" /\ Does("slicing", "value", NoText, obj, <<availableFunds(Sliced(obj))>>)
PrintByReference == pattern = "slicing" /\ Does("slicing", "reference", NoText, obj, <<availableFunds(obj)>>)

\* The function prints its copy before and after the balance of it is cleared.
PrintByValuePolymorphic ==
    /\ pattern = "slicing"
    /\ LET account == [obj EXCEPT !.balance = 0]
       IN Does("slicing", "polymorphic", NoText, obj, <<availableFunds(obj), availableFunds(account)>>)

\* By value the overdraft is lost, by reference and by polymorphic value it is
\* not; what a callee does to its copy never reaches the account.
SlicingPromise(i) ==
    effects[i] = CASE calls[i].op = "value"       -> <<100>>
                   [] calls[i].op = "reference"   -> <<600>>
                   [] calls[i].op = "polymorphic" -> <<600, 500>>

-----------------------------------------------------------------------------
DispatchPatternsNext ==
    \/ \E decorator \in Decorators : Wrap(decorator)
    \/ \E large \in BOOLEAN : Export(large)
    \/ \E strategy \in Strategies : SetStrategy(strategy)
    \/ Navigate
    \/ \E logger \in {"LoggerA", "LoggerB"} : AddLogger(logger)
    \/ \E m \in Messages : Log(m)
    \/ CreateNode
    \/ \E provider \in Providers \cup {"other"} : Choose(provider)
    \/ \E op \in {"GetSize", "SetSize"} : UseStorage(op)
    \/ \E op \in {"AllocateInstance", "DeallocateInstance"} : UseCompute(op)
    \/ Stamp \/ Serialize
    \/ \E layer \in {"stamped", "serializable"}, timestamp \in BOOLEAN : PrintLayer(layer, timestamp)
    \/ \E derived \in {"Derived1", "Derived2"} : Example(derived)
    \/ PrintByValue \/ PrintByReference \/ PrintByValuePolymorphic

\* What is expected of the i-th call by its operation.
CallPromise(i) ==
    CASE calls[i].op = "export"   -> ExportPromise(i)
      [] calls[i].op = "navigate" -> NavigatePromise(i)
      [] calls[i].op = "log"      -> LogPromise(i)
      [] calls[i].op = "node"     -> CreateNodePromise(i)
      [] calls[i].op \in {"GetSize", "SetSize", "AllocateInstance", "DeallocateInstance"} ->
           ProviderPromise(i)
      [] calls[i].op = "printWithTimestamp" -> TimestampPromise(i)
      [] calls[i].op = "print"    -> effects[i] = <<"User">>
      [] calls[i].op = "example"  -> ExamplePromise(i)
      [] calls[i].op \in {"value", "reference", "polymorphic"} -> SlicingPromise(i)
      [] OTHER                    -> effects[i] = <<>>

\* Every call of these examples reaches the methods a client expects it to.
CallsReachTheirMethods == \A i \in DOMAIN calls : CallPromise(i)
=============================================================================
