--------------------------- MODULE ObjectPatterns ---------------------------
(***************************************************************************)
(* The examples of get_cracked/design_patterns/ whose objects remember:    *)
(* mediator, observer, proxy, flyweight, builder and singleton.            *)
(***************************************************************************)
EXTENDS CallHistory

CONSTANTS
    Texts,      \* texts a field is given; NoText is among them
    Temps,      \* temperatures
    Displays,   \* the observers
    Colors, Sprites   \* of particles, as sequences of characters

\* Characters are strings of length one.
ASSUME ParticleAssumption == Colors \subseteq Seq(STRING) /\ Sprites \subseteq Seq(STRING)

\* The parts of a request.
Parts == {"method", "url", "headers"}

ObjectPatternsInit ==
    /\ \/ /\ pattern = "mediator"
          /\ obj = [username |-> NoText, password |-> NoText, enabled |-> FALSE]
       \/ pattern = "observer" /\ obj = [observers |-> <<>>, temp |-> 0]
       \/ pattern = "proxy" /\ obj = [engine |-> FALSE]
       \/ pattern = "flyweight" /\ obj = [types |-> {}]
       \/ pattern = "builder" /\ obj = [part \in Parts |-> NoText]
       \/ pattern = "singleton" /\ obj = [made |-> FALSE, level |-> NoText]
    /\ calls = <<>> /\ effects = <<>>

-----------------------------------------------------------------------------
(* mediator: the fields notify the dialog, which enables the button.       *)

\* Mutant: the button is enabled by either field.
NotifiedByEither(state) ==
    IF state.username = NoText /\ state.password = NoText THEN state ELSE [state EXCEPT !.enabled = TRUE]

\* LoginDialog::Notify of a field.
Notified(state) ==
    IF state.username = NoText \/ state.password = NoText THEN state ELSE [state EXCEPT !.enabled = TRUE]

SetText(text) ==
    Does("mediator", "username", text, Notified([obj EXCEPT !.username = text]), <<>>)

SetPassword(text) ==
    Does("mediator", "password", text, Notified([obj EXCEPT !.password = text]), <<>>)

\* LoginButton::Click
Click ==
    Does("mediator", "click", NoText, obj,
         IF obj.enabled THEN <<[login |-> obj.username]>> ELSE <<>>)

\* A click logs in the present user exactly if there was a time at which both
\* fields held text, even if they have been cleared since.
ClickPromise(i) ==
    effects[i] = IF \E j \in 1 .. i : Latest(j, "username", NoText) # NoText /\ Latest(j, "password", NoText) # NoText
                   THEN <<[login |-> Latest(i, "username", NoText)]>> ELSE <<>>

-----------------------------------------------------------------------------
(* observer: a weather station updates its displays.                       *)

Subscribe(display) ==
    Does("observer", "subscribe", display, [obj EXCEPT !.observers = Append(@, display)], <<>>)

SetTemp(t) ==
    Does("observer", "temp", t, [obj EXCEPT !.temp = t],
         [k \in DOMAIN obj.observers |-> [display |-> obj.observers[k], shows |-> t]])

\* A temperature reaches every display subscribed before it, once for each
\* subscription and in their order; the present one never reaches a late one.
SetTempPromise(i) ==
    LET subscribed == Earlier(i, "subscribe")
    IN /\ Len(effects[i]) = Cardinality(subscribed)
       /\ \A j \in subscribed :
            effects[i][Place(subscribed, j)] = [display |-> calls[j].arg, shows |-> calls[i].arg]

-----------------------------------------------------------------------------
(* proxy: the engine is made by the first Render, which may throw.         *)

Render(throws) ==
    /\ pattern = "proxy" /\ (throws => ~obj.engine)
    /\ Does("proxy", "render", throws, [obj EXCEPT !.engine = ~throws],
            CASE obj.engine -> <<"render">>
              [] throws     -> <<"throw">>
              [] OTHER      -> <<"construct", "render">>)

\* The engine is made once, however often its construction threw before.
RenderPromise(i) ==
    LET made == \E j \in 1 .. i - 1 : ~calls[j].arg
    IN effects[i] = IF calls[i].arg THEN <<"throw">>
                    ELSE IF made THEN <<"render">> ELSE <<"construct", "render">>

-----------------------------------------------------------------------------
(* flyweight: particles share their type.                                  *)

\* What separates the color from the sprite in a key.
Separator == ","

Key(color, sprite) == color \o <<Separator>> \o sprite

Typed(color, sprite) == [color |-> color, sprite |-> sprite]

\* The entry of key in types_, a set of pairs.
Entry(types, key) == {e \in types : e.key = key}

\* types_ after GetType, and the shared type it returns.
Interned(types, color, sprite) ==
    IF Entry(types, Key(color, sprite)) # {} THEN types
    ELSE types \cup {[key |-> Key(color, sprite), type |-> Typed(color, sprite)]}

GetType(color, sprite) ==
    /\ pattern = "flyweight"
    /\ LET types == Interned(obj.types, color, sprite)
       IN Does("flyweight", "type", Typed(color, sprite), [types |-> types],
               <<(CHOOSE e \in Entry(types, Key(color, sprite)) : TRUE).type>>)

GetSmoke == GetType(<<"grey">>, <<"smoke.png">>)

\* A call returns the type it asked for, the same object for the same type,
\* and types are as many as the different types asked for; if colors hold no
\* comma, which would make two types one.
GetTypePromise(i) ==
    (\A j \in 1 .. i : Separator \notin Range(calls[j].arg.color)) =>
       /\ effects[i] = <<calls[i].arg>>
       /\ i = Len(calls) =>
             Cardinality(obj.types) = Cardinality({calls[j].arg : j \in 1 .. i})

-----------------------------------------------------------------------------
(* builder: a request is built once its parts are set.                     *)

SetPart(part, text) ==
    Does("builder", part, text, [obj EXCEPT ![part] = text], <<>>)

Build ==
    Does("builder", "build", NoText, obj,
         IF \E part \in Parts : obj[part] = NoText
           THEN <<"nullopt">> ELSE <<obj>>)

\* Build gives the parts last set, also those set for an earlier request, or
\* nothing if one of them is missing or empty.
BuildPromise(i) ==
    LET parts == [part \in Parts |-> Latest(i, part, NoText)]
    IN effects[i] = IF NoText \in Range(parts) THEN <<"nullopt">> ELSE <<parts>>

-----------------------------------------------------------------------------
(* singleton: one logger, made by the first GetLogger.                     *)

GetLogger(state) == IF state.made THEN state ELSE [made |-> TRUE, level |-> "INFO"]

SetLevel(level) ==
    Does("singleton", "set", level, [GetLogger(obj) EXCEPT !.level = level], <<>>)

GetLevel == Does("singleton", "get", NoText, GetLogger(obj), <<GetLogger(obj).level>>)

\* Every user of the logger sees the level last set by any.
GetLevelPromise(i) == effects[i] = <<Latest(i, "set", "INFO")>>

-----------------------------------------------------------------------------
ObjectPatternsNext ==
    \/ \E text \in Texts : SetText(text) \/ SetPassword(text)
    \/ Click
    \/ \E display \in Displays : Subscribe(display)
    \/ \E t \in Temps : SetTemp(t)
    \/ \E throws \in BOOLEAN : Render(throws)
    \/ \E color \in Colors, sprite \in Sprites : GetType(color, sprite)
    \/ GetSmoke
    \/ \E part \in Parts, text \in Texts : SetPart(part, text)
    \/ Build
    \/ \E level \in Texts : SetLevel(level)
    \/ GetLevel

\* What is expected of the i-th call by its operation.
ObjectPromise(i) ==
    CASE calls[i].op = "click"  -> ClickPromise(i)
      [] calls[i].op = "temp"   -> SetTempPromise(i)
      [] calls[i].op = "render" -> RenderPromise(i)
      [] calls[i].op = "type"   -> GetTypePromise(i)
      [] calls[i].op = "build"  -> BuildPromise(i)
      [] calls[i].op = "get"    -> GetLevelPromise(i)
      [] OTHER                  -> effects[i] = <<>>

\* Every call of these examples has the effect a client expects of it from the
\* calls before.
ObjectsKeepPromises == \A i \in DOMAIN calls : ObjectPromise(i)
=============================================================================
