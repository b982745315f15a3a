-------------------------- MODULE SharedOwnership --------------------------
(***************************************************************************)
(* What shared ownership promises, with no control blocks, counts or       *)
(* locks: every slot owns at most one object; ownership is only passed on  *)
(* by slots that have it, or adopted from the caller with a new object;    *)
(* an object is deleted once, when nobody owns it, and then it is deleted  *)
(* eventually.                                                             *)
(***************************************************************************)
CONSTANTS Slots, Objects, NULL

VARIABLES
    owns,    \* the object each slot owns, or NULL
    object   \* fresh -> live -> deleted

vars == <<owns, object>>

Owned == {o \in Objects : \E s \in Slots : owns[s] = o}

Init ==
    /\ owns = [s \in Slots |-> NULL]
    /\ object = [o \in Objects |-> "fresh"]

\* Slots copy, move, swap and drop ownership: nothing is resurrected.
Transfer ==
    /\ \E heirs \in [Slots -> Owned \cup {NULL}] : owns' = heirs
    /\ UNCHANGED object

\* Slot s becomes the first owner of o.
Adopt(s, o) ==
    /\ object[o] = "fresh"
    /\ object' = [object EXCEPT ![o] = "live"]
    /\ owns' = [owns EXCEPT ![s] = o]

\* An adoption that failed gives the object up.
Refuse(o) ==
    /\ object[o] = "fresh"
    /\ object' = [object EXCEPT ![o] = "deleted"]
    /\ UNCHANGED owns

Delete(o) ==
    /\ object[o] = "live" /\ o \notin Owned
    /\ object' = [object EXCEPT ![o] = "deleted"]
    /\ UNCHANGED owns

Next ==
    \/ Transfer
    \/ \E o \in Objects : Refuse(o) \/ Delete(o) \/ \E s \in Slots : Adopt(s, o)

Spec     == Init /\ [][Next]_vars
FairSpec == Spec /\ \A o \in Objects : WF_vars(Delete(o))
=============================================================================
