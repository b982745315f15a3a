------------------------------ MODULE KacRing ------------------------------
(***************************************************************************)
(* get_cracked/coding/kac_ring.cpp: N balls on a ring move one position    *)
(* per step and change colour when they leave a marked one.  The           *)
(* constructor saves the total of the colours (+1 white, -1 black) for all *)
(* 2N steps of the period; step and kstep only move curr_step_ through it. *)
(***************************************************************************)
EXTENDS Integers, FiniteSets, Functions

CONSTANTS
    MaxBalls,   \* bound on N
    Word,       \* 2^w for the width w of size_t and long long
    KSteps      \* arguments of kstep

\* 2N is an int, k a long long, and their sum no more than a size_t holds.
ASSUME RingAssumption ==
    /\ MaxBalls \in Nat \ {0} /\ Word \in Nat \ {0} /\ KSteps \in SUBSET Int
    /\ \A k \in KSteps : k + 2 * MaxBalls <= Word

VARIABLES
    ring,        \* the arguments of the constructor: N and the marked positions
    curr_step,   \* curr_step_
    elapsed,     \* the steps made, as an integer modulo the period
    underflow    \* curr_step_ + k has been negative

kacVars == <<ring, curr_step, elapsed, underflow>>

Period(r) == 2 * r.N

Positions(r) == 0 .. r.N - 1

\* The colours of the balls after t steps, by position.
Balls(r) ==
    LET balls[t \in 0 .. Period(r)] ==
          IF t = 0 THEN [i \in Positions(r) |-> 1]
          ELSE [i \in Positions(r) |->
                  LET from == (i + r.N - 1) % r.N
                  IN IF from \in r.marked THEN - balls[t - 1][from] ELSE balls[t - 1][from]]
    IN balls

\* saved_, times N.
Saved(r) == [t \in 0 .. Period(r) - 1 |-> SumFunction(Balls(r)[t])]

Rings == UNION {{[N |-> n, marked |-> m] : m \in SUBSET (0 .. n - 1)} : n \in 1 .. MaxBalls}

KacInit ==
    /\ ring \in Rings /\ curr_step = 0 /\ elapsed = 0 /\ underflow = FALSE

KacStep ==
    /\ curr_step' = (curr_step + 1) % Period(ring)
    /\ elapsed' = (elapsed + 1) % Period(ring)
    /\ UNCHANGED <<ring, underflow>>

\* curr_step_ + k in size_t, which wraps around.
Advanced(k) == ((curr_step + k) % Word) % Period(ring)

KStep(k) ==
    /\ curr_step' = Advanced(k)
    /\ elapsed' = (elapsed + k) % Period(ring)
    /\ underflow' = (underflow \/ curr_step + k < 0)
    /\ UNCHANGED ring

KacNext == KacStep \/ \E k \in KSteps : KStep(k)

\* color(), times N.
Color == Saved(ring)[curr_step]

\* The ball that began at i has left the positions i to i + t - 1 after t steps.
MarksLeft(r, i, t) == {j \in 0 .. t - 1 : (i + j) % r.N \in r.marked}
BallAfter(r, i, t) == IF Cardinality(MarksLeft(r, i, t)) % 2 = 0 THEN 1 ELSE -1
TotalAfter(r, t)   == SumFunction([i \in Positions(r) |-> BallAfter(r, i, t)])

\* color() is that of the balls after all the steps made, also far beyond the
\* period; steps back count too, unless they pass step 0 in a ring whose period
\* does not divide 2^w.
RingAgrees == ~underflow \/ Word % Period(ring) = 0 => Color = TotalAfter(ring, elapsed)
=============================================================================
