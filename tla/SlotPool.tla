------------------------------ MODULE SlotPool ------------------------------
(***************************************************************************)
(* What llm.Pool promises its callers, without its mutex, waiters or       *)
(* channels (the package comment of src/llm/pool.go, lines 16-26): at most *)
(* Capacity calls hold a slot, and a slot that becomes free while calls    *)
(* are parked passes straight to the one that has waited longest.  Module  *)
(* Pool is checked, and proved, to implement this specification.           *)
(***************************************************************************)
EXTENDS Naturals, Sequences, FiniteSets, SequencesExt

CONSTANTS
    Calls,      \* the Acquire calls that are ever made
    Capacity    \* how many of them may hold a slot at once

VARIABLES
    holding,    \* the calls that own a slot
    waiting     \* the parked calls, the longest-waiting first

vars == <<holding, waiting>>

Init == holding = {} /\ waiting = <<>>

\* A free slot is taken at once, and only while nobody is parked.
Grant(c) ==
    /\ c \notin holding
    /\ waiting = <<>>
    /\ Cardinality(holding) < Capacity
    /\ holding' = holding \cup {c}
    /\ UNCHANGED waiting

\* A call parks only when every slot is taken.
Park(c) ==
    /\ c \notin holding
    /\ c \notin Range(waiting)
    /\ Cardinality(holding) = Capacity
    /\ waiting' = Append(waiting, c)
    /\ UNCHANGED holding

\* A parked call leaves without a slot (its context ended or it timed out).
GiveUp(i) ==
    /\ waiting' = RemoveAt(waiting, i)
    /\ UNCHANGED holding

\* A slot comes back with nobody parked.
Return(c) ==
    /\ c \in holding
    /\ waiting = <<>>
    /\ holding' = holding \ {c}
    /\ UNCHANGED waiting

\* A slot comes back and passes to the longest-waiting call.
PassOn(c) ==
    /\ c \in holding
    /\ waiting # <<>>
    /\ holding' = (holding \ {c}) \cup {Head(waiting)}
    /\ waiting' = Tail(waiting)

Next ==
    \/ \E c \in Calls : Grant(c) \/ Park(c) \/ Return(c) \/ PassOn(c)
    \/ \E i \in DOMAIN waiting : GiveUp(i)

Spec == Init /\ [][Next]_vars
=============================================================================
