----------------------------- MODULE FairPermits -----------------------------
(***************************************************************************)
(* What a pool of permits promises its users (the properties listed at the *)
(* head of exotic/limiter.rs), with no lock, condition variable, polling,  *)
(* cancellation or pipeline in sight: permits are granted in the order in  *)
(* which they were asked for, never more at once than there are; who gives *)
(* up leaves the line and everybody else keeps his place in it; a permit   *)
(* is given back once, by whoever has it by then.                          *)
(*                                                                         *)
(* HeavyPool implements this specification with each of its pools.         *)
(***************************************************************************)
EXTENDS Naturals, Sequences, FiniteSets, SequencesExt

CONSTANTS
    Users,      \* who may ever ask for a permit or have one handed to him
    Permits     \* how many there are

VARIABLES
    line,       \* those who wait, in the order in which they came
    held        \* those who have a permit

permitVars == <<line, held>>

Open == line = << >> /\ held = {}

\* Nobody waits twice, or for a second permit.
AskFor(u) ==
    /\ u \notin held /\ u \notin ToSet(line)
    /\ line' = Append(line, u)
    /\ UNCHANGED held

GiveUp ==
    /\ \E i \in 1..Len(line) : line' = RemoveAt(line, i)
    /\ UNCHANGED held

Grant ==
    /\ line # << >> /\ Head(line) \notin held
    /\ Cardinality(held) < Permits
    /\ held' = held \cup {Head(line)}
    /\ line' = Tail(line)

GiveBack(u) ==
    /\ u \in held
    /\ held' = held \ {u}
    /\ UNCHANGED line

HandOn(u, v) ==
    /\ u \in held /\ v \notin held
    /\ held' = (held \ {u}) \cup {v}
    /\ UNCHANGED line

Serve ==
    \/ GiveUp \/ Grant
    \/ \E u \in Users : AskFor(u) \/ GiveBack(u)
    \/ \E u, v \in Users : HandOn(u, v)

Spec == Open /\ [][Serve]_permitVars
=============================================================================
