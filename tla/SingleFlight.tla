---------------------------- MODULE SingleFlight ----------------------------
(***************************************************************************)
(* What the scheduler promises about passes, without its locks, its poll   *)
(* loop or its writes: a cluster has one pass at a time, a pass works only *)
(* in one of the slots and starts only while the cluster is cleared for    *)
(* it, and no poll ends, restarts or duplicates a pass.                    *)
(***************************************************************************)
EXTENDS Naturals, FiniteSets

CONSTANTS
    Names,   \* clusters
    Slots    \* how many passes may work at once

VARIABLES
    phase,   \* per cluster: no pass, one waiting, working or on its way out
    cleared  \* clusters that may be reconciled, as far as is known

flight == <<phase, cleared>>

Phases == {"idle", "waiting", "working", "ending"}
Working == {n \in Names : phase[n] = "working"}

Init == phase = [n \in Names |-> "idle"] /\ cleared = {}

\* A poll changes what is known, and nothing about any pass.
Learn ==
    /\ cleared' \in SUBSET Names
    /\ UNCHANGED phase

Dispatch ==
    \E due \in SUBSET cleared :
        /\ \A n \in due : phase[n] = "idle"
        /\ phase' = [n \in Names |-> IF n \in due THEN "waiting" ELSE phase[n]]
        /\ UNCHANGED cleared

Move(n, from, to) ==
    /\ phase[n] = from
    /\ phase' = [phase EXCEPT ![n] = to]
    /\ UNCHANGED cleared

Begin(n) == n \in cleared /\ Cardinality(Working) < Slots /\ Move(n, "waiting", "working")
Abandon(n) == n \notin cleared /\ Move(n, "waiting", "ending")
Finish(n) == Move(n, "working", "ending")
Release(n) == Move(n, "ending", "idle")

\* The process is replaced by one that knows nothing.
Restart == phase' = [n \in Names |-> "idle"] /\ cleared' = {}

Next ==
    \/ Learn \/ Dispatch \/ Restart
    \/ \E n \in Names : Begin(n) \/ Abandon(n) \/ Finish(n) \/ Release(n)

Spec == Init /\ [][Next]_flight
=============================================================================
