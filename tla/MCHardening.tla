----------------------------- MODULE MCHardening -----------------------------
(* The instances of Hardening that TLC checks.                              *)
EXTENDS Hardening, FiniteSets, TLC

Interchangeable == Permutations(Conns) \cup Permutations(Endpoints) \cup Permutations(Secrets)

\* Up to two things done by people, or a fault, which to what is safe is but a
\* command that stops.  An inventory of full size, with every conflict that can
\* be in one, stays as it is.
OneOddity ==
    /\ Init
    /\ \/ DOMAIN inventory # Conns /\ events = 0 /\ faults = MaxFaults
       \/ DOMAIN inventory = Conns /\ events = MaxEvents /\ faults = 0

OneOddSpec == OneOddity /\ [][Next]_vars
=============================================================================
