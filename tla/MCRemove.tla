------------------------------ MODULE MCRemove ------------------------------
(* Instances of Remove for TLC: at the outset at most one thing is out of the *)
(* ordinary, and passes come with labels as they should be.                 *)
EXTENDS Remove

Odd(is) == IF is THEN 1 ELSE 0

Oddities == Odd(connection # "valid") + Odd(rival # "none") + Odd(far # "answers")
            + Cardinality(unmanaged) + Cardinality(theirs)

OneOddity ==
    /\ Init
    /\ Oddities <= 1
    /\ passes = IF unmanaged = {} /\ rival = "none" THEN 0 ELSE MaxPasses

OneOddSpec == OneOddity /\ [][Next]_vars
=============================================================================
