------------------------------ MODULE MCHealth ------------------------------
(* The instances of Health that TLC checks.                                 *)
EXTENDS Health

\* Either the inventory changes or a call hangs.
OneOddity == Init /\ <<changes, hangs>> \in {<<MaxChanges, 0>>, <<0, MaxHangs>>}
OneOddSpec == OneOddity /\ [][Next]_vars /\ Fairness
=============================================================================
