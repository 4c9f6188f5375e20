----------------------------- MODULE MCScheduler -----------------------------
(* Scheduler on small fleets.                                              *)
EXTENDS Scheduler

Begins(objects) ==
    /\ object \in objects
    /\ state = [n \in Names |-> Untracked]
    /\ poll = NoPoll
    /\ pass = [n \in Names |-> NoPass]
    /\ minted = [n \in Names |-> 0]
    /\ gone = {}
    /\ edits = 0

(* One connection and room for a second: what two edits make of it includes *)
(* a conflict that comes and goes.                                          *)
First == CHOOSE n \in Names : TRUE
Claim == NewObject(CHOOSE c \in Claims : TRUE)
Alone ==
    /\ Begins({[n \in Names |-> IF n = First THEN Claim ELSE Absent]})
    /\ faults = 0 /\ restamps = 0 /\ restarts = 0
LiveSpec == Alone /\ [][Next]_vars /\ Fairness

(* Beside two edits, a refused write and a restart, or a schema change: which *)
(* of the two a behaviour may still meet is settled at the outset.            *)
ThingsGoWrong ==
    /\ Begins([Names -> {Absent} \cup {NewObject(s) : s \in Specs}])
    /\ \/ faults = 0 /\ restarts = 0 /\ restamps = MaxRestamps
       \/ faults = MaxFaults /\ restarts = MaxRestarts /\ restamps = 0
LossySpec ==
    ThingsGoWrong /\ [][Next]_vars /\ Fairness /\ \A n \in Names : WF_vars(BecomeDue(n))
=============================================================================
