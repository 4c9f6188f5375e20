----------------------------- MODULE MCBootstrap -----------------------------
(* What people ask of bootstrap, in the instances that TLC checks.          *)
EXTENDS Bootstrap

Plain == [role |-> "cluster-admin", ids |-> "default", mode |-> "apply",
          adopt |-> FALSE, replace |-> FALSE]
Asked == { Plain, [Plain EXCEPT !.adopt = TRUE], [Plain EXCEPT !.mode = "print"],
           [Plain EXCEPT !.mode = "print downstream"], [Plain EXCEPT !.mode = "complete"],
           [Plain EXCEPT !.mode = "dry run", !.replace = TRUE, !.role = "restricted"],
           [Plain EXCEPT !.role = "restricted"],
           [Plain EXCEPT !.role = "restricted", !.replace = TRUE] }
Invoked(asked) ==
    { [name |-> n, role |-> c.role, ids |-> c.ids, mode |-> c.mode, adopt |-> c.adopt,
       replace |-> c.replace] : n \in Names, c \in asked }

\* Another name is only asked for plainly.
First == CHOOSE n \in Names : TRUE
Everything == {c \in Invoked(Asked) : c.name # First => c \in Invoked({Plain})}

\* Either one thing done by people, or one fault; and what is there at the
\* outset is there under the first name.
OneOddity ==
    /\ Init
    /\ \A n \in Names \ {First} : registration[n] = "absent"
    /\ \/ events = MaxEvents /\ faults = 0
       \/ events = 0 /\ faults = MaxFaults

\* Names of one's own, and running it twice.
Named == Invoked({[Plain EXCEPT !.ids = "given"]})
Twice == Invoked({Plain, [Plain EXCEPT !.adopt = TRUE]})

\* What DoneMeansProvisioned needs of the flags is so in each instance.
ASSUME InstancesAgree == RolesAgree

OneOddSpec == OneOddity /\ [][Next]_vars /\ Fairness
=============================================================================
