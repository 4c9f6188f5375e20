-------------------------- MODULE Bootstrap_proofs --------------------------
(***************************************************************************)
(* What holds of bootstrap for any names, any number of commands at a time, *)
(* any flags, and any number of things that people do and calls that fail.  *)
(***************************************************************************)
EXTENDS Bootstrap, TLAPS

Phases == {"idle"} \cup Working \cup Over

-----------------------------------------------------------------------------
(* How a command moves.                                                    *)

\* One command goes from one of `froms` to one of `tos`; what it was given stays.
Moves(r, froms, tos) ==
    /\ run \in [Runs -> Run] /\ run' \in [Runs -> Run]
    /\ run[r].pc \in froms /\ run'[r].pc \in tos /\ run'[r].cmd = run[r].cmd
    /\ \A q \in Runs \ {r} : run'[q] = run[q]
Keeps(r) == run'[r].adopted = run[r].adopted
Clean(r) == run'[r].wrote = run[r].wrote

LEMMA GoesMoves ==
    ASSUME TypeOK, NEW r \in Runs, NEW pc \in Phases, Goes(r, pc)
    PROVE  Moves(r, {run[r].pc}, {pc}) /\ Keeps(r) /\ Clean(r)
<1>1. run[r] \in Run /\ run \in [Runs -> Run]
    BY DEF TypeOK
<1>2. run' = [run EXCEPT ![r] = [run[r] EXCEPT !.pc = pc]]
    BY <1>1 DEF Goes
<1>3. [run[r] EXCEPT !.pc = pc] \in Run
    BY <1>1 DEF Run, Phases
<1>4. QED
    BY <1>1, <1>2, <1>3 DEF Run, Moves, Keeps, Clean

LEMMA WritesMoves ==
    ASSUME TypeOK, NEW r \in Runs, NEW pc \in Phases, Writes(r, pc)
    PROVE  Moves(r, {run[r].pc}, {pc}) /\ Keeps(r)
<1>1. run[r] \in Run /\ run \in [Runs -> Run]
    BY DEF TypeOK
<1>2. run' = [run EXCEPT ![r] = [run[r] EXCEPT !.pc = pc, !.wrote = TRUE]]
    BY <1>1 DEF Writes
<1>3. [run[r] EXCEPT !.pc = pc, !.wrote = TRUE] \in Run
    BY <1>1 DEF Run, Phases
<1>4. QED
    BY <1>1, <1>2, <1>3 DEF Run, Moves, Keeps

\* The names, roles and accounts a command is given.
LEMMA GivenType ==
    ASSUME TypeOK, NEW r \in Runs
    PROVE  /\ run[r] \in Run /\ run[r].cmd \in Command
           /\ run[r].cmd.name \in Names /\ run[r].cmd.role \in Roles /\ run[r].cmd.ids \in Ids
BY BootstrapAssumption DEF BootstrapAssumption, TypeOK, Run, Command

LEMMA AnyType == /\ NoRun \in Run /\ NoPass \in Pass
                 /\ Absent \notin Connection /\ Absent.adopted = FALSE
                 /\ \A c \in Connection : c.role \in Roles /\ c.ids \in Ids
<1>1. (CHOOSE c \in Invocations : TRUE) \in Invocations
    BY BootstrapAssumption DEF BootstrapAssumption
<1>2. NoRun \in Run
    BY <1>1 DEF NoRun, Run
<1>3. (CHOOSE n \in Names : TRUE) \in Names
    <2>1. Names # {}
        BY <1>1, BootstrapAssumption DEF BootstrapAssumption, Command
    <2>2. QED
        BY <2>1
<1>4. NoPass \in Pass
    BY <1>3 DEF NoPass, Pass, Ids
<1>5. Absent \notin Connection /\ Absent.adopted = FALSE
    BY DEF Absent, Connection, Roles
<1>6. \A c \in Connection : c.role \in Roles /\ c.ids \in Ids
    BY DEF Connection
<1>7. QED
    BY <1>2, <1>4, <1>5, <1>6

\* What becomes of a name is left alone.
Elsewhere == UNCHANGED <<connection, registration, daemon, unseen, twins>>

\* Between the first write and the last.
LEMMA WritingMoves ==
    ASSUME TypeOK, NEW r \in Runs,
           \/ Unbind(r) \/ Rebind(r) \/ Recreate(r) \/ OwnIdentity(r)
           \/ ArgoIdentity(r) \/ CreateBinding(r) \/ Store(r)
    PROVE  Moves(r, Writing, Writing \cup {"failed", "printed"}) /\ Keeps(r) /\ Elsewhere
<1>1. ASSUME NEW from \in Writing, NEW to \in Writing \cup {"failed", "printed"}, run[r].pc = from,
             Goes(r, to) \/ Writes(r, to)
      PROVE  Moves(r, Writing, Writing \cup {"failed", "printed"}) /\ Keeps(r)
    <2>1. to \in Phases
        BY DEF Phases, Working, Over
    <2>2. Moves(r, {run[r].pc}, {to}) /\ Keeps(r)
        BY <1>1, <2>1, GoesMoves, WritesMoves
    <2>3. QED
        BY <1>1, <2>2 DEF Moves
<1>2. \A create \in Writing, next \in Writing :
          Found(r, create, next) \in Writing \cup {"failed", "printed"}
    BY DEF Found
<1>3. CASE Unbind(r)
    <2>1. run[r].pc = "unbind" /\ Writes(r, "rebind") /\ Elsewhere
        BY <1>3 DEF Unbind, Elsewhere, local
    <2>2. QED
        BY <1>1, <2>1 DEF Writing
<1>4. CASE Rebind(r)
    <2>1. run[r].pc = "rebind" /\ Goes(r, Found(r, "recreate", "own identity")) /\ Elsewhere
        BY <1>4 DEF Rebind, Elsewhere, local, history
    <2>2. QED
        BY <1>1, <1>2, <2>1 DEF Writing
<1>5. CASE Recreate(r)
    <2>1. run[r].pc = "recreate" /\ Writes(r, "own identity") /\ Elsewhere
        BY <1>5 DEF Recreate, Create, Elsewhere, local
    <2>2. QED
        BY <1>1, <2>1 DEF Writing
<1>6. CASE OwnIdentity(r)
    <2>1. run[r].pc = "own identity" /\ (Writes(r, "identity") \/ Writes(r, "failed")) /\ Elsewhere
        BY <1>6 DEF OwnIdentity, Elsewhere, local
    <2>2. QED
        BY <1>1, <2>1 DEF Writing
<1>7. CASE ArgoIdentity(r)
    <2>1. run[r].pc = "identity" /\ Writes(r, Found(r, "create", "store")) /\ Elsewhere
        BY <1>7 DEF ArgoIdentity, Elsewhere, local
    <2>2. QED
        BY <1>1, <1>2, <2>1 DEF Writing
<1>8. CASE CreateBinding(r)
    <2>1. run[r].pc = "create" /\ Writes(r, "store") /\ Elsewhere
        BY <1>8 DEF CreateBinding, Create, Elsewhere, local
    <2>2. QED
        BY <1>1, <2>1 DEF Writing
<1>9. CASE Store(r)
    <2>1. /\ run[r].pc = "store" /\ Elsewhere
          /\ Writes(r, "printed") \/ Writes(r, "connect") \/ Goes(r, "failed")
        BY <1>9 DEF Store, Elsewhere
    <2>2. QED
        BY <1>1, <2>1 DEF Writing
<1>10. QED
    BY <1>3, <1>4, <1>5, <1>6, <1>7, <1>8, <1>9

LEMMA CheckingMoves ==
    ASSUME TypeOK, NEW r \in Runs, Fails(r) \/ ReadRole(r)
    PROVE  /\ Moves(r, Working, {"failed", "refused", "target"}) /\ Keeps(r) /\ Clean(r) /\ Elsewhere
           /\ run'[r].pc # "failed" => run[r].pc = "role"
<1>1. CASE Fails(r)
    <2>1. Moves(r, {run[r].pc}, {"failed"}) /\ Keeps(r) /\ Clean(r)
        BY <1>1, GoesMoves DEF Fails, Phases, Over
    <2>2. QED
        BY <1>1, <2>1 DEF Fails, Moves, Elsewhere, local, history
<1>2. CASE ReadRole(r)
    <2> DEFINE to == IF Replacing(r) /\ ~run[r].cmd.replace THEN "refused" ELSE "target"
    <2>1. run[r] \in Run /\ run \in [Runs -> Run]
        BY DEF TypeOK
    <2>2. run' = [run EXCEPT ![r] = [run[r] EXCEPT !.replacing = Replacing(r), !.pc = to]]
        BY <1>2, <2>1 DEF ReadRole
    <2>3. Replacing(r) \in BOOLEAN
        BY Zenon DEF Replacing
    <2>4. to \in {"refused", "target"}
        OBVIOUS
    <2> HIDE DEF to
    <2>5. [run[r] EXCEPT !.replacing = Replacing(r), !.pc = to] \in Run
        BY <2>1, <2>3, <2>4 DEF Run, Working, Checking, Over
    <2>6. /\ run'[r].pc = to /\ run'[r].cmd = run[r].cmd /\ Keeps(r) /\ Clean(r)
          /\ run' \in [Runs -> Run] /\ \A q \in Runs \ {r} : run'[q] = run[q]
        BY <2>1, <2>2, <2>5 DEF Run, Keeps, Clean
    <2>7. run[r].pc = "role" /\ Elsewhere
        BY <1>2 DEF ReadRole, Elsewhere, local, history
    <2>8. QED
        BY <2>1, <2>4, <2>6, <2>7 DEF Moves, Working, Checking
<1>3. QED
    BY <1>1, <1>2

\* What was found is recorded, or the name is one that nobody could look at.
LEMMA TargetMoves ==
    ASSUME TypeOK, NEW r \in Runs, InspectTarget(r)
    PROVE  LET n == run[r].cmd.name IN
           /\ Moves(r, {"target"}, {"refused", "duplicate"}) /\ Clean(r)
           /\ UNCHANGED <<connection, registration, daemon, twins>>
           /\ unseen \subseteq unseen' /\ unseen' \subseteq Names
           /\ run'[r].adopted => registration[n] = "foreign" \/ n \in unseen'
           /\ run'[r].pc = "duplicate" /\ registration[n] = "foreign" =>
                  run'[r].adopted \/ n \in unseen'
<1> DEFINE n == run[r].cmd.name
<1>1. run[r] \in Run /\ run \in [Runs -> Run] /\ run[r].cmd.adopt \in BOOLEAN /\ n \in Names
    BY GivenType DEF TypeOK, Command
<1>2. PICK target \in {Classified(n), "unreadable"} :
          /\ unseen' = IF target = "unreadable" THEN unseen \cup {n} ELSE unseen
          /\ run' = [run EXCEPT ![r].adopted = Adopted(r, target),
                                ![r].pc = IF RefusedTarget(r, target) THEN "refused" ELSE "duplicate"]
    BY DEF InspectTarget
<1> DEFINE to == IF RefusedTarget(r, target) THEN "refused" ELSE "duplicate"
<1>3. run' = [run EXCEPT ![r] = [run[r] EXCEPT !.adopted = Adopted(r, target), !.pc = to]]
    BY <1>1, <1>2
<1>4. Adopted(r, target) \in BOOLEAN
    BY Zenon DEF Adopted
<1>5. to \in {"refused", "duplicate"} /\ (to = "duplicate" => ~RefusedTarget(r, target))
    OBVIOUS
<1> HIDE DEF to, n
<1>6. [run[r] EXCEPT !.adopted = Adopted(r, target), !.pc = to] \in Run
    BY <1>1, <1>4, <1>5 DEF Run, Working, Checking, Over
<1>7. /\ run'[r].pc = to /\ run'[r].cmd = run[r].cmd /\ run'[r].adopted = Adopted(r, target)
      /\ run'[r].wrote = run[r].wrote
      /\ run' \in [Runs -> Run] /\ \A q \in Runs \ {r} : run'[q] = run[q]
    BY <1>1, <1>3, <1>6 DEF Run
<1>8. run[r].pc = "target" /\ UNCHANGED <<connection, registration, daemon, twins>>
    BY DEF InspectTarget, local
<1>9. Moves(r, {"target"}, {"refused", "duplicate"}) /\ Clean(r)
    BY <1>1, <1>5, <1>7, <1>8 DEF Moves, Clean
<1>10. unseen \subseteq unseen' /\ unseen' \subseteq Names
    BY <1>1, <1>2 DEF TypeOK
<1>11. target = "foreign" => registration[n] = "foreign"
    BY <1>2 DEF Classified
<1>12. target = "unreadable" => n \in unseen'
    BY <1>2
<1>13. run'[r].adopted => registration[n] = "foreign" \/ n \in unseen'
    BY <1>7, <1>11, <1>12 DEF Adopted
<1>14. run'[r].pc = "duplicate" /\ registration[n] = "foreign" => run'[r].adopted \/ n \in unseen'
    BY <1>2, <1>5, <1>7, <1>12 DEF Adopted, RefusedTarget, Classified
<1>15. QED
    BY <1>8, <1>9, <1>10, <1>13, <1>14 DEF n

LEMMA DuplicateMoves ==
    ASSUME TypeOK, NEW r \in Runs, RefuseDuplicate(r)
    PROVE  LET n == run[r].cmd.name IN
           /\ Moves(r, {"duplicate"}, {"refused", "previewed"} \cup Writing) /\ Keeps(r) /\ Clean(r)
           /\ UNCHANGED <<connection, registration, daemon, unseen>>
           /\ twins' \in BOOLEAN /\ (twins => twins')
           /\ run'[r].pc \in Writing => twins' \/ ~(ClaimedElsewhere(n) \/ PendingElsewhere(n))
<1> DEFINE n == run[r].cmd.name
           next == IF Mode(r, "dry run") THEN "previewed" ELSE Onward(r)
<1>1. next \in {"previewed"} \cup Writing
    BY DEF Onward, Writing
<1>2. run[r].pc = "duplicate" /\ UNCHANGED <<connection, registration, daemon, unseen>>
    BY DEF RefuseDuplicate, local
<1>3. CASE /\ Goes(r, IF ClaimedElsewhere(n) THEN "refused" ELSE next)
           /\ twins' = (twins \/ (PendingElsewhere(n) /\ ~ClaimedElsewhere(n)))
    <2> DEFINE to == IF ClaimedElsewhere(n) THEN "refused" ELSE next
    <2>1. to \in {"refused", "previewed"} \cup Writing /\ (to \in Writing => ~ClaimedElsewhere(n))
        BY <1>1 DEF Writing
    <2> HIDE DEF to
    <2>2. Moves(r, {run[r].pc}, {to}) /\ Keeps(r) /\ Clean(r)
        BY <1>3, <2>1, GoesMoves DEF to, Phases, Working, Over
    <2>3. Moves(r, {"duplicate"}, {"refused", "previewed"} \cup Writing) /\ run'[r].pc = to
        BY <1>2, <2>1, <2>2 DEF Moves
    <2>4. twins' \in BOOLEAN /\ (twins => twins')
          /\ (twins' \/ ClaimedElsewhere(n) \/ ~PendingElsewhere(n))
        BY <1>3, Zenon
    <2>5. QED
        BY <1>2, <2>1, <2>2, <2>3, <2>4
<1>4. CASE Goes(r, next) /\ twins' = TRUE
    <2>1. Moves(r, {run[r].pc}, {next}) /\ Keeps(r) /\ Clean(r)
        BY <1>1, <1>4, GoesMoves DEF Phases, Working, Over
    <2>2. Moves(r, {"duplicate"}, {"refused", "previewed"} \cup Writing)
        BY <1>1, <1>2, <2>1 DEF Moves
    <2>3. QED
        BY <1>2, <1>4, <2>1, <2>2
<1>5. QED
    BY <1>3, <1>4 DEF RefuseDuplicate

\* A connection is written: it records an adoption if the command found one, and
\* no other unless it did before.
LEMMA ConnectMoves ==
    ASSUME TypeOK, NEW r \in Runs, Connect(r) \/ Commit(r)
    PROVE  LET n == run[r].cmd.name IN
           /\ UNCHANGED <<registration, daemon, unseen, twins>> /\ Keeps(r)
           /\ \/ Moves(r, {"connect"}, {"failed"}) /\ UNCHANGED connection
              \/ /\ Moves(r, {"connect", "printed"}, {"done", "committed"})
                 /\ \E new \in Connection :
                        /\ connection' = [connection EXCEPT ![n] = new]
                        /\ run[r].adopted => new.adopted
                        /\ new.adopted => run[r].adopted \/ connection[n].adopted
<1> DEFINE n == run[r].cmd.name
<1>1. /\ run[r] \in Run /\ n \in Names /\ run[r].cmd.role \in Roles /\ run[r].adopted \in BOOLEAN
      /\ connection[n] \in Connection \cup {Absent} /\ connection \in [Names -> Connection \cup {Absent}]
    BY GivenType DEF TypeOK, Run
<1>2. ASSUME NEW holder \in {"bootstrap", "others"}
      PROVE  /\ ConnectionFor(r, holder) \in Connection
             /\ ConnectionFor(r, holder).adopted = run[r].adopted
    BY <1>1 DEF ConnectionFor, Connection, Ids
<1>3. CASE Connect(r) /\ Conflicts(r)
    <2>1. run[r].pc = "connect" /\ Goes(r, "failed") /\ UNCHANGED connection
        BY <1>3 DEF Connect
    <2>2. Moves(r, {run[r].pc}, {"failed"}) /\ Keeps(r)
        BY <2>1, GoesMoves DEF Phases, Over
    <2>3. QED
        BY <1>3, <2>1, <2>2 DEF Connect
<1>4. CASE Connect(r) /\ ~Conflicts(r)
    <2> DEFINE old == connection[n]
               new == Merged(old, ConnectionFor(r, "bootstrap"))
    <2>1. /\ run[r].pc = "connect" /\ Writes(r, "done")
          /\ connection' = [connection EXCEPT ![n] = new]
        BY <1>1, <1>4 DEF Connect
    <2>2. /\ new \in Connection /\ (run[r].adopted => new.adopted)
          /\ new.adopted => run[r].adopted \/ old.adopted
        <3> DEFINE fresh == ConnectionFor(r, "bootstrap")
        <3>1. fresh \in Connection /\ fresh.adopted = run[r].adopted
            BY <1>2
        <3> HIDE DEF fresh
        <3>2. CASE old.holder # "others"
            BY <3>1, <3>2 DEF Merged, fresh
        <3>3. CASE old.holder = "others"
            <4>1. old \in Connection
                BY <1>1, <3>3 DEF Absent
            <4>2. new = [fresh EXCEPT !.role = IF fresh.role = "cluster-admin" THEN old.role ELSE fresh.role,
                                      !.ids = old.ids, !.adopted = (fresh.adopted \/ old.adopted),
                                      !.holder = "others"]
                BY <3>1, <3>3 DEF Merged, fresh, Connection
            <4>3. (IF fresh.role = "cluster-admin" THEN old.role ELSE fresh.role) \in Roles
                BY <3>1, <4>1 DEF Connection
            <4>4. (fresh.adopted \/ old.adopted) \in BOOLEAN
                BY Zenon
            <4>5. new \in Connection /\ new.adopted = (fresh.adopted \/ old.adopted)
                BY <3>1, <4>1, <4>2, <4>3, <4>4 DEF Connection
            <4>6. QED
                BY <3>1, <4>5
        <3>4. QED
            BY <3>2, <3>3
    <2> HIDE DEF new
    <2>3. Moves(r, {run[r].pc}, {"done"}) /\ Keeps(r)
        BY <2>1, WritesMoves DEF Phases, Over
    <2>4. Moves(r, {"connect", "printed"}, {"done", "committed"})
        BY <2>1, <2>3 DEF Moves
    <2>5. UNCHANGED <<registration, daemon, unseen, twins>>
        BY <1>4 DEF Connect
    <2>6. QED
        BY <2>1, <2>2, <2>3, <2>4, <2>5
<1>5. CASE Commit(r)
    <2> DEFINE fresh == ConnectionFor(r, "others")
               new == [fresh EXCEPT !.adopted = (fresh.adopted \/ connection[n].adopted)]
    <2>1. fresh \in Connection /\ fresh.adopted = run[r].adopted
        BY <1>2
    <2>2. /\ run[r].pc = "printed" /\ Goes(r, "committed")
          /\ connection' = [connection EXCEPT ![n] = new]
        BY <1>1, <1>5, <2>1 DEF Commit, Connection
    <2> HIDE DEF fresh
    <2>3. (fresh.adopted \/ connection[n].adopted) \in BOOLEAN
        BY Zenon
    <2>4. new \in Connection /\ new.adopted = (fresh.adopted \/ connection[n].adopted)
        BY <2>1, <2>3 DEF Connection
    <2> HIDE DEF new
    <2>5. Moves(r, {run[r].pc}, {"committed"}) /\ Keeps(r)
        BY <2>2, GoesMoves DEF Phases, Over
    <2>6. Moves(r, {"connect", "printed"}, {"done", "committed"})
        BY <2>2, <2>5 DEF Moves
    <2>7. UNCHANGED <<registration, daemon, unseen, twins>>
        BY <1>5 DEF Commit
    <2>8. QED
        BY <2>1, <2>2, <2>4, <2>5, <2>6, <2>7
<1>6. QED
    BY <1>3, <1>4, <1>5

\* A command begins with nothing done and nothing found.
LEMMA StartMoves ==
    ASSUME TypeOK, NEW r \in Runs, Start(r)
    PROVE  /\ run' \in [Runs -> Run] /\ run'[r].pc \in {"role", "target", "handed over"}
           /\ run'[r].adopted = FALSE /\ run'[r].wrote = FALSE
           /\ \A q \in Runs \ {r} : run'[q] = run[q]
           /\ disturbed' \subseteq Runs /\ Elsewhere
           /\ UNCHANGED <<down, credential, events, faults>>
<1>1. PICK c \in Invocations :
          /\ run' = [run EXCEPT ![r] = [NoRun EXCEPT !.cmd = c,
                        !.pc = CASE c.mode = "print downstream" -> "handed over"
                                 [] c.mode = "complete" -> "target"
                                 [] OTHER -> "role"]]
          /\ disturbed' = IF c.mode = "complete" /\ down[c.ids] # Provisioned(c.role)
                          THEN disturbed \cup {r} ELSE disturbed
    BY DEF Start
<1> DEFINE to == CASE c.mode = "print downstream" -> "handed over"
                   [] c.mode = "complete" -> "target"
                   [] OTHER -> "role"
<1>2. to \in {"role", "target", "handed over"}
    OBVIOUS
<1>3. run' = [run EXCEPT ![r] = [NoRun EXCEPT !.cmd = c, !.pc = to]]
    BY <1>1
<1> HIDE DEF to
<1>4. /\ [NoRun EXCEPT !.cmd = c, !.pc = to] \in Run
      /\ [NoRun EXCEPT !.cmd = c, !.pc = to].pc = to
      /\ [NoRun EXCEPT !.cmd = c, !.pc = to].adopted = NoRun.adopted
      /\ [NoRun EXCEPT !.cmd = c, !.pc = to].wrote = NoRun.wrote
    <2>1. to \in Phases
        BY <1>2 DEF Phases, Working, Checking, Over
    <2>2. QED
        BY <2>1, AnyType DEF Run, Phases
<1>5. NoRun.adopted = FALSE /\ NoRun.wrote = FALSE
    BY DEF NoRun
<1>6. disturbed' \subseteq Runs
    BY <1>1 DEF TypeOK
<1>7. Elsewhere /\ UNCHANGED <<down, credential, events, faults>>
    BY DEF Start, Elsewhere, local
<1>8. run \in [Runs -> Run]
    BY DEF TypeOK
<1>9. QED
    BY <1>2, <1>3, <1>4, <1>5, <1>6, <1>7, <1>8

-----------------------------------------------------------------------------
(* People and the daemon.                                                  *)

LEMMA PeopleMove ==
    ASSUME TypeOK, People
    PROVE  /\ UNCHANGED <<run, daemon, faults>> /\ events' \in 0..MaxEvents /\ disturbed' \subseteq Runs
           /\ connection' \in [Names -> Connection \cup {Absent}]
           /\ registration' \in [Names -> {"absent", "ours", "foreign", "inherited"}]
           /\ unseen \subseteq unseen' /\ unseen' \subseteq Names /\ credential' = credential
           /\ \/ /\ \E n \in Names : ForeignAppears(n)
              \/ /\ \E n \in Names : WrittenByHand(n)
              \/ /\ registration' = registration /\ twins' = twins
                 /\ \A n \in Names : connection'[n] \in {connection[n], Absent}
<1>1. /\ UNCHANGED <<run, daemon, faults>> /\ events' \in 0..MaxEvents /\ disturbed' \subseteq Runs
    BY BootstrapAssumption DEF People, AllDisturbed, TypeOK, BootstrapAssumption
<1>2. CASE \E n \in Names : ForeignAppears(n)
    BY <1>1, <1>2 DEF ForeignAppears, TypeOK
<1>3. CASE \E n \in Names : WrittenByHand(n)
    <2>1. [role |-> "cluster-admin", ids |-> "default", adopted |-> FALSE, holder |-> "others"]
              \in Connection
        BY DEF Connection, Roles, Ids
    <2>2. QED
        BY <1>1, <1>3, <2>1 DEF WrittenByHand, TypeOK
<1>4. CASE \E n \in Names : DeleteConnection(n)
    BY <1>1, <1>4 DEF DeleteConnection, TypeOK
<1>5. CASE DeleteBinding
    BY <1>1, <1>5 DEF DeleteBinding, local, TypeOK
<1>6. QED
    BY <1>2, <1>3, <1>4, <1>5 DEF People

\* A pass under way is over the connection it began with.
PassKeeps == pass'.pc # "idle" => /\ pass.pc # "idle" /\ pass'.name = pass.name
                                  /\ pass'.conn = pass.conn

LEMMA PassMoves ==
    ASSUME TypeOK, PassRenew \/ PassIdentity \/ PassCreate \/ PassFails
    PROVE  /\ UNCHANGED <<connection, registration, run, known, history, events>>
           /\ pass' \in Pass /\ PassKeeps /\ faults' \in 0..MaxFaults
<1>1. pass \in Pass /\ NoPass \in Pass /\ NoPass.pc = "idle"
    BY AnyType DEF TypeOK, NoPass
<1>2. \A pc \in {"identity", "create", "publish"} :
          /\ [pass EXCEPT !.pc = pc] \in Pass /\ [pass EXCEPT !.pc = pc].name = pass.name
          /\ [pass EXCEPT !.pc = pc].conn = pass.conn
    BY <1>1 DEF Pass
<1>3. CASE PassRenew
    BY <1>1, <1>2, <1>3 DEF PassRenew, PassKeeps, TypeOK
<1>4. CASE PassIdentity
    <2>1. pass' \in {[pass EXCEPT !.pc = "publish"], [pass EXCEPT !.pc = "create"], NoPass}
          /\ pass.pc = "identity"
        BY <1>4 DEF PassIdentity
    <2>2. QED
        BY <1>1, <1>2, <1>4, <2>1 DEF PassIdentity, PassKeeps, local, TypeOK
<1>5. CASE PassCreate
    <2>1. pass' \in {[pass EXCEPT !.pc = "publish"], NoPass} /\ pass.pc = "create"
        BY <1>5 DEF PassCreate
    <2>2. QED
        BY <1>1, <1>2, <1>5, <2>1 DEF PassCreate, PassKeeps, local, TypeOK
<1>6. CASE PassFails
    BY <1>1, <1>6, BootstrapAssumption
       DEF PassFails, PassKeeps, local, Fault, TypeOK, BootstrapAssumption
<1>7. QED
    BY <1>3, <1>4, <1>5, <1>6

LEMMA PublishMoves ==
    ASSUME TypeOK, PassPublish
    PROVE  /\ UNCHANGED <<down, credential, connection, run, known, history, events, faults>>
           /\ pass' = NoPass /\ pass.pc = "publish" /\ pass.name \in Names
           /\ registration' \in [Names -> {"absent", "ours", "foreign", "inherited"}]
           /\ \A n \in Names \ {pass.name} : registration'[n] = registration[n]
           /\ registration'[pass.name] # "foreign"
           /\ registration[pass.name] \in {"foreign", "inherited"} =>
                  registration'[pass.name] = "inherited"
<1>1. pass.name \in Names /\ registration \in [Names -> {"absent", "ours", "foreign", "inherited"}]
    BY DEF TypeOK, Pass
<1> DEFINE old == registration[pass.name]
           new == CASE old = "absent" -> "ours" [] old = "foreign" -> "inherited" [] OTHER -> old
<1>2. registration' = [registration EXCEPT ![pass.name] = new]
    BY <1>1 DEF PassPublish
<1>3. /\ new \in {"ours", "inherited"}
      /\ old \in {"foreign", "inherited"} => new = "inherited"
    BY <1>1
<1> HIDE DEF new
<1>4. QED
    BY <1>1, <1>2, <1>3 DEF PassPublish

LEMMA BeginMoves ==
    ASSUME TypeOK, NEW n \in Names, PassBegin(n)
    PROVE  /\ UNCHANGED <<down, connection, credential, registration, run, known, history, events, faults>>
           /\ pass' \in Pass /\ pass'.name = n /\ pass'.conn = known[n] /\ known[n] # Absent
<1>1. known[n] \in Connection \cup {Absent} /\ credential[n] \in Ids
    BY DEF TypeOK, PassBegin, Works
<1>2. pass' = [pc |-> "renew", name |-> n, conn |-> known[n], as |-> credential[n]]
    BY DEF PassBegin
<1>3. pass' \in Pass /\ pass'.name = n /\ pass'.conn = known[n]
    BY <1>1, <1>2 DEF Pass
<1>4. QED
    BY <1>3 DEF PassBegin, local

-----------------------------------------------------------------------------
(* Types.                                                                  *)

Identities == [account : BOOLEAN, binding : MaybeRole, own : BOOLEAN,
               ownBinding : BOOLEAN, mayBind : MaybeRole]

LEMMA InitType == Init => TypeOK
<1> SUFFICES ASSUME Init PROVE TypeOK
    OBVIOUS
<1>1. NoIdentity \in Identities
    BY DEF NoIdentity, Identities, MaybeRole
<1>2. down \in [Ids -> Identities]
    BY <1>1 DEF Init
<1>3. run \in [Runs -> Run] /\ pass \in Pass
    BY AnyType DEF Init
<1>4. /\ credential \in [Names -> Ids \cup {"none"}]
      /\ connection \in [Names -> Connection \cup {Absent}]
      /\ known \in [Names -> Connection \cup {Absent}]
      /\ registration \in [Names -> {"absent", "ours", "foreign", "inherited"}]
    BY DEF Init
<1>5. /\ unseen \subseteq Names /\ twins \in BOOLEAN /\ disturbed \subseteq Runs
      /\ events \in 0..MaxEvents /\ faults \in 0..MaxFaults
    BY DEF Init
<1>6. QED
    BY <1>2, <1>3, <1>4, <1>5 DEF TypeOK, Identities

\* What is written downstream, by whomever.
LEMMA DownTypes ==
    ASSUME TypeOK, NEW i
    PROVE  /\ down \in [Ids -> Identities]
           /\ [down EXCEPT ![i].account = TRUE] \in [Ids -> Identities]
           /\ [down EXCEPT ![i].binding = "none"] \in [Ids -> Identities]
           /\ \A role \in MaybeRole : BindTo(i, role) => down' \in [Ids -> Identities]
           /\ \A identity \in Identities : [down EXCEPT ![i] = identity] \in [Ids -> Identities]
<1>1. down \in [Ids -> Identities]
    BY DEF TypeOK, Identities
<1>2. \A identity \in Identities, role \in MaybeRole :
          [identity EXCEPT !.account = TRUE] \in Identities
          /\ [identity EXCEPT !.binding = role] \in Identities
    BY DEF Identities
<1>3. "none" \in MaybeRole
    BY DEF MaybeRole
<1>4. \A identity \in Identities : [down EXCEPT ![i] = identity] \in [Ids -> Identities]
    BY <1>1
<1>5. [down EXCEPT ![i].account = TRUE] \in [Ids -> Identities]
    BY <1>1, <1>2, <1>3
<1>6. \A role \in MaybeRole : [down EXCEPT ![i].binding = role] \in [Ids -> Identities]
    BY <1>1, <1>2
<1>7. ASSUME NEW role \in MaybeRole, BindTo(i, role) PROVE down' \in [Ids -> Identities]
    <2>1. CASE i \in Ids
        <3>1. down' = [down EXCEPT ![i].binding = IF down[i].binding = "none" THEN role ELSE down[i].binding]
            BY <1>1, <1>7, <2>1 DEF BindTo
        <3>2. (IF down[i].binding = "none" THEN role ELSE down[i].binding) \in MaybeRole
            BY <1>1, <2>1 DEF Identities
        <3>3. QED
            BY <1>6, <3>1, <3>2
    <2>2. CASE i \notin Ids
        <3>1. down' = down
            BY <1>1, <1>7, <2>2 DEF BindTo
        <3>2. QED
            BY <1>1, <3>1
    <2>3. QED
        BY <2>1, <2>2
<1>8. QED
    BY <1>1, <1>3, <1>4, <1>5, <1>6, <1>7

\* The history that every command writes.
LEMMA DisturbsType ==
    ASSUME TypeOK, NEW r \in Runs, Disturbs(r)
    PROVE  disturbed' \subseteq Runs
BY DEF TypeOK, Disturbs

LEMMA WritingDown ==
    ASSUME TypeOK, NEW r \in Runs,
           \/ Unbind(r) \/ Rebind(r) \/ Recreate(r) \/ OwnIdentity(r)
           \/ ArgoIdentity(r) \/ CreateBinding(r) \/ Store(r) \/ ApplyDownstream(r)
    PROVE  /\ down' \in [Ids -> Identities] /\ credential' \in [Names -> Ids \cup {"none"}]
           /\ disturbed' \subseteq Runs /\ events' = events /\ faults' \in 0..MaxFaults
<1> DEFINE i == run[r].cmd.ids
           role == run[r].cmd.role
<1> USE BootstrapAssumption DEF BootstrapAssumption
<1>1. i \in Ids /\ role \in Roles /\ role \in MaybeRole /\ run[r].cmd.name \in Names
    BY GivenType DEF MaybeRole
<1>2. /\ faults \in 0..MaxFaults /\ disturbed \subseteq Runs /\ down[i] \in Identities
      /\ credential \in [Names -> Ids \cup {"none"}]
    BY <1>1 DEF TypeOK, Identities
<1>3. CASE Unbind(r) \/ ArgoIdentity(r)
    <2>1. down' = [down EXCEPT ![i].binding = "none"] \/ down' = [down EXCEPT ![i].account = TRUE]
        BY <1>3 DEF Unbind, ArgoIdentity
    <2>2. down' \in [Ids -> Identities]
        BY <1>1, <2>1, DownTypes
    <2>3. credential' = credential /\ events' = events /\ faults' = faults /\ Disturbs(r)
        BY <1>3 DEF Unbind, ArgoIdentity, local
    <2>4. QED
        BY <1>2, <2>2, <2>3, DisturbsType
<1>4. CASE Rebind(r)
    BY <1>2, <1>4, DownTypes DEF Rebind, local, history
<1>5. CASE Recreate(r) \/ CreateBinding(r)
    BY <1>1, <1>2, <1>5, DownTypes, DisturbsType DEF Recreate, CreateBinding, Create, local
<1>6. CASE OwnIdentity(r)
    <2> DEFINE after == Owned(down[i], role)
    <2>1. after \in Identities
        BY <1>1, <1>2 DEF Owned, Identities
    <2>2. [down[i] EXCEPT !.own = TRUE] \in Identities
        BY <1>2 DEF Identities
    <2>3. [after EXCEPT !.ownBinding = down[i].ownBinding] \in Identities
        BY <1>2, <2>1 DEF Identities
    <2>4. down' \in {[down EXCEPT ![i] = after], [down EXCEPT ![i] = [down[i] EXCEPT !.own = TRUE]],
                     [down EXCEPT ![i] = [after EXCEPT !.ownBinding = down[i].ownBinding]]}
        BY <1>6 DEF OwnIdentity, Identity
    <2> HIDE DEF after
    <2>5. down' \in [Ids -> Identities]
        BY <2>1, <2>2, <2>3, <2>4, DownTypes
    <2>6. Disturbs(r) /\ credential' = credential /\ events' = events
        BY <1>6 DEF OwnIdentity, local
    <2>7. faults' = faults \/ Fault
        BY <1>6 DEF OwnIdentity
    <2>8. faults' \in 0..MaxFaults
        BY <1>2, <2>7 DEF Fault
    <2>9. QED
        BY <1>2, <2>5, <2>6, <2>8, DisturbsType
<1>7. CASE Store(r)
    BY <1>1, <1>2, <1>7, DownTypes, DisturbsType DEF Store
<1>8. CASE ApplyDownstream(r)
    <2> DEFINE binding == IF down[i].binding = "none" THEN role ELSE down[i].binding
    <2>1. Provisioned(role) \in Identities /\ Provisioned(role).binding = role
        BY <1>1 DEF Provisioned, Identities
    <2>2. binding \in MaybeRole
        BY <1>1, <1>2 DEF Identities
    <2>3. down' = [down EXCEPT ![i] = [Provisioned(role) EXCEPT !.binding = binding]]
        BY <1>8, <2>1 DEF ApplyDownstream, Identity, Identities
    <2> HIDE DEF binding
    <2>4. [Provisioned(role) EXCEPT !.binding = binding] \in Identities
        BY <2>1, <2>2 DEF Identities
    <2>5. QED
        BY <1>2, <1>8, <2>3, <2>4, DownTypes, DisturbsType DEF ApplyDownstream, local
<1>9. QED
    BY <1>3, <1>4, <1>5, <1>6, <1>7, <1>8

LEMMA StepType ==
    ASSUME TypeOK, NEW r \in Runs,
           Start(r) \/ Fails(r) \/ BootstrapStep(r) \/ ApplyDownstream(r) \/ Commit(r)
    PROVE  TypeOK'
<1> USE DEF Identities
<1>1. CASE Start(r)
    BY <1>1, StartMoves DEF TypeOK, Elsewhere, daemon
<1>2. CASE Fails(r) \/ ReadRole(r)
    <2>1. run' \in [Runs -> Run] /\ Elsewhere
        BY <1>2, CheckingMoves DEF Moves
    <2>2. faults' = faults \/ Fault
        BY <1>2 DEF Fails, ReadRole
    <2>3. faults' \in 0..MaxFaults
        BY <2>2, BootstrapAssumption DEF Fault, TypeOK, BootstrapAssumption
    <2>4. UNCHANGED <<down, credential, disturbed, events>>
        BY <1>2 DEF Fails, ReadRole, local, history
    <2>5. QED
        BY <2>1, <2>3, <2>4 DEF TypeOK, Elsewhere, daemon
<1>3. CASE InspectTarget(r)
    <2>1. /\ run' \in [Runs -> Run] /\ UNCHANGED <<connection, registration, daemon, twins>>
          /\ unseen' \subseteq Names
        BY <1>3, TargetMoves DEF Moves
    <2>2. (faults' = faults \/ Fault) /\ UNCHANGED <<down, credential, disturbed, events>>
        BY <1>3 DEF InspectTarget, local
    <2>3. faults' \in 0..MaxFaults
        BY <2>2, BootstrapAssumption DEF Fault, TypeOK, BootstrapAssumption
    <2>4. QED
        BY <2>1, <2>2, <2>3 DEF TypeOK, daemon
<1>4. CASE RefuseDuplicate(r)
    <2>1. /\ run' \in [Runs -> Run] /\ UNCHANGED <<connection, registration, daemon, unseen>>
          /\ twins' \in BOOLEAN
        BY <1>4, DuplicateMoves DEF Moves
    <2>2. faults' = faults \/ Fault
        BY <1>4 DEF RefuseDuplicate
    <2>3. UNCHANGED <<down, credential, disturbed, events>>
        BY <1>4 DEF RefuseDuplicate, local
    <2>4. faults' \in 0..MaxFaults
        BY <2>2, BootstrapAssumption DEF Fault, TypeOK, BootstrapAssumption
    <2>5. QED
        BY <2>1, <2>3, <2>4 DEF TypeOK, daemon
<1>5. CASE \/ Unbind(r) \/ Rebind(r) \/ Recreate(r) \/ OwnIdentity(r)
           \/ ArgoIdentity(r) \/ CreateBinding(r) \/ Store(r)
    <2>1. run' \in [Runs -> Run] /\ Elsewhere
        BY <1>5, WritingMoves DEF Moves
    <2>2. /\ down' \in [Ids -> Identities] /\ credential' \in [Names -> Ids \cup {"none"}]
          /\ disturbed' \subseteq Runs /\ events' = events /\ faults' \in 0..MaxFaults
        BY <1>5, WritingDown
    <2>3. QED
        BY <2>1, <2>2 DEF TypeOK, Elsewhere, daemon
<1>6. CASE Connect(r) \/ Commit(r)
    <2> DEFINE n == run[r].cmd.name
    <2>1. run' \in [Runs -> Run] /\ UNCHANGED <<registration, daemon, unseen, twins>>
        BY <1>6, ConnectMoves DEF Moves
    <2>2. connection' \in [Names -> Connection \cup {Absent}]
        <3>1. connection' = connection
              \/ \E new \in Connection : connection' = [connection EXCEPT ![n] = new]
            BY <1>6, ConnectMoves
        <3>2. QED
            BY <3>1 DEF TypeOK
    <2>3. UNCHANGED <<down, credential, events, faults>> /\ (disturbed' = disturbed \/ Disturbs(r))
        BY <1>6 DEF Connect, Commit
    <2>4. disturbed' \subseteq Runs
        BY <2>3, DisturbsType DEF TypeOK
    <2>5. QED
        BY <2>1, <2>2, <2>3, <2>4 DEF TypeOK, daemon
<1>7. CASE ApplyDownstream(r)
    <2>1. Moves(r, {run[r].pc}, {"applied"})
        BY <1>7, GoesMoves DEF ApplyDownstream, Phases, Over
    <2>2. UNCHANGED <<connection, registration, daemon, unseen, twins>>
        BY <1>7 DEF ApplyDownstream, local
    <2>3. /\ down' \in [Ids -> Identities] /\ credential' \in [Names -> Ids \cup {"none"}]
          /\ disturbed' \subseteq Runs /\ events' = events /\ faults' \in 0..MaxFaults
        BY <1>7, WritingDown
    <2>4. QED
        BY <2>1, <2>2, <2>3 DEF TypeOK, Moves, daemon
<1>8. QED
    BY <1>1, <1>2, <1>3, <1>4, <1>5, <1>6, <1>7 DEF BootstrapStep

LEMMA PeopleType ==
    ASSUME TypeOK, People
    PROVE  TypeOK'
<1> USE DEF Identities
<1>1. /\ UNCHANGED <<run, daemon, faults, credential>> /\ events' \in 0..MaxEvents
      /\ disturbed' \subseteq Runs /\ connection' \in [Names -> Connection \cup {Absent}]
      /\ registration' \in [Names -> {"absent", "ours", "foreign", "inherited"}]
      /\ unseen' \subseteq Names
    BY PeopleMove
<1>2. down' \in [Ids -> Identities]
    <2>1. down' = down \/ DeleteBinding
        BY DEF People, ForeignAppears, WrittenByHand, DeleteConnection
    <2>2. CASE DeleteBinding
        <3>1. PICK i \in Ids : down' = [down EXCEPT ![i].binding = "none"]
            BY <2>2 DEF DeleteBinding
        <3>2. QED
            BY <3>1, DownTypes
    <2>3. QED
        BY <2>1, <2>2 DEF TypeOK
<1>3. twins' \in BOOLEAN
    <2>1. twins \in BOOLEAN
        BY DEF TypeOK
    <2>2. ASSUME NEW n \in Names, WrittenByHand(n) PROVE twins' \in BOOLEAN
        <3>1. twins' = (twins \/ ClaimedElsewhere(n) \/ PendingElsewhere(n))
            BY <2>2, Zenon DEF WrittenByHand
        <3>2. QED
            BY <3>1, Zenon
    <2>3. (\E n \in Names : WrittenByHand(n)) \/ twins' = twins
        BY DEF People, ForeignAppears, DeleteConnection, DeleteBinding
    <2>4. QED
        BY <2>1, <2>2, <2>3
<1>4. QED
    BY <1>1, <1>2, <1>3 DEF TypeOK, daemon

LEMMA DaemonType ==
    ASSUME TypeOK, Poll \/ PassStep \/ PassFails \/ \E n \in Names : PassBegin(n)
    PROVE  TypeOK'
<1> USE DEF Identities
<1>1. CASE Poll
    BY <1>1 DEF Poll, local, history, TypeOK
<1>2. CASE PassRenew \/ PassIdentity \/ PassCreate \/ PassFails
    <2>1. /\ UNCHANGED <<connection, registration, run, known, history, events>>
          /\ pass' \in Pass /\ faults' \in 0..MaxFaults
        BY <1>2, PassMoves
    <2>2. pass.conn.ids \in Ids \cup {"none"} /\ pass.conn.role \in MaybeRole
        BY AnyType DEF TypeOK, Pass, Absent, MaybeRole
    <2>3. down' \in [Ids -> Identities] /\ credential' \in [Names -> Ids \cup {"none"}]
        <3>1. CASE PassRenew
            <4>1. down' = down
                BY <3>1 DEF PassRenew
            <4>2. \/ credential' = credential
                  \/ /\ down[pass.conn.ids].own
                     /\ credential' = [credential EXCEPT ![pass.name] = pass.conn.ids]
                BY <3>1 DEF PassRenew
            <4>3. QED
                BY <4>1, <4>2, <2>2 DEF TypeOK
        <3>2. CASE PassIdentity
            BY <3>2, DownTypes DEF PassIdentity, local, TypeOK
        <3>3. CASE PassCreate
            <4>1. credential' = credential
                  /\ (down' = down \/ BindTo(pass.conn.ids, pass.conn.role))
                BY <3>3 DEF PassCreate, local
            <4>2. QED
                BY <4>1, <2>2, DownTypes DEF TypeOK
        <3>4. CASE PassFails
            BY <3>4 DEF PassFails, local, TypeOK
        <3>5. QED
            BY <1>2, <3>1, <3>2, <3>3, <3>4
    <2>4. QED
        BY <2>1, <2>3 DEF TypeOK, history
<1>3. CASE PassPublish
    <2>1. /\ UNCHANGED <<down, credential, connection, run, known, history, events, faults>>
          /\ pass' = NoPass
          /\ registration' \in [Names -> {"absent", "ours", "foreign", "inherited"}]
        BY <1>3, PublishMoves
    <2>2. QED
        BY <2>1, AnyType DEF TypeOK, history
<1>4. ASSUME NEW n \in Names, PassBegin(n) PROVE TypeOK'
    BY <1>4, BeginMoves DEF TypeOK, history
<1>5. QED
    BY <1>1, <1>2, <1>3, <1>4 DEF PassStep

LEMMA NextType == TypeOK /\ [Next]_vars => TypeOK'
<1>1. TypeOK /\ UNCHANGED vars => TypeOK'
    BY DEF TypeOK, vars, local, daemon, history
<1>2. QED
    BY <1>1, StepType, PeopleType, DaemonType DEF Next

\* The commands, what they left in both clusters, and the daemon keep their types.
THEOREM BootstrapTypeCorrect == Spec => []TypeOK
BY InitType, NextType, PTL DEF Spec

-----------------------------------------------------------------------------
(* The steps, by what they mean to a name.                                 *)

\* Phases in which a command has changed nothing.
Early == {"idle", "refused", "previewed", "handed over"} \cup Checking
\* And those in which it has a claim on its name: past its checks.
Past == Writing \cup {"printed"}

\* A command goes on, and claims nothing that it did not claim.
Quiet(r) ==
    /\ run \in [Runs -> Run] /\ run' \in [Runs -> Run] /\ run'[r].cmd = run[r].cmd
    /\ \A q \in Runs \ {r} : run'[q] = run[q]
    /\ Keeps(r) /\ Elsewhere
    /\ run'[r].pc \in Past => run[r].pc \in Past
    /\ run'[r].pc \in Early => run[r].pc \in Early /\ Clean(r)
    /\ run'[r].pc # "duplicate"

LEMMA QuietSteps ==
    ASSUME TypeOK, NEW r \in Runs,
           \/ Fails(r) \/ ReadRole(r) \/ Unbind(r) \/ Rebind(r) \/ Recreate(r) \/ OwnIdentity(r)
           \/ ArgoIdentity(r) \/ CreateBinding(r) \/ Store(r) \/ ApplyDownstream(r)
    PROVE  Quiet(r)
<1>1. CASE Fails(r) \/ ReadRole(r)
    <2>1. /\ Moves(r, Working, {"failed", "refused", "target"}) /\ Keeps(r) /\ Clean(r) /\ Elsewhere
          /\ run'[r].pc # "failed" => run[r].pc = "role"
        BY <1>1, CheckingMoves
    <2>2. QED
        BY <2>1 DEF Quiet, Moves, Early, Past, Checking, Writing
<1>2. CASE \/ Unbind(r) \/ Rebind(r) \/ Recreate(r) \/ OwnIdentity(r)
           \/ ArgoIdentity(r) \/ CreateBinding(r) \/ Store(r)
    <2>1. Moves(r, Writing, Writing \cup {"failed", "printed"}) /\ Keeps(r) /\ Elsewhere
        BY <1>2, WritingMoves
    <2>2. QED
        BY <2>1 DEF Quiet, Moves, Early, Past, Checking, Writing
<1>3. CASE ApplyDownstream(r)
    <2>1. Moves(r, {run[r].pc}, {"applied"}) /\ Keeps(r)
        BY <1>3, GoesMoves DEF ApplyDownstream, Phases, Over
    <2>2. Elsewhere
        BY <1>3 DEF ApplyDownstream, Elsewhere, local
    <2>3. QED
        BY <2>1, <2>2 DEF Quiet, Moves, Early, Past, Checking, Writing
<1>4. QED
    BY <1>1, <1>2, <1>3

\* The daemon goes on with a pass, or nothing happens.
Passing == UNCHANGED <<connection, registration, run, known, unseen, twins>> /\ PassKeeps

LEMMA Steps ==
    ASSUME TypeOK, [Next]_vars
    PROVE  \/ \E r \in Runs : \/ Start(r) \/ Quiet(r) \/ InspectTarget(r) \/ RefuseDuplicate(r)
                              \/ Connect(r) \/ Commit(r)
           \/ People \/ Poll \/ Passing \/ PassPublish \/ \E n \in Names : PassBegin(n)
<1>1. CASE UNCHANGED vars
    BY <1>1 DEF vars, local, daemon, history, Passing, PassKeeps
<1>2. CASE PassRenew \/ PassIdentity \/ PassCreate \/ PassFails
    BY <1>2, PassMoves DEF Passing, history
<1>3. CASE \E r \in Runs : Start(r) \/ Fails(r) \/ BootstrapStep(r) \/ ApplyDownstream(r) \/ Commit(r)
    BY <1>3, QuietSteps DEF BootstrapStep
<1>4. QED
    BY <1>1, <1>2, <1>3 DEF Next, PassStep

-----------------------------------------------------------------------------
(* A command that refuses has changed nothing.                             *)

Untouched == \A r \in Runs : run[r].pc \in Early => ~run[r].wrote

LEMMA UntouchedStays ==
    ASSUME TypeOK, [Next]_vars, Untouched
    PROVE  Untouched'
<1>1. SUFFICES ASSUME NEW q \in Runs, run'[q].pc \in Early PROVE ~run'[q].wrote
    BY DEF Untouched
<1>2. run[q].pc \in Early => ~run[q].wrote
    BY DEF Untouched
<1>3. CASE \E r \in Runs : Start(r)
    BY <1>2, <1>1, <1>3, StartMoves
<1>4. CASE \E r \in Runs : Quiet(r)
    BY <1>2, <1>1, <1>4 DEF Quiet, Clean
<1>5. CASE \E r \in Runs : InspectTarget(r)
    BY <1>2, <1>1, <1>5, TargetMoves DEF Moves, Clean, Early, Checking
<1>6. CASE \E r \in Runs : RefuseDuplicate(r)
    BY <1>2, <1>1, <1>6, DuplicateMoves DEF Moves, Clean, Early, Checking
<1>7. CASE \E r \in Runs : Connect(r) \/ Commit(r)
    <2>1. PICK r \in Runs : Connect(r) \/ Commit(r)
        BY <1>7
    <2>2. /\ \A p \in Runs \ {r} : run'[p] = run[p]
          /\ run'[r].pc \in {"failed", "done", "committed"}
        BY <2>1, ConnectMoves DEF Moves
    <2>3. QED
        BY <1>2, <1>1, <2>2 DEF Early, Checking
<1>8. CASE \/ People \/ Poll \/ Passing \/ PassPublish \/ \E n \in Names : PassBegin(n)
    <2>1. run' = run
        BY <1>8, PeopleMove, PublishMoves, BeginMoves DEF Poll, Passing
    <2>2. QED
        BY <1>2, <1>1, <2>1
<1>9. QED
    BY <1>3, <1>4, <1>5, <1>6, <1>7, <1>8, Steps

\* Whatever refuses, previews or only prints for another administrator has not
\* written anything in either cluster.
THEOREM RefusalsChangeNothing == Spec => []RefusedUntouched
<1>1. Init => Untouched
    BY DEF Init, Untouched, NoRun
<1>2. TypeOK /\ Untouched /\ [Next]_vars => Untouched'
    BY UntouchedStays
<1>3. Untouched => RefusedUntouched
    BY DEF Untouched, RefusedUntouched, Early
<1>4. QED
    BY <1>1, <1>2, <1>3, BootstrapTypeCorrect, PTL DEF Spec

-----------------------------------------------------------------------------
(* Adoptions.                                                              *)

\* There is a Secret of somebody else's, or nobody could know.
Real(n) == registration[n] \in {"foreign", "inherited"} \/ n \in unseen

LEMMA RealStays ==
    ASSUME TypeOK, [Next]_vars, NEW n \in Names, Real(n)
    PROVE  Real(n)'
<1>1. CASE registration' = registration /\ unseen \subseteq unseen'
    BY <1>1 DEF Real
<1>2. CASE People
    <2>1. /\ unseen \subseteq unseen'
          /\ (\E k \in Names : ForeignAppears(k)) \/ registration' = registration
        BY <1>2, PeopleMove DEF WrittenByHand
    <2>2. ASSUME NEW k \in Names, ForeignAppears(k) PROVE registration'[n] \in {registration[n], "foreign"}
        BY <2>2 DEF ForeignAppears, TypeOK
    <2>3. QED
        BY <2>1, <2>2 DEF Real
<1>3. CASE PassPublish
    BY <1>3, PublishMoves DEF Real, history
<1>4. CASE \E r \in Runs : \/ Start(r) \/ Quiet(r) \/ InspectTarget(r) \/ RefuseDuplicate(r)
                           \/ Connect(r) \/ Commit(r)
    BY <1>1, <1>4, StartMoves, TargetMoves, DuplicateMoves, ConnectMoves DEF Quiet, Elsewhere
<1>5. CASE Poll \/ Passing \/ \E k \in Names : PassBegin(k)
    BY <1>1, <1>5, BeginMoves DEF Poll, Passing, local, history
<1>6. QED
    BY <1>2, <1>3, <1>4, <1>5, Steps

RealNext(n) == registration'[n] \in {"foreign", "inherited"} \/ n \in unseen'

\* What is recorded of an adoption, in a command and in a connection, is true.
Recorded == /\ \A n \in Names : connection[n].adopted => Real(n)
            /\ \A r \in Runs : run[r].adopted => Real(run[r].cmd.name)

LEMMA RecordedStays ==
    ASSUME TypeOK, [Next]_vars, Recorded
    PROVE  Recorded'
<1> DEFINE Records(r) == run'[r].adopted => RealNext(run'[r].cmd.name)
           Connects(n) == connection'[n].adopted => RealNext(n)
<1>1. SUFFICES (\A n \in Names : Connects(n)) /\ (\A r \in Runs : Records(r))
    BY DEF Recorded, Real, RealNext
<1>2. \A n \in Names : Real(n) => RealNext(n)
    BY RealStays DEF Real, RealNext
<1>3. \A n \in Names : connection[n].adopted => RealNext(n)
    BY <1>2 DEF Recorded
<1>4. \A r \in Runs : run[r].cmd.name \in Names
    BY GivenType
<1>5. \A r \in Runs : run[r].adopted => RealNext(run[r].cmd.name)
    BY <1>2, <1>4 DEF Recorded
<1>6. CASE \E r \in Runs : Start(r)
    <2>1. PICK r \in Runs : Start(r)
        BY <1>6
    <2>2. /\ \A q \in Runs \ {r} : run'[q] = run[q]
          /\ run'[r].adopted = FALSE /\ connection' = connection
        BY <2>1, StartMoves DEF Elsewhere
    <2>3. QED
        BY <1>3, <1>5, <2>2
<1>7. CASE \E r \in Runs : Quiet(r) \/ RefuseDuplicate(r)
    <2>1. PICK r \in Runs : Quiet(r) \/ RefuseDuplicate(r)
        BY <1>7
    <2>2. /\ \A q \in Runs \ {r} : run'[q] = run[q]
          /\ run'[r].adopted = run[r].adopted /\ run'[r].cmd = run[r].cmd
          /\ connection' = connection
        BY <2>1, DuplicateMoves DEF Quiet, Elsewhere, Keeps, Moves
    <2>3. QED
        BY <1>3, <1>5, <2>2
<1>8. CASE \E r \in Runs : InspectTarget(r)
    <2>1. PICK r \in Runs : InspectTarget(r)
        BY <1>8
    <2> DEFINE n == run[r].cmd.name
    <2>2. /\ \A q \in Runs \ {r} : run'[q] = run[q]
          /\ run'[r].cmd = run[r].cmd /\ UNCHANGED <<connection, registration>>
          /\ run'[r].adopted => registration[n] = "foreign" \/ n \in unseen'
        BY <2>1, TargetMoves DEF Moves
    <2>3. run'[r].adopted => RealNext(n)
        BY <2>2 DEF RealNext
    <2>4. QED
        BY <1>3, <1>5, <2>2, <2>3
<1>9. CASE \E r \in Runs : Connect(r) \/ Commit(r)
    <2>1. PICK r \in Runs : Connect(r) \/ Commit(r)
        BY <1>9
    <2> DEFINE n == run[r].cmd.name
    <2>2. /\ \A q \in Runs \ {r} : run'[q] = run[q]
          /\ run'[r].cmd = run[r].cmd /\ run'[r].adopted = run[r].adopted
        BY <2>1, ConnectMoves DEF Moves, Keeps
    <2>3. \/ connection' = connection
          \/ \E new \in Connection :
                 /\ connection' = [connection EXCEPT ![n] = new]
                 /\ new.adopted => run[r].adopted \/ connection[n].adopted
        BY <2>1, ConnectMoves
    <2>4. \A k \in Names : Connects(k)
        BY <1>3, <1>4, <1>5, <2>3 DEF TypeOK
    <2>5. QED
        BY <1>5, <2>2, <2>4
<1>10. CASE People
    <2>1. run' = run
        BY <1>10, PeopleMove
    <2>2. ASSUME NEW k \in Names, WrittenByHand(k) PROVE \A n \in Names : Connects(n)
        <3>1. /\ ~[role |-> "cluster-admin", ids |-> "default", adopted |-> FALSE,
                   holder |-> "others"].adopted
              /\ connection' = [connection EXCEPT ![k] =
                     [role |-> "cluster-admin", ids |-> "default", adopted |-> FALSE, holder |-> "others"]]
            BY <2>2 DEF WrittenByHand
        <3>2. QED
            BY <1>3, <3>1 DEF TypeOK
    <2>3. ASSUME \A n \in Names : connection'[n] \in {connection[n], Absent}
          PROVE  \A n \in Names : Connects(n)
        BY <1>3, <2>3, AnyType
    <2>4. \A n \in Names : Connects(n)
        BY <1>3, <1>10, <2>2, <2>3, PeopleMove DEF ForeignAppears
    <2>5. QED
        BY <1>5, <2>1, <2>4
<1>11. CASE Poll \/ Passing \/ PassPublish \/ \E n \in Names : PassBegin(n)
    <2>1. run' = run /\ connection' = connection
        BY <1>11, PublishMoves, BeginMoves DEF Poll, Passing, local
    <2>2. QED
        BY <1>3, <1>5, <2>1
<1>12. QED
    BY <1>6, <1>7, <1>8, <1>9, <1>10, <1>11, Steps

\* A connection that says it adopted a registration has one to show for it.
THEOREM AdoptionsAreReal == Spec => []AdoptionIsTrue
<1>1. Init => Recorded
    BY AnyType DEF Init, Recorded, NoRun
<1>2. TypeOK /\ Recorded /\ [Next]_vars => Recorded'
    BY RecordedStays
<1>3. Recorded => AdoptionIsTrue
    BY DEF Recorded, AdoptionIsTrue, Real
<1>4. QED
    BY <1>1, <1>2, <1>3, BootstrapTypeCorrect, PTL DEF Spec

-----------------------------------------------------------------------------
(* Takeovers.                                                              *)

\* Everything that a pass over n could come of records the adoption.
Vouched(n) ==
    /\ connection[n] # Absent => connection[n].adopted
    /\ known[n] # Absent => known[n].adopted
    /\ pass.pc # "idle" /\ pass.name = n => pass.conn.adopted
    /\ \A r \in Runs : run[r].cmd.name = n /\ run[r].pc \in Past \cup {"duplicate"} => run[r].adopted
Foreign(n) == registration[n] = "foreign" /\ n \notin unseen
ForeignVouched == \A n \in Names : Foreign(n) => Vouched(n)

LEMMA VouchedStays ==
    ASSUME TypeOK, [Next]_vars, ForeignVouched
    PROVE  ForeignVouched'
<1>1. SUFFICES ASSUME NEW n \in Names, Foreign(n)' PROVE Vouched(n)'
    BY DEF ForeignVouched
<1> DEFINE Connects == connection'[n] # Absent => connection'[n].adopted
           Knows == known'[n] # Absent => known'[n].adopted
           Passes == pass'.pc # "idle" /\ pass'.name = n => pass'.conn.adopted
           Run_(r) == run'[r].cmd.name = n /\ run'[r].pc \in Past \cup {"duplicate"} => run'[r].adopted
<1>2. SUFFICES Connects /\ Knows /\ Passes /\ \A r \in Runs : Run_(r)
    BY DEF Vouched
<1>3. Foreign(n) \/ People
    <2>1. CASE registration' = registration /\ unseen \subseteq unseen'
        BY <1>1, <2>1 DEF Foreign
    <2>2. CASE PassPublish
        BY <1>1, <2>2, PublishMoves DEF Foreign, history
    <2>3. CASE \E r \in Runs : \/ Start(r) \/ Quiet(r) \/ InspectTarget(r) \/ RefuseDuplicate(r)
                               \/ Connect(r) \/ Commit(r)
        BY <2>1, <2>3, StartMoves, TargetMoves, DuplicateMoves, ConnectMoves DEF Quiet, Elsewhere
    <2>4. CASE Poll \/ Passing \/ \E k \in Names : PassBegin(k)
        BY <2>1, <2>4, BeginMoves DEF Poll, Passing, local, history
    <2>5. QED
        BY <2>2, <2>3, <2>4, Steps
<1>4. Foreign(n) => Vouched(n)
    BY DEF ForeignVouched
<1>5. CASE Foreign(n) /\ \E r \in Runs : Start(r)
    <2>1. PICK r \in Runs : Start(r)
        BY <1>5
    <2>2. /\ \A q \in Runs \ {r} : run'[q] = run[q]
          /\ run'[r].pc \in {"role", "target", "handed over"}
          /\ UNCHANGED <<connection, known, pass>>
        BY <2>1, StartMoves DEF Elsewhere, daemon
    <2>3. run'[r].pc \notin Past \cup {"duplicate"}
        BY <2>2 DEF Past, Writing
    <2>4. QED
        BY <1>4, <1>5, <2>2, <2>3 DEF Vouched
<1>6. CASE Foreign(n) /\ \E r \in Runs : Quiet(r)
    <2>1. PICK r \in Runs : Quiet(r)
        BY <1>6
    <2>2. /\ \A q \in Runs \ {r} : run'[q] = run[q]
          /\ run'[r].cmd = run[r].cmd /\ run'[r].adopted = run[r].adopted
          /\ run'[r].pc \in Past \cup {"duplicate"} => run[r].pc \in Past
          /\ UNCHANGED <<connection, known, pass>>
        BY <2>1 DEF Quiet, Keeps, Elsewhere, daemon
    <2>3. QED
        BY <1>4, <1>6, <2>2 DEF Vouched
<1>7. CASE Foreign(n) /\ \E r \in Runs : InspectTarget(r)
    <2>1. PICK r \in Runs : InspectTarget(r)
        BY <1>7
    <2>2. /\ \A q \in Runs \ {r} : run'[q] = run[q]
          /\ run'[r].cmd = run[r].cmd /\ run'[r].pc \in {"refused", "duplicate"}
          /\ UNCHANGED <<connection, known, pass>>
        BY <2>1, TargetMoves DEF Moves, daemon
    <2>3. run'[r].pc = "duplicate" /\ registration[run[r].cmd.name] = "foreign" =>
              run'[r].adopted \/ run[r].cmd.name \in unseen'
        BY <2>1, TargetMoves
    <2>4. Run_(r)
        BY <1>1, <1>7, <2>2, <2>3 DEF Foreign, Past, Writing
    <2>5. QED
        BY <1>4, <1>7, <2>2, <2>4 DEF Vouched
<1>8. CASE Foreign(n) /\ \E r \in Runs : RefuseDuplicate(r)
    <2>1. PICK r \in Runs : RefuseDuplicate(r)
        BY <1>8
    <2>2. /\ \A q \in Runs \ {r} : run'[q] = run[q]
          /\ run'[r].cmd = run[r].cmd /\ run'[r].adopted = run[r].adopted /\ run[r].pc = "duplicate"
          /\ UNCHANGED <<connection, known, pass>>
        BY <2>1, DuplicateMoves DEF Moves, Keeps, daemon
    <2>3. QED
        BY <1>4, <1>8, <2>2 DEF Vouched
<1>9. CASE Foreign(n) /\ \E r \in Runs : Connect(r) \/ Commit(r)
    <2>1. PICK r \in Runs : Connect(r) \/ Commit(r)
        BY <1>9
    <2> DEFINE k == run[r].cmd.name
    <2>2. /\ \A q \in Runs \ {r} : run'[q] = run[q]
          /\ run'[r].pc \in {"failed", "done", "committed"} /\ UNCHANGED <<known, pass>>
        BY <2>1, ConnectMoves DEF Moves, daemon
    <2>3. \A q \in Runs : Run_(q)
        BY <1>4, <1>9, <2>2 DEF Vouched, Past, Writing
    <2>4. \/ connection' = connection
          \/ /\ run[r].pc \in Past
             /\ \E new \in Connection : /\ connection' = [connection EXCEPT ![k] = new]
                                        /\ run[r].adopted => new.adopted
        BY <2>1, ConnectMoves DEF Moves, Past, Writing
    <2>5. Connects
        BY <1>4, <1>9, <2>4 DEF Vouched, TypeOK
    <2>6. QED
        BY <1>4, <1>9, <2>2, <2>3, <2>5 DEF Vouched
<1>10. CASE People
    <2>1. UNCHANGED <<run, known, pass>> /\ unseen \subseteq unseen'
        BY <1>10, PeopleMove DEF daemon
    <2>2. ASSUME NEW k \in Names, ForeignAppears(k) PROVE Vouched(n)'
        <3>1. connection' = connection /\ registration' = [registration EXCEPT ![k] = "foreign"]
              /\ unseen' = IF Unlooked(k) THEN unseen ELSE unseen \cup {k}
            BY <2>2 DEF ForeignAppears
        <3>2. CASE k # n
            <4>1. Foreign(n)
                BY <1>1, <2>1, <3>1, <3>2 DEF Foreign, TypeOK
            <4>2. QED
                BY <1>4, <2>1, <3>1, <4>1 DEF Vouched
        <3>3. CASE k = n
            <4>1. Unlooked(n)
                BY <1>1, <3>1, <3>3 DEF Foreign
            <4>2. QED
                BY <2>1, <3>1, <4>1 DEF Unlooked, Vouched, Past, Writing
        <3>4. QED
            BY <3>2, <3>3
    <2>3. ASSUME NEW k \in Names, WrittenByHand(k) PROVE Vouched(n)'
        <3>1. /\ registration' = registration /\ unseen' = unseen \cup {k}
              /\ \A m \in Names \ {k} : connection'[m] = connection[m]
            BY <2>3 DEF WrittenByHand, TypeOK
        <3>2. k # n /\ Foreign(n)
            BY <1>1, <3>1 DEF Foreign
        <3>3. QED
            BY <1>4, <2>1, <3>1, <3>2 DEF Vouched
    <2>4. ASSUME registration' = registration, \A m \in Names : connection'[m] \in {connection[m], Absent}
          PROVE  Vouched(n)'
        <3>1. Foreign(n)
            BY <1>1, <2>1, <2>4 DEF Foreign
        <3>2. QED
            BY <1>4, <2>1, <2>4, <3>1 DEF Vouched
    <2>5. Vouched(n)'
        BY <1>10, <2>2, <2>3, <2>4, PeopleMove
    <2>6. QED
        BY <2>5 DEF Vouched
<1>11. CASE Foreign(n) /\ Poll
    <2>1. UNCHANGED <<run, connection, pass>> /\ known' = connection
        BY <1>11 DEF Poll, local
    <2>2. QED
        BY <1>4, <1>11, <2>1 DEF Vouched
<1>12. CASE Foreign(n) /\ Passing
    <2>1. UNCHANGED <<run, connection, known>> /\ PassKeeps
        BY <1>12 DEF Passing
    <2>2. QED
        BY <1>4, <1>12, <2>1 DEF Vouched, PassKeeps
<1>13. CASE Foreign(n) /\ PassPublish
    <2>1. UNCHANGED <<run, connection, known>> /\ pass'.pc = "idle"
        BY <1>13, PublishMoves DEF NoPass
    <2>2. QED
        BY <1>4, <1>13, <2>1 DEF Vouched
<1>14. CASE Foreign(n) /\ \E k \in Names : PassBegin(k)
    <2>1. PICK k \in Names : PassBegin(k)
        BY <1>14
    <2>2. /\ UNCHANGED <<run, connection, known>> /\ pass'.name = k
          /\ pass'.conn = known[k] /\ known[k] # Absent
        BY <2>1, BeginMoves
    <2>3. QED
        BY <1>4, <1>14, <2>2 DEF Vouched
<1>15. QED
    BY <1>3, <1>5, <1>6, <1>7, <1>8, <1>9, <1>10, <1>11, <1>12, <1>13, <1>14, Steps

\* The daemon takes over what somebody else made only where the connection says
\* so, or where nobody could know.
THEOREM TakeoversAreKnown == Spec => NoSilentTakeover
<1> DEFINE Taken == \A n \in Names : registration[n] = "foreign" /\ registration'[n] = "inherited" =>
                        pass.conn.adopted \/ n \in unseen
<1>1. Init => ForeignVouched
    <2>1. Init => /\ \A n \in Names : connection[n] = Absent /\ known[n] = Absent
                  /\ pass.pc = "idle" /\ \A r \in Runs : run[r].pc = "idle"
        BY DEF Init, NoRun, NoPass
    <2>2. QED
        BY <2>1 DEF ForeignVouched, Vouched, Past, Writing
<1>2. TypeOK /\ ForeignVouched /\ [Next]_vars => ForeignVouched'
    BY VouchedStays
<1>3. TypeOK /\ ForeignVouched /\ [Next]_vars => [Taken]_vars
    <2>1. SUFFICES ASSUME TypeOK, ForeignVouched, [Next]_vars, NEW n \in Names,
                          registration[n] = "foreign", registration'[n] = "inherited"
                   PROVE  pass.conn.adopted \/ n \in unseen
        OBVIOUS
    <2>2. CASE PassPublish
        <3>1. pass.pc = "publish" /\ pass.name = n
            BY <2>1, <2>2, PublishMoves
        <3>2. QED
            BY <2>1, <3>1 DEF ForeignVouched, Foreign, Vouched
    <2>3. CASE People
        <3>1. (\E k \in Names : ForeignAppears(k)) \/ registration' = registration
            BY <2>1, <2>3, PeopleMove DEF WrittenByHand
        <3>2. QED
            BY <2>1, <3>1 DEF ForeignAppears, TypeOK
    <2>4. CASE \E r \in Runs : \/ Start(r) \/ Quiet(r) \/ InspectTarget(r) \/ RefuseDuplicate(r)
                               \/ Connect(r) \/ Commit(r)
        BY <2>1, <2>4, StartMoves, TargetMoves, DuplicateMoves, ConnectMoves DEF Quiet, Elsewhere
    <2>5. CASE Poll \/ Passing \/ \E k \in Names : PassBegin(k)
        BY <2>1, <2>5, BeginMoves DEF Poll, Passing, local
    <2>6. QED
        BY <2>1, <2>2, <2>3, <2>4, <2>5, Steps
<1>4. QED
    BY <1>1, <1>2, <1>3, BootstrapTypeCorrect, PTL DEF Spec, NoSilentTakeover

-----------------------------------------------------------------------------
(* Claims.                                                                 *)

\* A connection there is, or one that is going to be.
Claims(n) == Exists(n) \/ Pending(n)
ClaimsNext(n) == connection'[n] # Absent \/ \E r \in Runs : run'[r].cmd.name = n /\ run'[r].pc \in Past
OneClaim == \A n, m \in Names : n # m /\ Claims(n) /\ Claims(m) => twins

NoneAppears == \A n \in Names : ClaimsNext(n) => Claims(n)
\* One does: where nobody else has any, or it is noted that there are two.
OneAppears(k) ==
    /\ \A n \in Names \ {k} : ClaimsNext(n) => Claims(n)
    /\ Claims(k) \/ twins' \/ \A n \in Names \ {k} : ~Claims(n)

LEMMA ClaimsAppear ==
    ASSUME TypeOK, [Next]_vars
    PROVE  /\ twins => twins'
           /\ NoneAppears \/ \E k \in Names : OneAppears(k)
<1>1. /\ \A r \in Runs : run[r].cmd.name \in Names
      /\ \A n \in Names, r \in Runs : run[r].cmd.name = n /\ run[r].pc \in Past => Claims(n)
      /\ \A n \in Names : connection[n] # Absent => Claims(n)
    BY GivenType DEF Claims, Exists, Pending, Past
<1>2. CASE \E r \in Runs : Start(r)
    <2>1. PICK r \in Runs : Start(r)
        BY <1>2
    <2>2. /\ \A q \in Runs \ {r} : run'[q] = run[q]
          /\ run'[r].pc \in {"role", "target", "handed over"} /\ UNCHANGED <<connection, twins>>
        BY <2>1, StartMoves DEF Elsewhere
    <2>3. run'[r].pc \notin Past
        BY <2>2 DEF Past, Writing
    <2>4. QED
        BY <1>1, <2>2, <2>3 DEF NoneAppears, ClaimsNext
<1>3. CASE \E r \in Runs : Quiet(r)
    BY <1>1, <1>3 DEF Quiet, Elsewhere, NoneAppears, ClaimsNext
<1>4. CASE \E r \in Runs : InspectTarget(r)
    <2>1. PICK r \in Runs : InspectTarget(r)
        BY <1>4
    <2>2. /\ \A q \in Runs \ {r} : run'[q] = run[q]
          /\ run'[r].pc \in {"refused", "duplicate"} /\ UNCHANGED <<connection, twins>>
        BY <2>1, TargetMoves DEF Moves
    <2>3. run'[r].pc \notin Past
        BY <2>2 DEF Past, Writing
    <2>4. QED
        BY <1>1, <2>2, <2>3 DEF NoneAppears, ClaimsNext
<1>5. CASE \E r \in Runs : RefuseDuplicate(r)
    <2>1. PICK r \in Runs : RefuseDuplicate(r)
        BY <1>5
    <2> DEFINE k == run[r].cmd.name
    <2>2. /\ \A q \in Runs \ {r} : run'[q] = run[q]
          /\ run'[r].cmd = run[r].cmd /\ connection' = connection /\ (twins => twins')
          /\ run'[r].pc \in {"refused", "previewed"} \cup Writing
          /\ run'[r].pc \in Writing => twins' \/ ~(ClaimedElsewhere(k) \/ PendingElsewhere(k))
        BY <2>1, DuplicateMoves DEF Moves
    <2>3. \A n \in Names \ {k} : ClaimsNext(n) => Claims(n)
        BY <1>1, <2>2 DEF ClaimsNext
    <2>4. CASE run'[r].pc \in Writing
        <3>1. ~(ClaimedElsewhere(k) \/ PendingElsewhere(k)) => \A n \in Names \ {k} : ~Claims(n)
            BY DEF ClaimedElsewhere, PendingElsewhere, Claims
        <3>2. OneAppears(k)
            BY <2>2, <2>3, <2>4, <3>1 DEF OneAppears
        <3>3. QED
            BY <1>1, <2>2, <3>2
    <2>5. CASE run'[r].pc \notin Writing
        <3>1. run'[r].pc \notin Past
            BY <2>2, <2>5 DEF Past
        <3>2. NoneAppears
            BY <1>1, <2>2, <3>1 DEF NoneAppears, ClaimsNext
        <3>3. QED
            BY <2>2, <3>2
    <2>6. QED
        BY <2>4, <2>5
<1>6. CASE \E r \in Runs : Connect(r) \/ Commit(r)
    <2>1. PICK r \in Runs : Connect(r) \/ Commit(r)
        BY <1>6
    <2> DEFINE k == run[r].cmd.name
    <2>2. /\ \A q \in Runs \ {r} : run'[q] = run[q]
          /\ run'[r].pc \in {"failed", "done", "committed"} /\ twins' = twins
        BY <2>1, ConnectMoves DEF Moves
    <2>3. run'[r].pc \notin Past
        BY <2>2 DEF Past, Writing
    <2>4. \/ connection' = connection
          \/ /\ run[r].pc \in Past
             /\ \E new \in Connection : connection' = [connection EXCEPT ![k] = new]
        BY <2>1, ConnectMoves DEF Moves, Past, Writing
    <2>5. \A n \in Names : connection'[n] # Absent => Claims(n)
        BY <1>1, <2>4 DEF TypeOK
    <2>6. NoneAppears
        BY <1>1, <2>2, <2>3, <2>5 DEF NoneAppears, ClaimsNext
    <2>7. QED
        BY <2>2, <2>6
<1>7. CASE People
    <2>1. run' = run
        BY <1>7, PeopleMove
    <2>2. ASSUME NEW k \in Names, WrittenByHand(k)
          PROVE  (twins => twins') /\ OneAppears(k)
        <3>1. /\ \A n \in Names \ {k} : connection'[n] = connection[n]
              /\ twins' = (twins \/ ClaimedElsewhere(k) \/ PendingElsewhere(k))
            BY <2>2 DEF WrittenByHand, TypeOK
        <3>2. (twins => twins') /\ (twins' \/ ~(ClaimedElsewhere(k) \/ PendingElsewhere(k)))
            BY <3>1, Zenon
        <3>3. ~(ClaimedElsewhere(k) \/ PendingElsewhere(k)) => \A n \in Names \ {k} : ~Claims(n)
            BY DEF ClaimedElsewhere, PendingElsewhere, Claims
        <3>4. \A n \in Names \ {k} : ClaimsNext(n) => Claims(n)
            BY <1>1, <2>1, <3>1 DEF ClaimsNext
        <3>5. QED
            BY <3>2, <3>3, <3>4 DEF OneAppears
    <2>3. ASSUME twins' = twins, \A n \in Names : connection'[n] \in {connection[n], Absent}
          PROVE  (twins => twins') /\ NoneAppears
        BY <1>1, <2>1, <2>3 DEF NoneAppears, ClaimsNext
    <2>4. (\E n \in Names : ForeignAppears(n)) => twins' = twins /\ connection' = connection
        BY DEF ForeignAppears
    <2>5. QED
        BY <1>7, <2>2, <2>3, <2>4, PeopleMove
<1>8. CASE Poll \/ Passing \/ PassPublish \/ \E n \in Names : PassBegin(n)
    <2>1. UNCHANGED <<run, connection, twins>>
        BY <1>8, PublishMoves, BeginMoves DEF Poll, Passing, local, history
    <2>2. QED
        BY <1>1, <2>1 DEF NoneAppears, ClaimsNext
<1>9. QED
    BY <1>2, <1>3, <1>4, <1>5, <1>6, <1>7, <1>8, Steps

\* One cluster takes one connection, unless two claims were made at a time, or
\* past a check that could not run.
THEOREM ClustersTakeOneConnection == Spec => []OneConnection
<1>1. Init => OneClaim
    <2>1. Init => \A n \in Names : ~Claims(n)
        <3>1. Init => (\A n \in Names : connection[n] = Absent) /\ \A r \in Runs : run[r].pc = "idle"
            BY DEF Init, NoRun
        <3>2. QED
            BY <3>1 DEF Claims, Exists, Pending, Writing
    <2>2. QED
        BY <2>1 DEF OneClaim
<1>2. TypeOK /\ OneClaim /\ [Next]_vars => OneClaim'
    <2>1. SUFFICES ASSUME TypeOK, OneClaim, [Next]_vars, NEW n \in Names, NEW m \in Names,
                          n # m, ClaimsNext(n), ClaimsNext(m)
                   PROVE  twins'
        BY DEF OneClaim, Claims, ClaimsNext, Exists, Pending, Past
    <2>2. Claims(n) /\ Claims(m) => twins
        BY <2>1 DEF OneClaim
    <2>3. QED
        BY <2>1, <2>2, ClaimsAppear DEF NoneAppears, OneAppears
<1>3. OneClaim => OneConnection
    BY DEF OneClaim, OneConnection, Claims
<1>4. QED
    BY <1>1, <1>2, <1>3, BootstrapTypeCorrect, PTL DEF Spec

-----------------------------------------------------------------------------
(* A command that is done has left what its flags asked for.               *)

\* What is written in the cluster running ArgoCD names the default accounts.
ByDefault(c) == c = Absent \/ c.ids = "default"
AsDeclared ==
    /\ \A n \in Names : ByDefault(connection[n]) /\ ByDefault(known[n])
    /\ pass.pc # "idle" => pass.conn.ids = "default"

\* The other accounts may bind no role but the one that is asked for.
SameRole ==
    \A c \in Invocations : c.ids = "default" => down["given"].mayBind \in {"none", c.role}

\* What is there, phase by phase, for a command that nobody has disturbed.
Completing(r) == run[r].cmd.mode = "complete" /\ run[r].pc \in {"target", "duplicate"}
Served(r) ==
    LET d == down["default"]
        n == run[r].cmd.name
        role == run[r].cmd.role
        pc == run[r].pc IN
    /\ pc = "role" => run[r].cmd.mode # "complete"
    /\ pc \in {"identity", "create"} => d.own = TRUE /\ d.ownBinding = TRUE /\ d.mayBind = role
    /\ pc = "create" => d.account = TRUE /\ d.binding \in {"none", role}
    /\ Completing(r) \/ pc \in {"store", "connect", "done"} => d = Provisioned(role)
    /\ pc \in {"connect", "done"} => credential[n] = "default"
    /\ pc = "done" => /\ connection[n] # Absent
                      /\ connection[n].holder = "bootstrap" => connection[n].role = role
Plainly(r) == r \notin disturbed /\ run[r].cmd.ids = "default"
AllServed == \A r \in Runs : Plainly(r) => Served(r)

ServedInv == AsDeclared /\ SameRole /\ AllServed

\* One field of an identity is changed, and the rest stays.
LEMMA AmendedIdentity ==
    ASSUME NEW x \in Identities, NEW binding \in MaybeRole
    PROVE  LET y == [x EXCEPT !.binding = binding]
               z == [x EXCEPT !.account = TRUE] IN
           /\ y \in Identities /\ y.account = x.account /\ y.binding = binding
           /\ y.own = x.own /\ y.ownBinding = x.ownBinding /\ y.mayBind = x.mayBind
           /\ z \in Identities /\ z.account = TRUE /\ z.binding = x.binding
           /\ z.own = x.own /\ z.ownBinding = x.ownBinding /\ z.mayBind = x.mayBind
BY DEF Identities

\* An identity is provisioned for a role if each of its parts is.
LEMMA ProvisionedIdentity ==
    ASSUME NEW x \in Identities, NEW role \in MaybeRole
    PROVE  /\ x = Provisioned(role) => /\ x.account = TRUE /\ x.binding = role /\ x.own = TRUE
                                       /\ x.ownBinding = TRUE /\ x.mayBind = role
           /\ /\ x.account = TRUE /\ x.binding = role /\ x.own = TRUE
              /\ x.ownBinding = TRUE /\ x.mayBind = role
              => x = Provisioned(role)
<1> DEFINE y == Provisioned(role)
<1>1. /\ y \in Identities /\ y.account = TRUE /\ y.binding = role /\ y.own = TRUE
      /\ y.ownBinding = TRUE /\ y.mayBind = role
    BY DEF Identities, Provisioned
<1> HIDE DEF y
<1>2. ASSUME x.account = y.account, x.binding = y.binding, x.own = y.own,
             x.ownBinding = y.ownBinding, x.mayBind = y.mayBind
      PROVE  x = y
    BY <1>1, <1>2 DEF Identities
<1>3. QED
    BY <1>1, <1>2 DEF y

LEMMA DeclaredStays ==
    ASSUME TypeOK, [Next]_vars, AsDeclared
    PROVE  AsDeclared'
<1>1. ASSUME connection' = connection, known' = known, PassKeeps
      PROVE  AsDeclared'
    BY <1>1 DEF AsDeclared, PassKeeps
<1>2. ASSUME NEW r \in Runs, Connect(r) \/ Commit(r)
      PROVE  AsDeclared'
    <2> DEFINE n == run[r].cmd.name
    <2>1. n \in Names /\ connection \in [Names -> Connection \cup {Absent}]
        BY GivenType DEF TypeOK
    <2>2. daemon' = daemon
        BY <1>2, ConnectMoves
    <2>3. \/ connection' = connection
          \/ \E c : connection' = [connection EXCEPT ![n] = c] /\ c.ids = "default"
        <3>1. CASE Connect(r) /\ ~Conflicts(r)
            <4> DEFINE fresh == ConnectionFor(r, "bootstrap")
                       new == Merged(connection[n], fresh)
            <4>1. connection' = [connection EXCEPT ![n] = new]
                BY <2>1, <3>1 DEF Connect
            <4>2. CASE connection[n].holder # "others"
                <5>1. new = fresh /\ fresh.ids = "default"
                    BY <4>2 DEF Merged, ConnectionFor
                <5>2. QED
                    BY <4>1, <5>1
            <4>3. CASE connection[n].holder = "others"
                <5>1. connection[n].ids = "default"
                    BY <2>1, <4>3 DEF AsDeclared, ByDefault, Absent
                <5>2. new = [fresh EXCEPT !.role = IF @ = "cluster-admin" THEN connection[n].role ELSE @,
                                          !.ids = connection[n].ids, !.adopted = @ \/ connection[n].adopted,
                                          !.holder = "others"]
                    BY <4>3 DEF Merged
                <5>3. new.ids = connection[n].ids
                    BY <5>2 DEF ConnectionFor
                <5>4. QED
                    BY <4>1, <5>1, <5>3
            <4>4. QED
                BY <4>2, <4>3
        <3>2. CASE Connect(r) /\ Conflicts(r)
            BY <3>2 DEF Connect
        <3>3. CASE Commit(r)
            <4> DEFINE new == [ConnectionFor(r, "others") EXCEPT !.adopted = @ \/ connection[n].adopted]
            <4>1. connection' = [connection EXCEPT ![n] = new]
                BY <3>3 DEF Commit
            <4>2. new.ids = "default"
                BY DEF ConnectionFor
            <4>3. QED
                BY <4>1, <4>2
        <3>4. QED
            BY <1>2, <3>1, <3>2, <3>3
    <2>4. \A k \in Names : ByDefault(connection'[k])
        BY <2>1, <2>3 DEF AsDeclared, ByDefault
    <2>5. QED
        BY <2>2, <2>4 DEF AsDeclared, daemon, ByDefault
<1>3. CASE People
    <2>1. \A k \in Names : ByDefault(connection'[k])
        <3>1. CASE \E n \in Names : ForeignAppears(n)
            BY <3>1 DEF ForeignAppears, AsDeclared
        <3>2. CASE \E n \in Names : WrittenByHand(n)
            BY <3>2 DEF WrittenByHand, AsDeclared, TypeOK, ByDefault
        <3>3. CASE \A n \in Names : connection'[n] \in {connection[n], Absent}
            BY <3>3 DEF AsDeclared, ByDefault
        <3>4. QED
            BY <1>3, <3>1, <3>2, <3>3, PeopleMove
    <2>2. daemon' = daemon
        BY <1>3, PeopleMove
    <2>3. QED
        BY <2>1, <2>2 DEF AsDeclared, daemon, ByDefault
<1>4. CASE \E r \in Runs : Start(r) \/ Quiet(r) \/ InspectTarget(r) \/ RefuseDuplicate(r)
    BY <1>1, <1>4, StartMoves, TargetMoves, DuplicateMoves DEF Quiet, Elsewhere, daemon, PassKeeps
<1>5. CASE Poll
    BY <1>5 DEF Poll, local, AsDeclared, ByDefault
<1>6. CASE Passing
    BY <1>1, <1>6 DEF Passing
<1>7. CASE PassPublish
    BY <1>1, <1>7, PublishMoves DEF PassKeeps, NoPass
<1>8. ASSUME NEW n \in Names, PassBegin(n) PROVE AsDeclared'
    BY <1>8, BeginMoves DEF AsDeclared, ByDefault
<1>9. QED
    BY <1>2, <1>3, <1>4, <1>5, <1>6, <1>7, <1>8, Steps

\* What one command does downstream it does under the names it was given.
LEMMA DownMoves ==
    ASSUME TypeOK, NEW r \in Runs,
           Fails(r) \/ BootstrapStep(r) \/ ApplyDownstream(r) \/ Commit(r)
    PROVE  LET i == run[r].cmd.ids IN
           /\ \A j \in Ids \ {i} : down'[j] = down[j]
           /\ down'[i].mayBind \in {down[i].mayBind, run[r].cmd.role}
<1> DEFINE i == run[r].cmd.ids
           role == run[r].cmd.role
<1>1. i \in Ids /\ down \in [Ids -> Identities] /\ down[i] \in Identities
    BY GivenType DEF TypeOK, Identities
<1> HIDE DEF i
<1>2. CASE \E identity : /\ down' = [down EXCEPT ![i] = identity]
                         /\ identity.mayBind \in {down[i].mayBind, role}
    BY <1>1, <1>2 DEF i
<1>3. CASE down' = down
    BY <1>1, <1>3 DEF i
<1>4. CASE Unbind(r)
    <2>1. down' = [down EXCEPT ![i] = [down[i] EXCEPT !.binding = "none"]]
        BY <1>1, <1>4 DEF Unbind, i
    <2>2. [down[i] EXCEPT !.binding = "none"].mayBind = down[i].mayBind
        BY <1>1 DEF Identities
    <2>3. QED
        BY <1>2, <2>1, <2>2
<1>5. CASE Recreate(r) \/ CreateBinding(r)
    <2> DEFINE binding == IF down[i].binding = "none" THEN role ELSE down[i].binding
    <2>1. down' = [down EXCEPT ![i] = [down[i] EXCEPT !.binding = binding]]
        BY <1>1, <1>5 DEF Recreate, CreateBinding, Create, BindTo, i
    <2>2. [down[i] EXCEPT !.binding = binding].mayBind = down[i].mayBind
        BY <1>1 DEF Identities
    <2>3. QED
        BY <1>2, <2>1, <2>2
<1>6. CASE OwnIdentity(r)
    <2> DEFINE before == down[i]
               after == Owned(before, role)
    <2>1. \/ down' = [down EXCEPT ![i] = after]
          \/ down' = [down EXCEPT ![i] = [before EXCEPT !.own = TRUE]]
          \/ down' = [down EXCEPT ![i] = [after EXCEPT !.ownBinding = before.ownBinding]]
        BY <1>6 DEF OwnIdentity, Identity, i
    <2>2. /\ after.mayBind = role /\ [before EXCEPT !.own = TRUE].mayBind = before.mayBind
          /\ [after EXCEPT !.ownBinding = before.ownBinding].mayBind = role
        BY <1>1 DEF Owned, Identities
    <2>3. QED
        BY <1>2, <2>1, <2>2
<1>7. CASE ArgoIdentity(r)
    <2>1. down' = [down EXCEPT ![i] = [down[i] EXCEPT !.account = TRUE]]
        BY <1>1, <1>7 DEF ArgoIdentity, i
    <2>2. [down[i] EXCEPT !.account = TRUE].mayBind = down[i].mayBind
        BY <1>1 DEF Identities
    <2>3. QED
        BY <1>2, <2>1, <2>2
<1>8. CASE ApplyDownstream(r)
    <2> DEFINE binding == IF down[i].binding = "none" THEN role ELSE down[i].binding
               new == [Provisioned(role) EXCEPT !.binding = binding]
    <2>1. down' = [down EXCEPT ![i] = new]
        <3>1. Provisioned(role).binding = role
            BY DEF Provisioned
        <3>2. QED
            BY <1>8, <3>1 DEF ApplyDownstream, Identity, i, Provisioned
    <2>2. new.mayBind = role
        BY DEF Provisioned
    <2> HIDE DEF new
    <2>3. QED
        BY <1>2, <2>1, <2>2
<1>9. CASE \/ Fails(r) \/ ReadRole(r) \/ InspectTarget(r) \/ RefuseDuplicate(r) \/ Rebind(r)
           \/ Store(r) \/ Connect(r) \/ Commit(r)
    BY <1>3, <1>9 DEF Fails, ReadRole, InspectTarget, RefuseDuplicate, Rebind, Store, Connect, Commit
<1>10. QED
    BY <1>4, <1>5, <1>6, <1>7, <1>8, <1>9 DEF BootstrapStep

LEMMA SameRoleStays ==
    ASSUME RolesAgree, TypeOK, [Next]_vars, AsDeclared, SameRole
    PROVE  SameRole'
<1> DEFINE may == down["given"].mayBind
<1>1. SUFFICES ASSUME NEW c \in Invocations, c.ids = "default"
               PROVE  may' \in {"none", c.role}
    BY DEF SameRole
<1>2. may \in {"none", c.role} /\ "given" \in Ids /\ down \in [Ids -> Identities]
    BY <1>1 DEF SameRole, Ids, TypeOK, Identities
<1>3. ASSUME NEW r \in Runs, Fails(r) \/ BootstrapStep(r) \/ ApplyDownstream(r) \/ Commit(r)
      PROVE  may' \in {"none", c.role}
    <2>1. run[r].cmd \in Invocations /\ run[r].cmd.ids \in Ids
        BY GivenType DEF TypeOK, Run
    <2>2. CASE run[r].cmd.ids = "given"
        <3>1. run[r].cmd.role = c.role
            BY <1>1, <2>1, <2>2 DEF RolesAgree
        <3>2. may' \in {may, run[r].cmd.role}
            BY <1>3, <2>2, DownMoves
        <3>3. QED
            BY <1>2, <3>1, <3>2
    <2>3. CASE run[r].cmd.ids # "given"
        <3>1. down'["given"] = down["given"]
            BY <1>2, <1>3, <2>1, <2>3, DownMoves
        <3>2. QED
            BY <1>2, <3>1
    <2>4. QED
        BY <2>2, <2>3
<1>4. CASE \/ \E r \in Runs : Start(r)
           \/ Poll \/ PassRenew \/ PassPublish \/ PassFails \/ UNCHANGED vars
           \/ \E n \in Names : PassBegin(n)
    <2>1. down' = down
        BY <1>4, StartMoves, PublishMoves, BeginMoves
           DEF Poll, PassRenew, PassFails, vars
    <2>2. QED
        BY <1>2, <2>1
<1>5. ASSUME NEW i, NEW identity, down' = [down EXCEPT ![i] = identity],
             i \in Ids => identity.mayBind = down[i].mayBind
      PROVE  may' \in {"none", c.role}
    BY <1>2, <1>5
<1>6. CASE People
    <2>1. down' = down \/ DeleteBinding
        BY <1>6 DEF People, ForeignAppears, WrittenByHand, DeleteConnection
    <2>2. CASE DeleteBinding
        <3>1. PICK i \in Ids : down' = [down EXCEPT ![i].binding = "none"]
            BY <2>2 DEF DeleteBinding
        <3>2. [down[i] EXCEPT !.binding = "none"].mayBind = down[i].mayBind
            BY <1>2 DEF Identities
        <3>3. QED
            BY <1>2, <1>5, <3>1, <3>2
    <2>3. QED
        BY <1>2, <2>1, <2>2
<1>7. CASE PassIdentity \/ PassCreate
    <2> DEFINE i == pass.conn.ids
               role == pass.conn.role
               binding == IF down[i].binding = "none" THEN role ELSE down[i].binding
    <2>1. \/ down' = down
          \/ down' = [down EXCEPT ![i] = [down[i] EXCEPT !.account = TRUE]]
          \/ down' = [down EXCEPT ![i] = [down[i] EXCEPT !.binding = binding]]
        BY <1>2, <1>7 DEF PassIdentity, PassCreate, BindTo
    <2>2. i \in Ids => /\ [down[i] EXCEPT !.account = TRUE].mayBind = down[i].mayBind
                       /\ [down[i] EXCEPT !.binding = binding].mayBind = down[i].mayBind
        BY <1>2 DEF Identities
    <2> HIDE DEF binding, i
    <2>3. QED
        BY <1>2, <1>5, <2>1, <2>2
<1>8. QED
    BY <1>3, <1>4, <1>6, <1>7 DEF Next, PassStep

\* A command that writes disturbs the others; what does not write leaves all
\* that they have done.
LEMMA OthersDisturb ==
    ASSUME TypeOK, NEW r \in Runs,
           Fails(r) \/ BootstrapStep(r) \/ ApplyDownstream(r) \/ Commit(r)
    PROVE  /\ run'[r].cmd = run[r].cmd /\ disturbed \subseteq disturbed'
           /\ \A q \in Runs \ {r} : run'[q] = run[q]
           /\ Disturbs(r) \/ UNCHANGED <<down, credential, connection, disturbed>>
<1>1. Quiet(r) \/ InspectTarget(r) \/ RefuseDuplicate(r) \/ Connect(r) \/ Commit(r)
    BY QuietSteps DEF BootstrapStep
<1>2. /\ run'[r].cmd = run[r].cmd
      /\ \A q \in Runs \ {r} : run'[q] = run[q]
    BY <1>1, TargetMoves, DuplicateMoves, ConnectMoves DEF Quiet, Moves
<1>3. Disturbs(r) \/ UNCHANGED <<down, credential, connection, disturbed>>
    <2>1. CASE Fails(r) \/ ReadRole(r) \/ InspectTarget(r) \/ RefuseDuplicate(r) \/ Rebind(r)
        BY <2>1 DEF Fails, ReadRole, InspectTarget, RefuseDuplicate, Rebind, local, history
    <2>2. CASE Unbind(r) \/ Recreate(r) \/ OwnIdentity(r) \/ ArgoIdentity(r) \/ CreateBinding(r)
        BY <2>2 DEF Unbind, Recreate, CreateBinding, Create, OwnIdentity, ArgoIdentity
    <2>3. CASE Store(r) \/ Connect(r)
        BY <2>3 DEF Store, Connect
    <2>4. CASE ApplyDownstream(r) \/ Commit(r)
        BY <2>4 DEF ApplyDownstream, Commit
    <2>5. QED
        BY <2>1, <2>2, <2>3, <2>4 DEF BootstrapStep
<1>4. QED
    BY <1>2, <1>3 DEF Disturbs

LEMMA ServedElsewhere ==
    ASSUME TypeOK, AllServed, NEW r \in Runs, NEW q \in Runs \ {r}, Plainly(q)',
           Fails(r) \/ BootstrapStep(r) \/ ApplyDownstream(r) \/ Commit(r)
    PROVE  Served(q)'
<1>1. run'[q] = run[q] /\ Plainly(q)
    BY OthersDisturb DEF Plainly
<1>2. CASE Disturbs(r)
    <2>1. run[q].pc = "idle"
        BY <1>1, <1>2 DEF Disturbs, Plainly
    <2>2. QED
        BY <1>1, <2>1 DEF Served, Completing
<1>3. CASE UNCHANGED <<down, credential, connection, disturbed>>
    BY <1>1, <1>3 DEF AllServed, Served, Completing
<1>4. QED
    BY <1>2, <1>3, OthersDisturb

\* The phases that promise nothing.
LEMMA ServedAtOnce ==
    ASSUME NEW r \in Runs,
           run'[r].pc \notin {"role", "target", "duplicate", "identity", "create",
                             "store", "connect", "done"}
    PROVE  Served(r)'
BY DEF Served, Completing

LEMMA ServedAtTheEnd ==
    ASSUME TypeOK, NEW r \in Runs, NEW pc \in Over \ {"done"}, Goes(r, pc) \/ Writes(r, pc)
    PROVE  Served(r)'
<1>1. pc \in Phases
    BY DEF Phases
<1>2. run'[r].pc = pc
    BY <1>1, GoesMoves, WritesMoves DEF Moves
<1>3. QED
    BY <1>2, ServedAtOnce DEF Over

LEMMA ServedByItself ==
    ASSUME TypeOK, AllServed, NEW r \in Runs, Plainly(r)',
           Fails(r) \/ BootstrapStep(r) \/ ApplyDownstream(r) \/ Commit(r)
    PROVE  Served(r)'
<1> DEFINE d == down["default"]
           n == run[r].cmd.name
           role == run[r].cmd.role
<1>1. /\ run'[r].cmd = run[r].cmd /\ run[r].cmd.ids = "default" /\ Served(r)
      /\ role \in Roles /\ role \in MaybeRole /\ n \in Names /\ role # "none"
    BY OthersDisturb, GivenType DEF Plainly, AllServed, Roles, MaybeRole
<1>2. down \in [Ids -> Identities] /\ "default" \in Ids /\ d \in Identities
    BY DEF TypeOK, Identities, Ids
<1>3. CASE Fails(r) \/ ReadRole(r)
    <2>1. /\ run'[r].pc \in {"failed", "refused", "target"}
          /\ run'[r].pc = "target" => run[r].pc = "role"
        BY <1>3, CheckingMoves DEF Moves
    <2>2. QED
        BY <1>1, <2>1 DEF Served, Completing
<1>4. CASE InspectTarget(r)
    <2>1. run'[r].pc \in {"refused", "duplicate"} /\ run[r].pc = "target"
        BY <1>4, TargetMoves DEF Moves
    <2>2. down' = down
        BY <1>4 DEF InspectTarget
    <2>3. QED
        BY <1>1, <2>1, <2>2 DEF Served, Completing
<1>5. CASE RefuseDuplicate(r)
    <2> DEFINE next == IF Mode(r, "dry run") THEN "previewed" ELSE Onward(r)
    <2>1. Goes(r, IF ClaimedElsewhere(n) THEN "refused" ELSE next) \/ Goes(r, next)
        BY <1>5 DEF RefuseDuplicate
    <2>2. next \in {"previewed", "unbind", "own identity"}
          \/ (next = "store" /\ run[r].cmd.mode = "complete")
        <3>1. CASE Mode(r, "dry run")
            BY <3>1
        <3>2. CASE ~Mode(r, "dry run") /\ Mode(r, "complete")
            <4>1. run[r].cmd.mode = "complete"
                BY <3>2 DEF Mode
            <4>2. next = Onward(r)
                BY <3>2
            <4>3. Onward(r) = "store"
                BY <3>2 DEF Onward
            <4>4. QED
                BY <4>1, <4>2, <4>3
        <3>3. CASE ~Mode(r, "dry run") /\ ~Mode(r, "complete")
            BY <3>3, Zenon DEF Onward
        <3>4. QED
            BY <3>1, <3>2, <3>3
    <2> HIDE DEF next
    <2>3. run'[r].pc \in {"refused", next}
        BY <2>1, <2>2, GoesMoves DEF Moves, Phases, Over, Working, Writing
    <2>4. run[r].pc = "duplicate" /\ down' = down
        BY <1>5 DEF RefuseDuplicate
    <2>5. CASE run'[r].pc = "store" /\ run[r].cmd.mode = "complete"
        BY <1>1, <2>4, <2>5 DEF Served, Completing
    <2>6. QED
        BY <2>2, <2>3, <2>5, ServedAtOnce
<1>6. CASE Unbind(r) \/ Rebind(r) \/ Recreate(r)
    <2>1. \E pc \in {"rebind", "recreate", "own identity", "failed"} : Goes(r, pc) \/ Writes(r, pc)
        <3>1. Found(r, "recreate", "own identity") \in {"recreate", "own identity", "failed"}
            BY DEF Found
        <3>2. QED
            BY <1>6, <3>1 DEF Unbind, Rebind, Recreate, Create
    <2>2. run'[r].pc \in {"rebind", "recreate", "own identity", "failed"}
        BY <2>1, GoesMoves, WritesMoves DEF Moves, Phases, Over, Working, Writing
    <2>3. QED
        BY <2>2, ServedAtOnce
<1>7. CASE OwnIdentity(r)
    <2>1. CASE Writes(r, "failed")
        BY <2>1, ServedAtTheEnd DEF Over
    <2>2. CASE Writes(r, "identity") /\ down' = [down EXCEPT !["default"] = Owned(d, role)]
        <3>1. run'[r].pc = "identity"
            BY <2>2, WritesMoves DEF Moves, Phases, Working, Writing
        <3>2. /\ down'["default"].own = TRUE /\ down'["default"].ownBinding = TRUE
              /\ down'["default"].mayBind = role
            BY <1>2, <2>2 DEF Owned, Identities
        <3>3. QED
            BY <1>1, <3>1, <3>2 DEF Served, Completing
    <2>3. QED
        BY <1>1, <1>7, <2>1, <2>2 DEF OwnIdentity, Identity
<1>8. CASE ArgoIdentity(r)
    <2> DEFINE next == Found(r, "create", "store")
    <2>1. /\ run[r].pc = "identity" /\ Writes(r, next)
          /\ down' = [down EXCEPT !["default"] = [d EXCEPT !.account = TRUE]]
        BY <1>1, <1>2, <1>8 DEF ArgoIdentity
    <2>2. /\ next \in {"create", "store", "failed"} /\ (next = "store" => d.binding = role)
          /\ next = "create" => d.binding = "none"
        BY <1>1 DEF Found, BoundAs, Unbound
    <2> HIDE DEF next
    <2>3. run'[r].pc = next
        BY <2>1, <2>2, WritesMoves DEF Moves, Phases, Over, Working, Writing
    <2>4. /\ down'["default"] = [d EXCEPT !.account = TRUE]
          /\ d.own = TRUE /\ d.ownBinding = TRUE /\ d.mayBind = role
        BY <1>1, <1>2, <2>1 DEF Served
    <2> DEFINE z == [d EXCEPT !.account = TRUE]
    <2>5. /\ z \in Identities /\ z.account = TRUE /\ z.binding = d.binding
          /\ z.own = d.own /\ z.ownBinding = d.ownBinding /\ z.mayBind = d.mayBind
        BY <1>1, <1>2, AmendedIdentity
    <2> HIDE DEF z
    <2>6. d.binding = role => z = Provisioned(role)
        BY <1>1, <2>4, <2>5, ProvisionedIdentity
    <2>7. CASE next = "failed"
        BY <2>3, <2>7, ServedAtOnce
    <2>8. CASE next = "store"
        BY <1>1, <2>2, <2>3, <2>4, <2>6, <2>8 DEF Served, Completing, z
    <2>9. CASE next = "create"
        BY <1>1, <2>2, <2>3, <2>4, <2>5, <2>9 DEF Served, Completing, z
    <2>10. QED
        BY <2>2, <2>7, <2>8, <2>9
<1>9. CASE CreateBinding(r)
    <2>1. run[r].pc = "create" /\ Writes(r, "store") /\ BindTo("default", role)
        BY <1>1, <1>9 DEF CreateBinding, Create
    <2>2. run'[r].pc = "store"
        BY <2>1, WritesMoves DEF Moves, Phases, Working, Writing
    <2>3. /\ d.account = TRUE /\ d.binding \in {"none", role} /\ d.own = TRUE
          /\ d.ownBinding = TRUE /\ d.mayBind = role
        BY <1>1, <2>1 DEF Served
    <2>4. down'["default"] = [d EXCEPT !.binding = role]
        <3>1. down'["default"] = [d EXCEPT !.binding = IF d.binding = "none" THEN role ELSE d.binding]
            BY <1>2, <2>1 DEF BindTo
        <3>2. (IF d.binding = "none" THEN role ELSE d.binding) = role
            BY <2>3
        <3>3. QED
            BY <3>1, <3>2
    <2>5. [d EXCEPT !.binding = role] = Provisioned(role)
        <3> DEFINE y == [d EXCEPT !.binding = role]
        <3>1. /\ y \in Identities /\ y.account = TRUE /\ y.binding = role /\ y.own = TRUE
              /\ y.ownBinding = TRUE /\ y.mayBind = role
            BY <1>1, <1>2, <2>3, AmendedIdentity
        <3> HIDE DEF y
        <3>2. y = Provisioned(role)
            BY <1>1, <3>1, ProvisionedIdentity
        <3>3. QED
            BY <3>2 DEF y
    <2>6. QED
        BY <1>1, <2>2, <2>4, <2>5 DEF Served, Completing
<1>10. CASE Store(r)
    <2>1. CASE Goes(r, "failed")
        BY <2>1, ServedAtTheEnd DEF Over
    <2>2. CASE Writes(r, "printed")
        BY <2>2, ServedAtTheEnd DEF Over
    <2>3. CASE Writes(r, "connect") /\ credential' = [credential EXCEPT ![n] = "default"]
        <3>1. run'[r].pc = "connect" /\ credential'[n] = "default"
            BY <1>1, <2>3, WritesMoves DEF Moves, Phases, Working, Writing, TypeOK
        <3>2. run[r].pc = "store" /\ down' = down
            BY <1>10 DEF Store
        <3>3. QED
            BY <1>1, <3>1, <3>2 DEF Served, Completing
    <2>4. QED
        BY <1>1, <1>10, <2>1, <2>2, <2>3 DEF Store
<1>11. CASE Connect(r)
    <2>1. CASE Conflicts(r)
        <3>1. Goes(r, "failed")
            BY <1>11, <2>1 DEF Connect
        <3>2. QED
            BY <3>1, ServedAtTheEnd DEF Over
    <2>2. CASE ~Conflicts(r)
        <3> DEFINE fresh == ConnectionFor(r, "bootstrap")
                   new == Merged(connection[n], fresh)
        <3>1. Writes(r, "done") /\ connection' = [connection EXCEPT ![n] = new]
            BY <1>11, <2>2 DEF Connect
        <3>2. run'[r].pc = "done"
            BY <3>1, WritesMoves DEF Moves, Phases, Over
        <3>3. new.holder = "bootstrap" => new.role = role
            BY Zenon DEF Merged, ConnectionFor
        <3>4. new # Absent
            <4>1. new.holder \in {"bootstrap", "others"}
                BY DEF Merged, ConnectionFor
            <4>2. QED
                BY <4>1 DEF Absent
        <3>5. connection'[n] = new
            BY <1>1, <3>1 DEF TypeOK
        <3>6. run[r].pc = "connect" /\ down' = down /\ credential' = credential
            BY <1>11 DEF Connect
        <3> HIDE DEF new
        <3>7. QED
            BY <1>1, <3>2, <3>3, <3>4, <3>5, <3>6 DEF Served, Completing
    <2>3. QED
        BY <2>1, <2>2
<1>12. CASE ApplyDownstream(r) \/ Commit(r)
    <2>1. Goes(r, "applied") \/ Goes(r, "committed")
        BY <1>12 DEF ApplyDownstream, Commit
    <2>2. QED
        BY <2>1, ServedAtTheEnd DEF Over
<1>13. QED
    BY <1>3, <1>4, <1>5, <1>6, <1>7, <1>8, <1>9, <1>10, <1>11, <1>12 DEF BootstrapStep

\* Passes restore what a command relies on, and take nothing of it away.
LEMMA ServedBesidePasses ==
    ASSUME TypeOK, ServedInv, NEW q \in Runs, Plainly(q)',
           PassRenew \/ PassIdentity \/ PassCreate
    PROVE  Served(q)'
<1> DEFINE d == down["default"]
           role == run[q].cmd.role
<1>1. /\ UNCHANGED <<run, connection, disturbed>> /\ Served(q)
      /\ run[q].cmd \in Invocations /\ run[q].cmd.ids = "default"
      /\ role \in Roles /\ role \in MaybeRole /\ role # "none"
    BY PassMoves, GivenType DEF PassRenew, PassIdentity, PassCreate, history, Plainly, ServedInv,
                                AllServed, TypeOK, Run, Roles, MaybeRole
<1>2. down \in [Ids -> Identities] /\ "default" \in Ids /\ d \in Identities
    BY DEF TypeOK, Identities, Ids
<1>3. pass.conn.ids = "default" /\ pass.conn.role # "none" /\ pass.as \in Ids /\ pass.name \in Names
    <2>1. pass.conn.ids = "default" /\ pass \in Pass
        BY DEF PassRenew, PassIdentity, PassCreate, ServedInv, AsDeclared, TypeOK
    <2>2. pass.conn \in Connection
        BY <2>1 DEF Pass, Absent
    <2>3. QED
        BY <2>1, <2>2 DEF Pass, Connection, Roles
<1>4. CASE PassRenew
    <2>1. /\ down' = down
          /\ credential' = credential \/ credential' = [credential EXCEPT ![pass.name] = "default"]
        BY <1>3, <1>4 DEF PassRenew
    <2>2. credential[run[q].cmd.name] = "default" => credential'[run[q].cmd.name] = "default"
        BY <2>1, GivenType DEF TypeOK
    <2>3. QED
        BY <1>1, <2>1, <2>2 DEF Served, Completing
<1>5. CASE PassIdentity
    <2>1. /\ down' = [down EXCEPT !["default"] = [d EXCEPT !.account = TRUE]]
          /\ credential' = credential
        BY <1>2, <1>3, <1>5 DEF PassIdentity, local
    <2>2. down'["default"] = [d EXCEPT !.account = TRUE]
        BY <1>2, <2>1
    <2> DEFINE z == down'["default"]
    <2>3. /\ z \in Identities /\ z.account = TRUE /\ z.binding = d.binding
          /\ z.own = d.own /\ z.ownBinding = d.ownBinding /\ z.mayBind = d.mayBind
        BY <1>1, <1>2, <2>2, AmendedIdentity
    <2>4. ASSUME d = Provisioned(role) PROVE z = Provisioned(role)
        <3>1. d.binding = role /\ d.own = TRUE /\ d.ownBinding = TRUE /\ d.mayBind = role
            BY <2>4 DEF Provisioned
        <3> HIDE DEF z
        <3>2. QED
            BY <1>1, <2>3, <3>1, ProvisionedIdentity
    <2>5. QED
        BY <1>1, <2>1, <2>3, <2>4 DEF Served, Completing
<1>6. CASE PassCreate /\ down[pass.as].mayBind = pass.conn.role
    <2> DEFINE binding == IF d.binding = "none" THEN pass.conn.role ELSE d.binding
    <2>1. /\ down' = [down EXCEPT !["default"] = [d EXCEPT !.binding = binding]]
          /\ credential' = credential
        BY <1>2, <1>3, <1>6 DEF PassCreate, BindTo, local
    <2>2. down'["default"] = [d EXCEPT !.binding = binding]
        BY <1>2, <2>1
    <2>3. binding \in MaybeRole
        <3>1. pass.conn.role \in MaybeRole
            BY <1>2, <1>3, <1>6 DEF Identities
        <3>2. QED
            BY <1>2, <3>1 DEF Identities
    <2> DEFINE z == down'["default"]
    <2>4. /\ z \in Identities /\ z.account = d.account /\ z.binding = binding
          /\ z.own = d.own /\ z.ownBinding = d.ownBinding /\ z.mayBind = d.mayBind
        <3> DEFINE y == [d EXCEPT !.binding = binding]
        <3> HIDE DEF binding
        <3>1. /\ y \in Identities /\ y.account = d.account /\ y.binding = binding
              /\ y.own = d.own /\ y.ownBinding = d.ownBinding /\ y.mayBind = d.mayBind
            BY <1>2, <2>3, AmendedIdentity
        <3>2. z = y
            BY <2>2
        <3> HIDE DEF y, z
        <3>3. QED
            BY <3>1, <3>2
    <2>5. run[q].pc = "create" => binding \in {"none", role}
        <3>1. run[q].pc = "create" => d.mayBind = role /\ d.binding \in {"none", role}
            BY <1>1 DEF Served
        <3>2. down["given"].mayBind \in {"none", role}
            BY <1>1 DEF ServedInv, SameRole
        <3>3. run[q].pc = "create" => pass.conn.role = role
            BY <1>3, <1>6, <3>1, <3>2 DEF Ids
        <3>4. QED
            BY <3>1, <3>3
    <2>6. ASSUME d = Provisioned(role) PROVE z = Provisioned(role)
        <3>1. /\ d.account = TRUE /\ d.binding = role /\ d.own = TRUE /\ d.ownBinding = TRUE
              /\ d.mayBind = role
            BY <2>6 DEF Provisioned
        <3>2. binding = role
            BY <1>1, <3>1
        <3> HIDE DEF z, binding
        <3>3. QED
            BY <1>1, <2>4, <3>1, <3>2, ProvisionedIdentity
    <2> HIDE DEF binding
    <2>7. QED
        BY <1>1, <2>1, <2>4, <2>5, <2>6 DEF Served, Completing
<1>7. CASE PassCreate /\ down[pass.as].mayBind # pass.conn.role
    BY <1>1, <1>7 DEF PassCreate, local, Served, Completing
<1>8. QED
    BY <1>4, <1>5, <1>6, <1>7

LEMMA AllServedStays ==
    ASSUME TypeOK, [Next]_vars, ServedInv
    PROVE  AllServed'
<1>1. SUFFICES ASSUME NEW q \in Runs, Plainly(q)' PROVE Served(q)'
    BY DEF AllServed
<1>2. CASE \E r \in Runs : Fails(r) \/ BootstrapStep(r) \/ ApplyDownstream(r) \/ Commit(r)
    BY <1>1, <1>2, ServedElsewhere, ServedByItself DEF ServedInv
<1>3. ASSUME NEW r \in Runs, Start(r) PROVE Served(q)'
    <2>1. PICK c \in Invocations :
              /\ run' = [run EXCEPT ![r] = [NoRun EXCEPT !.cmd = c,
                            !.pc = CASE c.mode = "print downstream" -> "handed over"
                                     [] c.mode = "complete" -> "target"
                                     [] OTHER -> "role"]]
              /\ disturbed' = IF c.mode = "complete" /\ down[c.ids] # Provisioned(c.role)
                              THEN disturbed \cup {r} ELSE disturbed
        BY <1>3 DEF Start
    <2>2. /\ UNCHANGED <<down, credential, connection>>
          /\ run \in [Runs -> Run] /\ disturbed \subseteq disturbed'
        BY <1>3, <2>1, StartMoves DEF Elsewhere, TypeOK
    <2>3. CASE q # r
        BY <1>1, <2>1, <2>2, <2>3 DEF Plainly, ServedInv, AllServed, Served, Completing
    <2>4. CASE q = r
        <3> DEFINE to == CASE c.mode = "print downstream" -> "handed over"
                           [] c.mode = "complete" -> "target"
                           [] OTHER -> "role"
        <3>1. to \in {"handed over", "target", "role"} /\ (to = "role" => c.mode # "complete")
            OBVIOUS
        <3>2. run' = [run EXCEPT ![r] = [NoRun EXCEPT !.cmd = c, !.pc = to]]
            BY <2>1
        <3> HIDE DEF to
        <3>3. run'[r] = [NoRun EXCEPT !.cmd = c, !.pc = to]
            BY <2>2, <3>2
        <3>4. run'[r].pc = to /\ run'[r].cmd = c
            BY <3>3 DEF NoRun
        <3>5. c.mode = "complete" => down["default"] = Provisioned(c.role)
            BY <1>1, <2>1, <2>4, <3>4 DEF Plainly
        <3>6. QED
            BY <2>2, <2>4, <3>1, <3>4, <3>5 DEF Served, Completing
    <2>5. QED
        BY <2>3, <2>4
<1>4. CASE People
    <2>1. run' = run /\ disturbed' = disturbed \cup {r \in Runs : run[r].pc # "idle"}
        BY <1>4 DEF People, AllDisturbed
    <2>2. run'[q].pc = "idle"
        BY <1>1, <2>1 DEF Plainly
    <2>3. QED
        BY <2>2, ServedAtOnce
<1>5. CASE \/ Poll \/ PassFails \/ PassPublish \/ UNCHANGED vars
           \/ \E n \in Names : PassBegin(n)
    <2>1. UNCHANGED <<down, credential, connection, run, disturbed>>
        BY <1>5, PublishMoves, BeginMoves DEF Poll, PassFails, vars, local, history
    <2>2. QED
        BY <1>1, <2>1 DEF Plainly, ServedInv, AllServed, Served, Completing
<1>6. CASE PassRenew \/ PassIdentity \/ PassCreate
    BY <1>1, <1>6, ServedBesidePasses
<1>7. QED
    BY <1>2, <1>3, <1>4, <1>5, <1>6 DEF Next, PassStep

LEMMA ServedStays ==
    ASSUME RolesAgree
    PROVE  TypeOK /\ ServedInv /\ [Next]_vars => ServedInv'
BY DeclaredStays, SameRoleStays, AllServedStays DEF ServedInv

LEMMA ServedFirst == Init => ServedInv
<1> SUFFICES ASSUME Init PROVE ServedInv
    OBVIOUS
<1>1. AsDeclared /\ down["given"].mayBind = "none"
    BY DEF Init, AsDeclared, ByDefault, NoPass, NoIdentity, Ids
<1>2. \A r \in Runs : run[r].pc = "idle"
    BY DEF Init, NoRun
<1>3. AllServed
    BY <1>2 DEF AllServed, Served, Completing
<1>4. QED
    BY <1>1, <1>3 DEF ServedInv, SameRole

\* A command that says it is done, where nobody else acted, has left the accounts
\* and bindings, the credential and the connection that its flags asked for,
\* however passes came between its steps.
THEOREM DoneIsProvisioned == RolesAgree => (Spec => []DoneMeansProvisioned)
<1>1. ServedInv => DoneMeansProvisioned
    BY DEF ServedInv, AllServed, Plainly, Served, DoneMeansProvisioned, Undisturbed
<1> SUFFICES ASSUME RolesAgree PROVE Spec => []DoneMeansProvisioned
    OBVIOUS
<1>2. TypeOK /\ ServedInv /\ [Next]_vars => ServedInv'
    BY ServedStays
<1>3. QED
    BY <1>1, <1>2, ServedFirst, BootstrapTypeCorrect, PTL DEF Spec

\* Where no names are given but the defaults, the connection a command leaves
\* names an account that is there: what the flag's description promises holds.
THEOREM DefaultsRenew ==
    (\A c \in Invocations : c.ids = "default") => (Spec => []DoneRenews)
<1> SUFFICES ASSUME \A c \in Invocations : c.ids = "default" PROVE Spec => []DoneRenews
    OBVIOUS
<1>1. TypeOK /\ ServedInv => DoneRenews
    <2> SUFFICES ASSUME TypeOK, ServedInv, NEW r \in Runs, run[r].pc = "done", r \notin disturbed
                 PROVE  down[connection[run[r].cmd.name].ids].own
        BY DEF DoneRenews
    <2>1. run[r].cmd \in Invocations /\ run[r].cmd.name \in Names
        BY GivenType DEF TypeOK, Run
    <2>2. Served(r)
        BY <2>1 DEF ServedInv, AllServed, Plainly
    <2>3. connection[run[r].cmd.name].ids = "default"
        BY <2>1, <2>2 DEF Served, ServedInv, AsDeclared, ByDefault
    <2>4. down["default"].own = TRUE
        BY <2>2 DEF Served, Provisioned
    <2>5. QED
        BY <2>3, <2>4
<1>2. TypeOK /\ ServedInv /\ [Next]_vars => ServedInv'
    BY ServedStays DEF RolesAgree
<1>3. QED
    BY <1>1, <1>2, ServedFirst, BootstrapTypeCorrect, PTL DEF Spec
=============================================================================
