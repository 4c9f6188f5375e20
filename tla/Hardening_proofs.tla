--------------------------- MODULE Hardening_proofs ---------------------------
(***************************************************************************)
(* What holds of restrict-rbac for every inventory, every set of Secrets    *)
(* and any number of commands, edits and failures.                          *)
(***************************************************************************)
EXTENDS Hardening, Inventory_proofs

-----------------------------------------------------------------------------
(* Types.                                                                  *)

\* Marking what is out of date changes nothing else of a command.
LEMMA StaleKeeps ==
    ASSUME NEW runs \in [Runs -> Run]
    PROVE  /\ Stale(runs) \in [Runs -> Run]
           /\ \A q \in Runs : /\ Stale(runs)[q].pc = runs[q].pc
                              /\ Stale(runs)[q].plan = runs[q].plan
                              /\ Stale(runs)[q].due = runs[q].due
                              /\ Stale(runs)[q].wrote = runs[q].wrote
<1>1. ASSUME NEW q \in Runs
      PROVE  /\ [runs[q] EXCEPT !.fresh = FALSE] \in Run
             /\ [runs[q] EXCEPT !.fresh = FALSE].pc = runs[q].pc
             /\ [runs[q] EXCEPT !.fresh = FALSE].plan = runs[q].plan
             /\ [runs[q] EXCEPT !.fresh = FALSE].due = runs[q].due
             /\ [runs[q] EXCEPT !.fresh = FALSE].wrote = runs[q].wrote
    <2>1. runs[q] \in Run
        OBVIOUS
    <2>2. QED
        BY <2>1 DEF Run
<1>2. DOMAIN Stale(runs) = Runs
    BY DEF Stale
<1>3. \A q \in Runs : Stale(runs)[q] \in {runs[q], [runs[q] EXCEPT !.fresh = FALSE]}
    BY DEF Stale
<1>4. Stale(runs) = [q \in Runs |-> Stale(runs)[q]]
    BY DEF Stale
<1>5. QED
    BY <1>1, <1>3, <1>4

\* A pc a command can move to.
PCs == {"idle", "sync"} \cup Working \cup Over

LEMMA FieldTypes ==
    ASSUME NEW c \in Run, NEW pc \in PCs, NEW mode \in {"apply", "print", "dry run"},
           NEW names \in SUBSET Secrets, NEW due \in SUBSET Objects, NEW b \in BOOLEAN
    PROVE  /\ [c EXCEPT !.pc = pc] \in Run
           /\ [c EXCEPT !.pc = pc, !.mode = mode] \in Run
           /\ [c EXCEPT !.pc = pc, !.plan = names] \in Run
           /\ [c EXCEPT !.pc = pc, !.fresh = b] \in Run
           /\ [c EXCEPT !.pc = pc, !.left = names] \in Run
           /\ [c EXCEPT !.left = names] \in Run
           /\ [c EXCEPT !.due = due, !.pc = pc] \in Run
           /\ [c EXCEPT !.pc = pc, !.due = due] \in Run
           /\ [c EXCEPT !.pc = pc, !.wrote = b] \in Run
BY DEF Run, PCs

LEMMA GoesType ==
    ASSUME NEW r \in Runs, run \in [Runs -> Run], NEW pc \in PCs, Goes(r, pc)
    PROVE  run' \in [Runs -> Run]
BY FieldTypes DEF Goes

LEMMA RunType ==
    ASSUME TypeOK, NEW r \in Runs,
           Start(r) \/ Fails(r) \/ List(r) \/ Inspect(r) \/ Confirm(r) \/ Commit(r)
    PROVE  TypeOK'
<1> USE DEF TypeOK, Working, Over, Inspecting, Applying, Writing, Verifying
<1>1. CASE Start(r)
    <2>1. PICK mode \in {"apply", "print", "dry run"} :
              run' = [run EXCEPT ![r].pc = "list", ![r].mode = mode]
        BY <1>1 DEF Start
    <2>2. run' \in [Runs -> Run]
        BY <2>1, FieldTypes DEF PCs
    <2>3. QED
        BY <1>1, <2>2 DEF Start, rbac, history
<1>2. CASE Fails(r)
    <2>1. run' \in [Runs -> Run]
        BY <1>2, GoesType DEF Fails, PCs
    <2>2. faults' \in 0..MaxFaults
        <3>1. faults \in 0..MaxFaults /\ faults < MaxFaults /\ faults' = faults + 1
            BY <1>2 DEF Fails
        <3>2. QED
            BY <3>1, HardeningAssumption DEF HardeningAssumption
    <2>3. QED
        BY <1>2, <2>1, <2>2 DEF Fails, rbac, history
<1>3. CASE List(r)
    <2> DEFINE listed == Listed(inventory)
    <2>1. SecretNames(listed) \in SUBSET Secrets
        BY ListedKeeps DEF SecretNames, Inventories, Entries
    <2>2. \/ run' = [run EXCEPT ![r].pc = "inspect baseline", ![r].plan = SecretNames(listed)]
          \/ Goes(r, "refused")
        BY <1>3 DEF List
    <2>3. run' \in [Runs -> Run]
        <3>1. [run[r] EXCEPT !.pc = "inspect baseline", !.plan = SecretNames(listed)] \in Run
            BY <2>1, FieldTypes DEF PCs
        <3>2. QED
            BY <2>2, <3>1, GoesType DEF PCs
    <2>4. QED
        BY <1>3, <2>3 DEF List, rbac, history
<1>4. CASE Inspect(r)
    <2>1. PICK pc \in PCs : Goes(r, pc) /\ UNCHANGED <<inventory, rbac, history, events, faults>>
        <3>1. Onward(r) \in PCs
            BY DEF Onward, PCs
        <3>2. QED
            BY <1>4, <3>1 DEF Inspect, Inspects, PCs
    <2>2. run' \in [Runs -> Run]
        BY <2>1, GoesType
    <2>3. QED
        BY <2>1, <2>2 DEF rbac, history
<1>5. CASE Confirm(r)
    <2>1. run' \in [Runs -> Run]
        BY <1>5, GoesType DEF Confirm, PCs
    <2>2. QED
        BY <1>5, <2>1 DEF Confirm, rbac, history
<1>6. CASE Commit(r)
    <2>1. run' = [run EXCEPT ![r].pc = "sync", ![r].due = Objects]
        BY <1>6 DEF Commit
    <2>2. run' \in [Runs -> Run]
        BY <2>1, FieldTypes DEF PCs
    <2>3. QED
        BY <1>6, <2>2 DEF Commit, rbac, history
<1>7. QED
    BY <1>1, <1>2, <1>3, <1>4, <1>5, <1>6

LEMMA HistoryType ==
    ASSUME TypeOK, NEW r \in Runs, Written(r), UNCHANGED handmade
    PROVE  crossed' \subseteq Runs /\ meddled' \subseteq Runs /\ handmade' \subseteq Objects
BY DEF TypeOK, Written, Crosses, Meddles

\* A write that is carried out leaves a command one call further, and one that is
\* refused leaves it failed.
WritesOn(r, pc) ==
    run' = Stale([run EXCEPT ![r].pc = pc, ![r].wrote = TRUE]) /\ Written(r) /\ UNCHANGED handmade

LEMMA WritesOnType ==
    ASSUME TypeOK, NEW r \in Runs, NEW pc \in PCs, WritesOn(r, pc)
    PROVE  /\ run' \in [Runs -> Run]
           /\ crossed' \subseteq Runs /\ meddled' \subseteq Runs /\ handmade' \subseteq Objects
<1>1. [run EXCEPT ![r].pc = pc, ![r].wrote = TRUE] \in [Runs -> Run]
    BY FieldTypes DEF TypeOK
<1>2. QED
    BY <1>1, StaleKeeps, HistoryType DEF WritesOn

LEMMA ApplyType ==
    ASSUME TypeOK, NEW r \in Runs,
           \/ GetRole(r) \/ PutRole(r) \/ GetBinding(r) \/ PutBinding(r)
           \/ GetBaseline(r) \/ PutBaseline(r)
    PROVE  TypeOK'
<1> USE DEF TypeOK
<1>1. CASE GetRole(r) \/ GetBinding(r) \/ GetBaseline(r)
    <2>1. PICK pc \in PCs : run' = [run EXCEPT ![r].pc = pc, ![r].fresh = TRUE]
        BY <1>1 DEF GetRole, GetBinding, GetBaseline, Get, PCs, Working, Writing
    <2>2. run' \in [Runs -> Run]
        BY <2>1, FieldTypes
    <2>3. QED
        BY <1>1, <2>2 DEF GetRole, GetBinding, GetBaseline, Get, rbac, history
<1>2. CASE PutRole(r)
    <2>1. CASE WriteRole(r)
        <3>1. run' \in [Runs -> Run] /\ crossed' \subseteq Runs /\ meddled' \subseteq Runs
              /\ handmade' \subseteq Objects
            BY <2>1, WritesOnType DEF WriteRole, WritesOn, PCs, Working, Writing
        <3>2. role' \in Role
            BY <2>1 DEF WriteRole, RestrictedRole, Role, Run
        <3>3. QED
            BY <1>2, <2>1, <3>1, <3>2 DEF PutRole, WriteRole
    <2>2. CASE Refused(r)
        <3>1. run' \in [Runs -> Run]
            BY <2>2, GoesType DEF Refused, PCs, Over
        <3>2. QED
            BY <1>2, <2>2, <3>1 DEF PutRole, Refused, rbac, history
    <2>3. QED
        BY <1>2, <2>1, <2>2 DEF PutRole
<1>3. CASE PutBinding(r)
    <2>1. CASE WriteBinding(r)
        <3>1. run' \in [Runs -> Run] /\ crossed' \subseteq Runs /\ meddled' \subseteq Runs
              /\ handmade' \subseteq Objects
            BY <2>1, WritesOnType DEF WriteBinding, WritesOn, PCs, Working, Writing
        <3>2. QED
            BY <1>3, <2>1, <3>1 DEF PutBinding, WriteBinding
    <2>2. CASE Refused(r)
        <3>1. run' \in [Runs -> Run]
            BY <2>2, GoesType DEF Refused, PCs, Over
        <3>2. QED
            BY <1>3, <2>2, <3>1 DEF PutBinding, Refused, rbac, history
    <2>3. QED
        BY <1>3, <2>1, <2>2 DEF PutBinding
<1>4. CASE PutBaseline(r)
    <2>1. CASE run[r].fresh
        <3>1. run' \in [Runs -> Run] /\ crossed' \subseteq Runs /\ meddled' \subseteq Runs
              /\ handmade' \subseteq Objects
            BY <1>4, <2>1, WritesOnType DEF PutBaseline, WritesOn, PCs, Working, Verifying
        <3>2. QED
            BY <1>4, <2>1, <3>1 DEF PutBaseline, Baselines
    <2>2. CASE ~run[r].fresh
        <3>1. run' \in [Runs -> Run]
            BY <1>4, <2>2, GoesType DEF PutBaseline, Refused, PCs, Over
        <3>2. QED
            BY <1>4, <2>2, <3>1 DEF PutBaseline, Refused, rbac, history
    <2>3. QED
        BY <2>1, <2>2
<1>5. QED
    BY <1>1, <1>2, <1>3, <1>4

LEMMA ReadBackType ==
    ASSUME TypeOK, NEW r \in Runs,
           VerifyRole(r) \/ VerifyBinding(r) \/ VerifyBaseline(r) \/ Authorize(r)
    PROVE  TypeOK'
<1>1. ASSUME NEW at, NEW intended, NEW next \in PCs, Verifies(r, at, intended, next)
      PROVE  TypeOK'
    <2>1. PICK pc \in PCs : run' = [run EXCEPT ![r].pc = pc, ![r].left = run[r].plan]
        BY <1>1 DEF Verifies, PCs, Over
    <2>2. run[r] \in Run /\ run[r].plan \in SUBSET Secrets
        BY DEF TypeOK, Run
    <2>3. run' \in [Runs -> Run]
        BY <2>1, <2>2, FieldTypes DEF TypeOK
    <2>4. QED
        BY <1>1, <2>3 DEF Verifies, TypeOK, rbac, history
<1>2. CASE Authorize(r)
    <2>1. \/ \E s \in run[r].left : run' = [run EXCEPT ![r].left = @ \ {s}]
          \/ Goes(r, "done")
          \/ Goes(r, "failed")
        BY <1>2 DEF Authorize
    <2>2. CASE \E s \in run[r].left : run' = [run EXCEPT ![r].left = @ \ {s}]
        <3>1. PICK s \in run[r].left : run' = [run EXCEPT ![r].left = run[r].left \ {s}]
            BY <2>2
        <3>2. run[r].left \ {s} \in SUBSET Secrets
            BY DEF TypeOK, Run
        <3>3. [run[r] EXCEPT !.left = run[r].left \ {s}] \in Run
            BY <3>2, FieldTypes DEF TypeOK, PCs
        <3>4. run' \in [Runs -> Run]
            BY <3>1, <3>3 DEF TypeOK
        <3>5. QED
            BY <1>2, <3>4 DEF Authorize, TypeOK, rbac, history
    <2>3. CASE Goes(r, "done") \/ Goes(r, "failed")
        <3>1. run' \in [Runs -> Run]
            BY <2>3, GoesType DEF TypeOK, PCs, Over
        <3>2. QED
            BY <1>2, <3>1 DEF Authorize, TypeOK, rbac, history
    <2>4. QED
        BY <2>1, <2>2, <2>3
<1>3. QED
    BY <1>1, <1>2 DEF VerifyRole, VerifyBinding, VerifyBaseline, PCs, Working, Verifying

\* One object of a manifest that is synced.
SyncsOne(r, object) ==
    LET due == run[r].due \ {object} IN
    /\ role' = IF object = "role" THEN RestrictedRole(r) ELSE role
    /\ binding' = IF object = "binding" /\ binding = "none" THEN "ours" ELSE binding
    /\ baseline' = IF object = "baseline" THEN "create" ELSE baseline
    /\ run' = Stale([run EXCEPT ![r].due = due,
                         ![r].pc = IF object = "binding" /\ binding = "foreign" THEN "failed"
                                   ELSE IF due = {} THEN "synced" ELSE "sync"])

LEMMA SyncIsOne ==
    ASSUME NEW r \in Runs, Sync(r)
    PROVE  \E object \in run[r].due : /\ \A other \in run[r].due : Wave(object) <= Wave(other)
                                      /\ SyncsOne(r, object)
BY DEF Sync, SyncsOne

LEMMA SyncType ==
    ASSUME TypeOK, NEW r \in Runs, Sync(r)
    PROVE  TypeOK'
<1>1. PICK object \in run[r].due : SyncsOne(r, object)
    BY SyncIsOne
<1> DEFINE due == run[r].due \ {object}
           pc == IF object = "binding" /\ binding = "foreign" THEN "failed"
                 ELSE IF due = {} THEN "synced" ELSE "sync"
<1>2. run[r].plan \subseteq Secrets /\ due \in SUBSET Objects
    BY DEF TypeOK, Run
<1>3. pc \in PCs
    BY DEF PCs, Over
<1>4. [run[r] EXCEPT !.due = due, !.pc = pc] \in Run
    BY <1>2, <1>3, FieldTypes DEF TypeOK
<1>5. run' = Stale([run EXCEPT ![r].due = due, ![r].pc = pc])
    BY <1>1 DEF SyncsOne
<1> HIDE DEF due, pc
<1>6. run' \in [Runs -> Run]
    <2>1. [run EXCEPT ![r].due = due, ![r].pc = pc] \in [Runs -> Run]
        BY <1>4 DEF TypeOK
    <2>2. QED
        BY <1>5, <2>1, StaleKeeps
<1>7. role' \in Role /\ binding' \in {"none", "ours", "foreign"} /\ baseline' \in Baselines
    BY <1>1, <1>2 DEF SyncsOne, TypeOK, RestrictedRole, Role, Baselines
<1>8. UNCHANGED <<inventory, handmade, events, faults>> /\ Written(r)
    BY DEF Sync
<1>9. crossed' \subseteq Runs /\ meddled' \subseteq Runs /\ handmade' \subseteq Objects
    BY <1>8, HistoryType
<1>10. QED
    BY <1>6, <1>7, <1>8, <1>9 DEF TypeOK

LEMMA PeopleType ==
    ASSUME TypeOK, People
    PROVE  TypeOK'
<1>1. events' \in 0..MaxEvents /\ faults' \in 0..MaxFaults
    <2>1. events \in 0..MaxEvents /\ events < MaxEvents /\ events' = events + 1
        BY DEF TypeOK, People
    <2>2. QED
        BY <2>1, HardeningAssumption DEF HardeningAssumption, TypeOK, People
<1>2. CASE EditInventory
    <2>1. ASSUME NEW c \in Conns, NEW e \in Entries,
                 inventory' = [d \in DOMAIN inventory \cup {c} |-> IF d = c THEN e ELSE inventory[d]]
          PROVE  inventory' \in Inventories
        BY <2>1 DEF TypeOK, Inventories
    <2>2. ASSUME NEW c \in Conns, inventory' = [d \in DOMAIN inventory \ {c} |-> inventory[d]]
          PROVE  inventory' \in Inventories
        BY <2>2 DEF TypeOK, Inventories
    <2>3. inventory' \in Inventories
        BY <1>2, <2>1, <2>2 DEF EditInventory
    <2>4. QED
        BY <1>1, <1>2, <2>3 DEF EditInventory, TypeOK, rbac, history
<1>3. CASE EditRBAC
    <2>1. baseline' \in Baselines /\ role' \in Role /\ binding' \in {"none", "ours", "foreign"}
        <3>1. NoRole \in Role /\ \A s \in Secrets : [owned |-> FALSE, names |-> {s}] \in Role
            BY DEF NoRole, Role
        <3>2. \/ baseline' \in Baselines /\ role' = role /\ binding' = binding
              \/ /\ role' \in {NoRole} \cup {[owned |-> FALSE, names |-> {s}] : s \in Secrets}
                 /\ baseline' = baseline /\ binding' = binding
              \/ binding' \in {"none", "foreign"} /\ baseline' = baseline /\ role' = role
            BY <1>3 DEF EditRBAC
        <3>3. QED
            BY <3>1, <3>2 DEF TypeOK
    <2>2. run' \in [Runs -> Run]
        BY <1>3, StaleKeeps DEF EditRBAC, TypeOK
    <2>3. crossed' \subseteq Runs /\ meddled' \subseteq Runs /\ handmade' \subseteq Objects
        BY <1>3 DEF EditRBAC, TypeOK, Meddles, Changed, Objects
    <2>4. QED
        BY <1>1, <1>3, <2>1, <2>2, <2>3 DEF EditRBAC, TypeOK
<1>4. QED
    BY <1>2, <1>3 DEF People

LEMMA InitType == Init => TypeOK
<1> SUFFICES ASSUME Init PROVE TypeOK
    OBVIOUS
<1>1. NoRun \in Run
    BY DEF NoRun, Run
<1>2. baseline \in Baselines /\ role \in Role /\ binding \in {"none", "ours", "foreign"}
    <2>1. NoRole \in Role /\ \A names \in SUBSET Secrets : [owned |-> TRUE, names |-> names] \in Role
        BY DEF NoRole, Role
    <2>2. CASE baseline = "broad" /\ role = NoRole /\ binding = "none"
        BY <2>1, <2>2 DEF Baselines
    <2>3. CASE /\ baseline = "create" /\ binding = "ours"
               /\ \E names \in SUBSET Secrets : role = [owned |-> TRUE, names |-> names]
        BY <2>1, <2>3 DEF Baselines
    <2>4. QED
        BY <2>2, <2>3 DEF Init
<1>3. run \in [Runs -> Run]
    BY <1>1 DEF Init
<1>4. /\ inventory \in Inventories /\ events \in 0..MaxEvents /\ faults \in 0..MaxFaults
      /\ crossed = {} /\ meddled = {} /\ handmade = {}
    BY DEF Init
<1>5. QED
    BY <1>2, <1>3, <1>4 DEF TypeOK

LEMMA NextType == TypeOK /\ [Next]_vars => TypeOK'
<1> SUFFICES ASSUME TypeOK, [Next]_vars PROVE TypeOK'
    OBVIOUS
<1>1. CASE UNCHANGED vars
    BY <1>1 DEF vars, rbac, history, TypeOK
<1>2. CASE People
    BY <1>2, PeopleType
<1>3. ASSUME NEW r \in Runs, Start(r) \/ Fails(r) \/ RestrictStep(r) \/ Commit(r) \/ Sync(r)
      PROVE  TypeOK'
    BY <1>3, RunType, ApplyType, ReadBackType, SyncType DEF RestrictStep
<1>4. QED
    BY <1>1, <1>2, <1>3 DEF Next

\* Every variable keeps its type.
THEOREM RestrictTypeCorrect == Spec => []TypeOK
BY InitType, NextType, PTL DEF Spec

\* Whatever the inventory, what a plan is made of is uncontested, and whoever is
\* held back has a rival.
THEOREM PlansAreUncontested == Spec => []InventoryRight
<1>1. TypeOK => InventoryRight
    BY ListedRight DEF TypeOK, Inventories, Entries, InventoryRight
<1>2. QED
    BY <1>1, RestrictTypeCorrect, PTL

-----------------------------------------------------------------------------
(* How a step moves the commands: the one that takes it, and no other.      *)

Same(q) == /\ run'[q].pc = run[q].pc /\ run'[q].plan = run[q].plan
           /\ run'[q].due = run[q].due /\ run'[q].wrote = run[q].wrote

Reads(r) == \/ Start(r) \/ Fails(r) \/ List(r) \/ Inspect(r) \/ Confirm(r) \/ Commit(r)
            \/ GetRole(r) \/ GetBinding(r) \/ GetBaseline(r)
            \/ VerifyRole(r) \/ VerifyBinding(r) \/ VerifyBaseline(r) \/ Authorize(r)
Puts(r) == PutRole(r) \/ PutBinding(r) \/ PutBaseline(r)

LEMMA NextSplit ==
    ASSUME [Next]_vars
    PROVE  \/ UNCHANGED vars \/ People
           \/ \E r \in Runs : Reads(r) \/ Puts(r) \/ Sync(r)
BY DEF Next, RestrictStep, Reads, Puts

LEMMA ReadsOnly ==
    ASSUME TypeOK, NEW r \in Runs, Reads(r)
    PROVE  UNCHANGED <<baseline, role, binding, crossed, meddled, handmade>>
<1> USE DEF rbac, history
<1>1. CASE Start(r) \/ Fails(r) \/ List(r) \/ Confirm(r) \/ Commit(r)
    BY <1>1 DEF Start, Fails, List, Confirm, Commit
<1>2. CASE Inspect(r)
    BY <1>2 DEF Inspect, Inspects
<1>3. CASE GetRole(r) \/ GetBinding(r) \/ GetBaseline(r)
    BY <1>3 DEF GetRole, GetBinding, GetBaseline, Get
<1>4. CASE VerifyRole(r) \/ VerifyBinding(r) \/ VerifyBaseline(r) \/ Authorize(r)
    BY <1>4 DEF VerifyRole, VerifyBinding, VerifyBaseline, Verifies, Authorize
<1>5. QED
    BY <1>1, <1>2, <1>3, <1>4 DEF Reads

LEMMA OthersRead ==
    ASSUME TypeOK, NEW r \in Runs, Reads(r), NEW q \in Runs \ {r}
    PROVE  run'[q] = run[q]
<1> USE DEF TypeOK, Goes
<1>1. CASE Start(r) \/ Fails(r) \/ List(r) \/ Confirm(r) \/ Commit(r)
    BY <1>1 DEF Start, Fails, List, Confirm, Commit
<1>2. CASE Inspect(r)
    BY <1>2 DEF Inspect, Inspects
<1>3. CASE GetRole(r) \/ GetBinding(r) \/ GetBaseline(r)
    BY <1>3 DEF GetRole, GetBinding, GetBaseline, Get
<1>4. CASE VerifyRole(r) \/ VerifyBinding(r) \/ VerifyBaseline(r) \/ Authorize(r)
    BY <1>4 DEF VerifyRole, VerifyBinding, VerifyBaseline, Verifies, Authorize
<1>5. QED
    BY <1>1, <1>2, <1>3, <1>4 DEF Reads

Keeps(r) == run'[r].plan = run[r].plan /\ run'[r].due = run[r].due /\ run'[r].wrote = run[r].wrote
From(r, pc, pcs) == run[r].pc = pc /\ run'[r].pc \in pcs /\ Keeps(r)

\* Which call follows which, where nothing is written.
InspectMove(r) ==
    \/ From(r, "inspect baseline", {"inspect role"}) /\ BaselineExpected
    \/ From(r, "inspect role", {"inspect binding"}) /\ RoleExpected
    \/ From(r, "inspect binding", {"printed", "previewed", "confirm"}) /\ BindingExpected
    \/ From(r, "inspect baseline again", {"inspect role again"}) /\ BaselineExpected
    \/ From(r, "inspect role again", {"inspect binding again"}) /\ RoleExpected
    \/ From(r, "inspect binding again", {"get role"}) /\ BindingExpected
    \/ \E pc \in Inspecting \cup Applying : From(r, pc, {"refused"})

GetMove(r) ==
    \/ From(r, "get role", {"create role", "update role"})
    \/ From(r, "get binding", {"create binding", "update binding"})
    \/ From(r, "get baseline", {"update baseline"})

VerifyMove(r) ==
    \/ From(r, "verify role", {"verify binding"}) /\ role = RestrictedRole(r)
    \/ From(r, "verify binding", {"verify baseline"}) /\ binding = "ours"
    \/ From(r, "verify baseline", {"authorize"}) /\ baseline = "create"
    \/ From(r, "authorize", {"authorize", "done"})
    \/ \E pc \in Verifying : From(r, pc, {"failed"})

ListMove(r) == /\ run[r].pc = "list" /\ run'[r].pc \in {"inspect baseline", "refused"}
               /\ run'[r].wrote = run[r].wrote /\ run'[r].due = run[r].due
CommitMove(r) == /\ run[r].pc = "printed" /\ run'[r].pc = "sync" /\ run'[r].due = Objects
                 /\ run'[r].plan = run[r].plan /\ run'[r].wrote = run[r].wrote

LEMMA GoesMoves ==
    ASSUME TypeOK, NEW r \in Runs, NEW pc, Goes(r, pc)
    PROVE  run'[r].pc = pc /\ Keeps(r)
<1>1. run[r] \in Run /\ run'[r] = [run[r] EXCEPT !.pc = pc]
    BY DEF TypeOK, Goes
<1>2. QED
    BY <1>1 DEF Keeps, Run

LEMMA ReadMoves ==
    ASSUME TypeOK, NEW r \in Runs, Reads(r)
    PROVE  \/ From(r, "idle", {"list"})
           \/ run[r].pc \in Working /\ run'[r].pc = "failed" /\ Keeps(r)
           \/ ListMove(r) \/ InspectMove(r) \/ GetMove(r) \/ VerifyMove(r) \/ CommitMove(r)
           \/ From(r, "confirm", {"inspect baseline again", "refused"})
<1>0. run[r] \in Run
    BY DEF TypeOK
<1>1. CASE Start(r)
    <2>1. PICK mode : run' = [run EXCEPT ![r].pc = "list", ![r].mode = mode]
        BY <1>1 DEF Start
    <2>2. run'[r] = [run[r] EXCEPT !.pc = "list", !.mode = mode]
        BY <2>1 DEF TypeOK
    <2>3. run'[r].pc = "list" /\ Keeps(r)
        BY <1>0, <2>2 DEF Run, Keeps
    <2>4. QED
        BY <1>1, <2>3 DEF Start, At, From
<1>2. CASE Fails(r)
    BY <1>2, GoesMoves DEF Fails
<1>3. CASE List(r)
    <2>1. CASE Goes(r, "refused")
        BY <1>3, <2>1, GoesMoves DEF List, At, ListMove, Keeps
    <2>2. CASE \E plan : run' = [run EXCEPT ![r].pc = "inspect baseline", ![r].plan = plan]
        <3>1. PICK plan : run' = [run EXCEPT ![r].pc = "inspect baseline", ![r].plan = plan]
            BY <2>2
        <3>2. run'[r] = [run[r] EXCEPT !.pc = "inspect baseline", !.plan = plan]
            BY <3>1 DEF TypeOK
        <3>3. /\ run'[r].pc = "inspect baseline"
              /\ run'[r].wrote = run[r].wrote /\ run'[r].due = run[r].due
            BY <1>0, <3>2 DEF Run
        <3>4. QED
            BY <1>3, <3>3 DEF List, At, ListMove
    <2>3. QED
        BY <1>3, <2>1, <2>2 DEF List
<1>4. CASE Inspect(r)
    <2>1. ASSUME NEW at \in Inspecting \cup Applying, NEW expected, NEW next,
                 Inspects(r, at, expected, next)
          PROVE  \/ From(r, at, {next}) /\ expected
                 \/ From(r, at, {"refused"})
        BY <2>1, GoesMoves DEF Inspects, At, From
    <2>2. Onward(r) \in {"printed", "previewed", "confirm"}
        BY DEF Onward
    <2>3. CASE Inspects(r, "inspect binding", BindingExpected, Onward(r))
        <3>1. (From(r, "inspect binding", {Onward(r)}) /\ BindingExpected)
              \/ From(r, "inspect binding", {"refused"})
            BY <2>1, <2>3 DEF Inspecting
        <3>2. From(r, "inspect binding", {Onward(r)})
                  => From(r, "inspect binding", {"printed", "previewed", "confirm"})
            BY <2>2 DEF From
        <3>3. QED
            BY <3>1, <3>2 DEF InspectMove, Inspecting
    <2>4. CASE \/ Inspects(r, "inspect baseline", BaselineExpected, "inspect role")
               \/ Inspects(r, "inspect role", RoleExpected, "inspect binding")
        BY <2>1, <2>4 DEF InspectMove, Inspecting
    <2>5. CASE \/ Inspects(r, "inspect baseline again", BaselineExpected, "inspect role again")
               \/ Inspects(r, "inspect role again", RoleExpected, "inspect binding again")
               \/ Inspects(r, "inspect binding again", BindingExpected, "get role")
        BY <2>1, <2>5 DEF InspectMove, Applying
    <2>6. QED
        BY <1>4, <2>3, <2>4, <2>5 DEF Inspect
<1>5. CASE Confirm(r)
    BY <1>5, GoesMoves DEF Confirm, At, From
<1>6. CASE Commit(r)
    <2>1. run'[r] = [run[r] EXCEPT !.pc = "sync", !.due = Objects]
        BY <1>6 DEF Commit, TypeOK
    <2>2. /\ run'[r].pc = "sync" /\ run'[r].due = Objects
          /\ run'[r].plan = run[r].plan /\ run'[r].wrote = run[r].wrote
        BY <1>0, <2>1 DEF Run
    <2>3. QED
        BY <1>6, <2>2 DEF Commit, At, CommitMove
<1>7. CASE GetRole(r) \/ GetBinding(r) \/ GetBaseline(r)
    <2>1. ASSUME NEW at, NEW there, NEW create, NEW update, Get(r, at, there, create, update)
          PROVE  From(r, at, {create, update})
        <3>1. run'[r] = [run[r] EXCEPT !.pc = IF there THEN update ELSE create, !.fresh = TRUE]
            BY <2>1 DEF Get, TypeOK
        <3>2. run'[r].pc = (IF there THEN update ELSE create) /\ Keeps(r)
            BY <1>0, <3>1 DEF Run, Keeps
        <3>3. QED
            BY <2>1, <3>2 DEF Get, At, From
    <2>2. QED
        BY <1>7, <2>1 DEF GetRole, GetBinding, GetBaseline, GetMove, From
<1>8. CASE VerifyRole(r) \/ VerifyBinding(r) \/ VerifyBaseline(r)
    <2>1. ASSUME NEW at \in Verifying, NEW intended, NEW next, Verifies(r, at, intended, next)
          PROVE  (From(r, at, {next}) /\ intended) \/ From(r, at, {"failed"})
        <3>1. run'[r] = [run[r] EXCEPT !.pc = IF intended THEN next ELSE "failed", !.left = run[r].plan]
            BY <2>1 DEF Verifies, TypeOK
        <3>2. run'[r].pc = (IF intended THEN next ELSE "failed") /\ Keeps(r)
            BY <1>0, <3>1 DEF Run, Keeps
        <3>3. QED
            BY <2>1, <3>2 DEF Verifies, At, From
    <2>2. QED
        BY <1>8, <2>1 DEF VerifyRole, VerifyBinding, VerifyBaseline, VerifyMove, Verifying
<1>9. CASE Authorize(r)
    <2>1. CASE Goes(r, "done") \/ Goes(r, "failed")
        BY <1>9, <2>1, GoesMoves DEF Authorize, At, VerifyMove, From, Verifying
    <2>2. CASE \E left : run' = [run EXCEPT ![r].left = left]
        <3>1. PICK left : run' = [run EXCEPT ![r].left = left]
            BY <2>2
        <3>2. run'[r] = [run[r] EXCEPT !.left = left]
            BY <3>1 DEF TypeOK
        <3>3. QED
            BY <1>0, <1>9, <3>2 DEF Authorize, At, VerifyMove, From, Keeps, Run
    <2>3. QED
        BY <1>9, <2>1, <2>2 DEF Authorize
<1>10. QED
    BY <1>1, <1>2, <1>3, <1>4, <1>5, <1>6, <1>7, <1>8, <1>9 DEF Reads

\* A call that writes: it is carried out and the command goes on, or refused and
\* the command has failed.
PutDone(r, from, object, to) ==
    /\ run[r].pc \in from /\ WritesOn(r, to)
    /\ role' = IF object = "role" THEN RestrictedRole(r) ELSE role
    /\ binding' = IF object = "binding" THEN "ours" ELSE binding
    /\ baseline' = IF object = "baseline" THEN "create" ELSE baseline

LEMMA PutShape ==
    ASSUME TypeOK, NEW r \in Runs, Puts(r)
    PROVE  \/ PutDone(r, {"create role", "update role"}, "role", "get binding")
           \/ /\ PutDone(r, {"create binding", "update binding"}, "binding", "get baseline")
              /\ binding # "foreign"
           \/ PutDone(r, {"update baseline"}, "baseline", "verify role")
           \/ /\ Goes(r, "failed")
              /\ UNCHANGED <<baseline, role, binding, crossed, meddled, handmade>>
<1>1. CASE PutRole(r)
    BY <1>1 DEF PutRole, WriteRole, Refused, At, PutDone, WritesOn, rbac, history
<1>2. CASE PutBinding(r)
    BY <1>2 DEF PutBinding, WriteBinding, Refused, At, PutDone, WritesOn, rbac, history
<1>3. CASE PutBaseline(r)
    BY <1>3 DEF PutBaseline, Refused, At, PutDone, WritesOn, rbac, history
<1>4. QED
    BY <1>1, <1>2, <1>3 DEF Puts

LEMMA WritesOnMoves ==
    ASSUME TypeOK, NEW r \in Runs, NEW pc \in PCs, WritesOn(r, pc)
    PROVE  /\ run'[r].pc = pc /\ run'[r].plan = run[r].plan /\ run'[r].due = run[r].due
           /\ \A q \in Runs \ {r} : Same(q)
<1> DEFINE runs == [run EXCEPT ![r].pc = pc, ![r].wrote = TRUE]
<1>1. runs \in [Runs -> Run]
    BY FieldTypes DEF TypeOK
<1>2. /\ runs[r].pc = pc /\ runs[r].plan = run[r].plan /\ runs[r].due = run[r].due
      /\ \A q \in Runs \ {r} : runs[q] = run[q]
    BY DEF TypeOK, Run
<1>3. run' = Stale(runs)
    BY DEF WritesOn
<1> HIDE DEF runs
<1>4. QED
    BY <1>1, <1>2, <1>3, StaleKeeps DEF Same

LEMMA SyncMoves ==
    ASSUME TypeOK, NEW r \in Runs, NEW object \in run[r].due, SyncsOne(r, object)
    PROVE  /\ run'[r].plan = run[r].plan /\ run'[r].due = run[r].due \ {object}
           /\ run'[r].wrote = run[r].wrote
           /\ run'[r].pc = IF object = "binding" /\ binding = "foreign" THEN "failed"
                           ELSE IF run[r].due \ {object} = {} THEN "synced" ELSE "sync"
           /\ \A q \in Runs \ {r} : Same(q)
<1> DEFINE due == run[r].due \ {object}
           pc == IF object = "binding" /\ binding = "foreign" THEN "failed"
                 ELSE IF due = {} THEN "synced" ELSE "sync"
           runs == [run EXCEPT ![r].due = due, ![r].pc = pc]
<1>1. run[r].plan \subseteq Secrets /\ due \in SUBSET Objects /\ pc \in PCs
    BY DEF TypeOK, Run, PCs, Over
<1>2. run' = Stale(runs)
    BY DEF SyncsOne
<1> HIDE DEF due, pc
<1>3. [run[r] EXCEPT !.due = due, !.pc = pc] \in Run
    BY <1>1, FieldTypes DEF TypeOK
<1>4. runs \in [Runs -> Run]
    BY <1>3 DEF TypeOK
<1>5. /\ runs[r].pc = pc /\ runs[r].plan = run[r].plan /\ runs[r].due = due
      /\ runs[r].wrote = run[r].wrote
      /\ \A q \in Runs \ {r} : runs[q] = run[q]
    BY DEF TypeOK, Run
<1> HIDE DEF runs
<1>6. QED
    BY <1>2, <1>4, <1>5, StaleKeeps DEF Same, due, pc

LEMMA PeopleMove ==
    ASSUME TypeOK, People
    PROVE  /\ \A q \in Runs : Same(q)
           /\ \/ UNCHANGED <<baseline, role, binding, crossed, meddled, handmade>>
              \/ EditRBAC
<1>1. CASE EditInventory
    BY <1>1 DEF EditInventory, Same, rbac, history
<1>2. CASE EditRBAC
    BY <1>2, StaleKeeps DEF EditRBAC, Same, TypeOK
<1>3. QED
    BY <1>1, <1>2 DEF People

-----------------------------------------------------------------------------
(* What a command that says it is done has read back stays so, or somebody  *)
(* who changed it is known to have meddled.                                 *)

ReadBackStands(r) ==
    r \notin meddled =>
        /\ run[r].pc \in {"verify binding", "verify baseline", "authorize", "done"} =>
               role = RestrictedRole(r)
        /\ run[r].pc \in {"verify baseline", "authorize", "done"} => binding = "ours"
        /\ run[r].pc \in {"authorize", "done"} => baseline = "create"
ReadBackInv == \A r \in Runs : ReadBackStands(r)

\* It stands for whoever does not move while what changed is told.
LEMMA ReadBackSame ==
    ASSUME NEW q \in Runs, Same(q), ReadBackStands(q),
           \/ UNCHANGED <<baseline, role, binding, meddled>>
           \/ meddled' = meddled \cup Meddles
    PROVE  ReadBackStands(q)'
<1>1. RestrictedRole(q)' = RestrictedRole(q)
    BY DEF Same, RestrictedRole
<1>2. CASE UNCHANGED <<baseline, role, binding, meddled>>
    BY <1>1, <1>2 DEF ReadBackStands, Same
<1>3. CASE meddled' = meddled \cup Meddles
    <2> SUFFICES ASSUME q \notin meddled, q \notin Meddles PROVE ReadBackStands(q)'
        BY <1>3 DEF ReadBackStands
    <2>1. \A object \in Changed : ~ReadBack(q, object)
        BY DEF Meddles
    <2>2. run[q].pc \in {"verify binding", "verify baseline", "authorize", "done"} => role' = role
        BY <2>1 DEF Changed, ReadBack
    <2>3. run[q].pc \in {"verify baseline", "authorize", "done"} => binding' = binding
        BY <2>1 DEF Changed, ReadBack
    <2>4. run[q].pc \in {"authorize", "done"} => baseline' = baseline
        BY <2>1 DEF Changed, ReadBack
    <2>5. QED
        BY <1>1, <2>2, <2>3, <2>4 DEF ReadBackStands, Same
<1>4. QED
    BY <1>2, <1>3

\* Who has just read an object back.
LEMMA ReadBackOwn ==
    ASSUME TypeOK, NEW r \in Runs, Reads(r), ReadBackStands(r)
    PROVE  ReadBackStands(r)'
<1>1. UNCHANGED <<baseline, role, binding, meddled>>
    BY ReadsOnly
<1>2. CASE run'[r].pc \notin {"verify binding", "verify baseline", "authorize", "done"}
    BY <1>2 DEF ReadBackStands
<1>3. CASE VerifyMove(r)
    <2>1. RestrictedRole(r)' = RestrictedRole(r)
        BY <1>3 DEF VerifyMove, From, Keeps, RestrictedRole
    <2>2. QED
        BY <1>1, <1>3, <2>1 DEF ReadBackStands, VerifyMove, From
<1>4. QED
    BY <1>2, <1>3, ReadMoves DEF From, ListMove, InspectMove, GetMove, CommitMove

LEMMA ReadBackStep == TypeOK /\ ReadBackInv /\ [Next]_vars => ReadBackInv'
<1> SUFFICES ASSUME TypeOK, ReadBackInv, [Next]_vars PROVE ReadBackInv'
    OBVIOUS
<1>1. CASE UNCHANGED vars
    BY <1>1, ReadBackSame DEF vars, rbac, history, ReadBackInv, Same
<1>2. CASE People
    <2>1. UNCHANGED <<baseline, role, binding, meddled>> \/ meddled' = meddled \cup Meddles
        BY <1>2, PeopleMove DEF EditRBAC
    <2>2. QED
        BY <1>2, <2>1, PeopleMove, ReadBackSame DEF ReadBackInv
<1>3. ASSUME NEW r \in Runs, Reads(r) PROVE ReadBackInv'
    <2>1. UNCHANGED <<baseline, role, binding, meddled>> /\ \A q \in Runs \ {r} : Same(q)
        BY <1>3, ReadsOnly, OthersRead DEF Same
    <2>2. QED
        BY <1>3, <2>1, ReadBackSame, ReadBackOwn DEF ReadBackInv
<1>4. ASSUME NEW r \in Runs, Puts(r) PROVE ReadBackInv'
    <2>1. ASSUME NEW from, NEW object, NEW to \in PCs, PutDone(r, from, object, to),
                 to \notin {"verify binding", "verify baseline", "authorize", "done"}
          PROVE  ReadBackInv'
        <3>1. run'[r].pc = to /\ \A q \in Runs \ {r} : Same(q)
            BY <2>1, WritesOnMoves DEF PutDone
        <3>2. meddled' = meddled \cup Meddles
            BY <2>1 DEF PutDone, WritesOn, Written
        <3>3. ReadBackStands(r)'
            BY <2>1, <3>1 DEF ReadBackStands
        <3>4. QED
            BY <3>1, <3>2, <3>3, ReadBackSame DEF ReadBackInv
    <2>2. CASE /\ Goes(r, "failed")
               /\ UNCHANGED <<baseline, role, binding, crossed, meddled, handmade>>
        <3>1. run'[r].pc = "failed" /\ \A q \in Runs \ {r} : Same(q)
            BY <2>2 DEF Goes, TypeOK, Run, Same
        <3>2. QED
            BY <2>2, <3>1, ReadBackSame DEF ReadBackInv, ReadBackStands
    <2>3. /\ {"get binding", "get baseline", "verify role"} \subseteq PCs
          /\ "get binding" \notin {"verify binding", "verify baseline", "authorize", "done"}
          /\ "get baseline" \notin {"verify binding", "verify baseline", "authorize", "done"}
          /\ "verify role" \notin {"verify binding", "verify baseline", "authorize", "done"}
        BY DEF PCs, Working, Writing, Verifying
    <2>4. QED
        BY <1>4, <2>1, <2>2, <2>3, PutShape
<1>5. ASSUME NEW r \in Runs, Sync(r) PROVE ReadBackInv'
    <2>1. PICK object \in run[r].due : SyncsOne(r, object)
        BY <1>5, SyncIsOne
    <2>2. /\ run'[r].pc \in {"failed", "synced", "sync"}
          /\ \A q \in Runs \ {r} : Same(q)
        BY <2>1, SyncMoves
    <2>3. meddled' = meddled \cup Meddles
        BY <1>5 DEF Sync, Written
    <2>4. ReadBackStands(r)'
        BY <2>2 DEF ReadBackStands
    <2>5. QED
        BY <2>2, <2>3, <2>4, ReadBackSame DEF ReadBackInv
<1>6. QED
    BY <1>1, <1>2, <1>3, <1>4, <1>5, NextSplit

\* A command that says that patch access is restricted to the listed names is
\* right, whatever was done before it read the objects back.
THEOREM DoneIsNarrow == Spec => []SuccessIsNarrow
<1>1. Init => ReadBackInv
    <2> SUFFICES ASSUME Init, NEW r \in Runs PROVE ReadBackStands(r)
        BY DEF ReadBackInv
    <2>1. run[r].pc = "idle"
        BY DEF Init, NoRun
    <2>2. QED
        BY <2>1 DEF ReadBackStands
<1>2. TypeOK /\ ReadBackInv => SuccessIsNarrow
    <2> SUFFICES ASSUME TypeOK, ReadBackInv, NEW r \in Runs, run[r].pc = "done", r \notin meddled
                 PROVE  {s \in Secrets : MayPatch(s)} = run[r].plan
        BY DEF SuccessIsNarrow
    <2>1. role = RestrictedRole(r) /\ binding = "ours" /\ baseline = "create"
        BY DEF ReadBackInv, ReadBackStands
    <2>2. run[r].plan \subseteq Secrets
        BY DEF TypeOK, Run
    <2>3. QED
        BY <2>1, <2>2 DEF MayPatch, RestrictedRole
<1>3. QED
    BY <1>1, <1>2, ReadBackStep, RestrictTypeCorrect, PTL DEF Spec

-----------------------------------------------------------------------------
(* A command that has not written yet, refused and previewed ones included. *)

Early == {"idle", "list", "confirm", "refused", "previewed", "printed"}
         \cup Inspecting \cup Applying
Unwritten(r) == run[r].pc \in Early => ~run[r].wrote
UnwrittenInv == \A r \in Runs : Unwritten(r)

LEMMA UnwrittenStep == TypeOK /\ UnwrittenInv /\ [Next]_vars => UnwrittenInv'
<1> SUFFICES ASSUME TypeOK, UnwrittenInv, [Next]_vars PROVE UnwrittenInv'
    OBVIOUS
<1> USE DEF UnwrittenInv
<1>0. ASSUME NEW q \in Runs, Same(q) PROVE Unwritten(q)'
    BY <1>0 DEF Unwritten, Same
<1>1. CASE UNCHANGED vars
    BY <1>1 DEF vars, Unwritten
<1>2. CASE People
    BY <1>0, <1>2, PeopleMove
<1>3. ASSUME NEW r \in Runs, Reads(r) PROVE UnwrittenInv'
    <2>1. \A q \in Runs \ {r} : Same(q)
        BY <1>3, OthersRead DEF Same
    <2>2. run'[r].pc \in Early => run[r].pc \in Early /\ run'[r].wrote = run[r].wrote
        <3>1. CASE ListMove(r) \/ InspectMove(r)
            BY <3>1 DEF ListMove, InspectMove, From, Keeps, Early, Inspecting, Applying
        <3>2. CASE GetMove(r) \/ VerifyMove(r) \/ CommitMove(r)
            BY <3>2 DEF GetMove, VerifyMove, CommitMove, From, Keeps, Early, Inspecting, Applying
        <3>3. CASE \/ From(r, "idle", {"list"}) \/ run'[r].pc = "failed"
                   \/ From(r, "confirm", {"inspect baseline again", "refused"})
            BY <3>3 DEF From, Keeps, Early, Inspecting, Applying
        <3>4. QED
            BY <1>3, <3>1, <3>2, <3>3, ReadMoves
    <2>3. QED
        BY <1>0, <2>1, <2>2 DEF Unwritten
<1>4. ASSUME NEW r \in Runs, Puts(r) PROVE UnwrittenInv'
    <2>1. ASSUME NEW from, NEW object, NEW to \in PCs, PutDone(r, from, object, to), to \notin Early
          PROVE  UnwrittenInv'
        BY <1>0, <2>1, WritesOnMoves DEF PutDone, Unwritten
    <2>2. CASE Goes(r, "failed")
        <3>1. run'[r].pc = "failed" /\ \A q \in Runs \ {r} : Same(q)
            BY <2>2 DEF Goes, TypeOK, Run, Same
        <3>2. QED
            BY <1>0, <3>1 DEF Unwritten, Early, Inspecting, Applying
    <2>3. /\ {"get binding", "get baseline", "verify role"} \subseteq PCs
          /\ "get binding" \notin Early /\ "get baseline" \notin Early /\ "verify role" \notin Early
        BY DEF PCs, Working, Writing, Verifying, Early, Inspecting, Applying
    <2>4. QED
        BY <1>4, <2>1, <2>2, <2>3, PutShape
<1>5. ASSUME NEW r \in Runs, Sync(r) PROVE UnwrittenInv'
    <2>1. PICK object \in run[r].due : SyncsOne(r, object)
        BY <1>5, SyncIsOne
    <2>2. run'[r].pc \in {"failed", "synced", "sync"} /\ \A q \in Runs \ {r} : Same(q)
        BY <2>1, SyncMoves
    <2>3. QED
        BY <1>0, <2>2 DEF Unwritten, Early, Inspecting, Applying
<1>6. QED
    BY <1>1, <1>2, <1>3, <1>4, <1>5, NextSplit

\* A command that refuses, previews or prints has changed nothing, the refusals
\* of the second inspection included.
THEOREM RefusalsChangeNothing == Spec => []RefusedUntouched
<1>1. Init => UnwrittenInv
    <2> SUFFICES ASSUME Init, NEW r \in Runs PROVE Unwritten(r)
        BY DEF UnwrittenInv
    <2>1. run[r].wrote = FALSE
        BY DEF Init, NoRun
    <2>2. QED
        BY <2>1 DEF Unwritten
<1>2. UnwrittenInv => RefusedUntouched
    BY DEF UnwrittenInv, Unwritten, RefusedUntouched, Early
<1>3. QED
    BY <1>1, <1>2, UnwrittenStep, RestrictTypeCorrect, PTL DEF Spec

-----------------------------------------------------------------------------
(* The order of the writes.                                                 *)

Bound == {"get baseline", "update baseline"}
Allowed == {"get binding", "create binding", "update binding"} \cup Bound

\* While nobody crosses a command, the Role allows its names before the binding
\* is made, and the binding is there before the baseline is narrowed.
Prepared(r) ==
    r \notin crossed =>
        /\ run[r].pc \in Allowed \/ (run[r].pc = "sync" /\ "role" \notin run[r].due) =>
               run[r].plan \subseteq role.names
        /\ run[r].pc \in Bound \/ (run[r].pc = "sync" /\ "binding" \notin run[r].due) =>
               binding = "ours"
PreparedInv == \A r \in Runs : Prepared(r)

\* What a write by somebody else leaves to a command it does not cross.
LEMMA PreparedSame ==
    ASSUME NEW r \in Runs, NEW q \in Runs \ {r}, Same(q), Prepared(q), Written(r),
           role' \in {role, RestrictedRole(r)}, binding = "ours" => binding' = "ours"
    PROVE  Prepared(q)'
<1> SUFFICES ASSUME q \notin crossed, q \notin Crosses(r) PROVE Prepared(q)'
    BY DEF Written, Prepared
<1>1. Begun(q) => run[q].plan \subseteq run[r].plan
    BY DEF Crosses
<1>2. run[q].pc \in Allowed \cup {"sync"} => Begun(q)
    BY DEF Begun, Allowed, Bound
<1>3. run[q].pc \in Allowed \cup {"sync"} /\ run[q].plan \subseteq role.names
          => run[q].plan \subseteq role'.names
    BY <1>1, <1>2 DEF RestrictedRole
<1>4. QED
    BY <1>3 DEF Prepared, Same, Allowed

LEMMA PreparedStep == TypeOK /\ PreparedInv /\ [Next]_vars => PreparedInv'
<1> SUFFICES ASSUME TypeOK, PreparedInv, [Next]_vars PROVE PreparedInv'
    OBVIOUS
<1> USE DEF PreparedInv
<1>0. ASSUME UNCHANGED <<role, binding, crossed>>, NEW q \in Runs, Same(q) PROVE Prepared(q)'
    BY <1>0 DEF Prepared, Same
<1>1. CASE UNCHANGED vars
    BY <1>0, <1>1 DEF vars, rbac, history, Same
<1>2. CASE People
    <2>1. CASE UNCHANGED <<baseline, role, binding, crossed, meddled, handmade>>
        BY <1>0, <1>2, <2>1, PeopleMove
    <2>2. CASE EditRBAC
        <3>1. ASSUME NEW q \in Runs PROVE Prepared(q)'
            <4>1. Begun(q) => q \in crossed'
                BY <2>2 DEF EditRBAC
            <4>2. run'[q].pc = run[q].pc
                BY <1>2, PeopleMove DEF Same
            <4>3. QED
                BY <4>1, <4>2 DEF Prepared, Begun, Allowed, Bound
        <3>2. QED
            BY <3>1
    <2>3. QED
        BY <1>2, <2>1, <2>2, PeopleMove
<1>3. ASSUME NEW r \in Runs, Reads(r) PROVE PreparedInv'
    <2>1. UNCHANGED <<role, binding, crossed>> /\ \A q \in Runs \ {r} : Same(q)
        BY <1>3, ReadsOnly, OthersRead DEF Same
    <2>2. Prepared(r)'
        <3>1. CASE GetMove(r) \/ CommitMove(r)
            BY <2>1, <3>1
               DEF GetMove, CommitMove, From, Keeps, Prepared, Allowed, Bound, Objects
        <3>2. CASE run'[r].pc \notin Allowed \cup {"sync"}
            BY <3>2 DEF Prepared, Allowed
        <3>3. CASE ListMove(r) \/ InspectMove(r)
            BY <3>2, <3>3 DEF ListMove, InspectMove, From, Allowed, Bound
        <3>4. CASE VerifyMove(r)
            BY <3>2, <3>4 DEF VerifyMove, From, Allowed, Bound
        <3>5. CASE \/ From(r, "idle", {"list"}) \/ run'[r].pc = "failed"
                   \/ From(r, "confirm", {"inspect baseline again", "refused"})
            BY <3>2, <3>5 DEF From, Allowed, Bound
        <3>6. QED
            BY <1>3, <3>1, <3>3, <3>4, <3>5, ReadMoves
    <2>3. QED
        BY <1>0, <2>1, <2>2
<1>4. ASSUME NEW r \in Runs, Puts(r) PROVE PreparedInv'
    <2>1. ASSUME NEW from, NEW object, NEW to \in PCs, PutDone(r, from, object, to)
          PROVE  /\ run'[r].pc = to /\ run'[r].plan = run[r].plan
                 /\ \A q \in Runs \ {r} : Prepared(q)'
        <3>1. /\ run'[r].pc = to /\ run'[r].plan = run[r].plan
              /\ \A q \in Runs \ {r} : Same(q)
            BY <2>1, WritesOnMoves DEF PutDone
        <3>2. /\ Written(r) /\ role' \in {role, RestrictedRole(r)}
              /\ binding = "ours" => binding' = "ours"
            BY <2>1 DEF PutDone, WritesOn
        <3>3. QED
            BY <3>1, <3>2, PreparedSame
    <2>2. {"get binding", "get baseline", "verify role"} \subseteq PCs
        BY DEF PCs, Working, Writing, Verifying
    <2>3. CASE PutDone(r, {"create role", "update role"}, "role", "get binding")
        <3>1. run'[r].plan \subseteq role'.names /\ run'[r].pc = "get binding"
            BY <2>1, <2>2, <2>3 DEF PutDone, RestrictedRole
        <3>2. Prepared(r)'
            BY <3>1 DEF Prepared, Bound
        <3>3. QED
            BY <2>1, <2>2, <2>3, <3>2
    <2>4. CASE PutDone(r, {"create binding", "update binding"}, "binding", "get baseline")
        <3>1. /\ run[r].pc \in Allowed /\ run'[r].pc = "get baseline"
              /\ run'[r].plan = run[r].plan /\ role' = role /\ binding' = "ours"
            BY <2>1, <2>2, <2>4 DEF PutDone, Allowed
        <3>2. crossed \subseteq crossed'
            BY <2>4 DEF PutDone, WritesOn, Written
        <3>3. Prepared(r)'
            BY <3>1, <3>2 DEF Prepared
        <3>4. QED
            BY <2>1, <2>2, <2>4, <3>3
    <2>5. CASE PutDone(r, {"update baseline"}, "baseline", "verify role")
        <3>1. Prepared(r)'
            BY <2>1, <2>2, <2>5 DEF Prepared, Allowed, Bound
        <3>2. QED
            BY <2>1, <2>2, <2>5, <3>1
    <2>6. CASE /\ Goes(r, "failed")
               /\ UNCHANGED <<baseline, role, binding, crossed, meddled, handmade>>
        <3>1. run'[r].pc = "failed" /\ \A q \in Runs \ {r} : Same(q)
            BY <2>6 DEF Goes, TypeOK, Run, Same
        <3>2. Prepared(r)'
            BY <3>1 DEF Prepared, Allowed, Bound
        <3>3. QED
            BY <1>0, <2>6, <3>1, <3>2
    <2>7. QED
        BY <1>4, <2>3, <2>4, <2>5, <2>6, PutShape
<1>5. ASSUME NEW r \in Runs, Sync(r) PROVE PreparedInv'
    <2>1. PICK object \in run[r].due : SyncsOne(r, object)
        BY <1>5, SyncIsOne
    <2>2. /\ run'[r].plan = run[r].plan /\ run'[r].due = run[r].due \ {object}
          /\ run'[r].pc = IF object = "binding" /\ binding = "foreign" THEN "failed"
                          ELSE IF run[r].due \ {object} = {} THEN "synced" ELSE "sync"
          /\ \A q \in Runs \ {r} : Same(q)
        BY <2>1, SyncMoves
    <2>3. /\ Written(r) /\ run[r].pc = "sync" /\ binding \in {"none", "ours", "foreign"}
          /\ role' = IF object = "role" THEN RestrictedRole(r) ELSE role
          /\ binding' = IF object = "binding" /\ binding = "none" THEN "ours" ELSE binding
        BY <1>5, <2>1 DEF Sync, At, SyncsOne, TypeOK
    <2>4. \A q \in Runs \ {r} : Prepared(q)'
        BY <2>2, <2>3, PreparedSame
    <2>5. Prepared(r)'
        <3>1. CASE run'[r].pc # "sync"
            BY <2>2, <3>1 DEF Prepared, Allowed, Bound
        <3>2. CASE run'[r].pc = "sync" /\ r \notin crossed'
            <4>1. r \notin crossed /\ ~(object = "binding" /\ binding = "foreign")
                BY <2>2, <2>3, <3>2 DEF Written
            <4>2. "role" \notin run'[r].due => run'[r].plan \subseteq role'.names
                BY <2>2, <2>3, <4>1 DEF Prepared, RestrictedRole
            <4>3. "binding" \notin run'[r].due => binding' = "ours"
                BY <2>2, <2>3, <4>1 DEF Prepared
            <4>4. QED
                BY <3>2, <4>2, <4>3 DEF Prepared, Allowed, Bound
        <3>3. QED
            BY <3>1, <3>2 DEF Prepared
    <2>6. QED
        BY <2>4, <2>5
<1>6. QED
    BY <1>1, <1>2, <1>3, <1>4, <1>5, NextSplit

\* Only who moves has its call or its list changed.
LEMMA MovesAlone ==
    ASSUME TypeOK, [Next]_vars, NEW r \in Runs, run'[r].pc # run[r].pc \/ run'[r].due # run[r].due
    PROVE  Reads(r) \/ Puts(r) \/ Sync(r)
<1>1. ~Same(r)
    BY DEF Same
<1>2. ~UNCHANGED vars
    BY DEF vars
<1>3. ~People
    BY <1>1, PeopleMove
<1>4. ASSUME NEW q \in Runs \ {r}, Reads(q) \/ Sync(q) PROVE Same(r)
    BY <1>4, OthersRead, SyncIsOne, SyncMoves DEF Same
<1>5. ASSUME NEW q \in Runs \ {r}, Puts(q) PROVE Same(r)
    <2>1. ASSUME NEW from, NEW object, NEW to \in PCs, PutDone(q, from, object, to) PROVE Same(r)
        BY <2>1, WritesOnMoves DEF PutDone
    <2>2. CASE Goes(q, "failed")
        BY <2>2 DEF Goes, Same, TypeOK
    <2>3. {"get binding", "get baseline", "verify role"} \subseteq PCs
        BY DEF PCs, Working, Writing, Verifying
    <2>4. QED
        BY <1>5, <2>1, <2>2, <2>3, PutShape
<1>6. QED
    BY <1>1, <1>2, <1>3, <1>4, <1>5, NextSplit

LEMMA NoGapStep ==
    ASSUME TypeOK, PreparedInv, [Next]_vars, NEW r \in Runs,
           run'[r].pc # run[r].pc \/ run'[r].due # run[r].due,
           r \notin crossed, NEW s \in run[r].plan, MayPatch(s)
    PROVE  MayPatch(s)'
<1>1. Prepared(r)
    BY DEF PreparedInv
<1>2. CASE Reads(r)
    BY <1>2, ReadsOnly DEF MayPatch
<1>3. CASE Puts(r)
    <2>1. CASE PutDone(r, {"create role", "update role"}, "role", "get binding")
        BY <2>1 DEF PutDone, MayPatch, RestrictedRole
    <2>2. CASE PutDone(r, {"create binding", "update binding"}, "binding", "get baseline")
        BY <2>2 DEF PutDone, MayPatch
    <2>3. CASE PutDone(r, {"update baseline"}, "baseline", "verify role")
        <3>1. run[r].plan \subseteq role.names /\ binding = "ours"
            BY <1>1, <2>3 DEF PutDone, Prepared, Allowed, Bound
        <3>2. role' = role /\ binding' = binding
            BY <2>3 DEF PutDone
        <3>3. QED
            BY <3>1, <3>2 DEF MayPatch
    <2>4. CASE UNCHANGED <<baseline, role, binding, crossed, meddled, handmade>>
        BY <2>4 DEF MayPatch
    <2>5. QED
        BY <1>3, <2>1, <2>2, <2>3, <2>4, PutShape
<1>4. CASE Sync(r)
    <2>1. PICK object \in run[r].due : /\ \A other \in run[r].due : Wave(object) <= Wave(other)
                                      /\ SyncsOne(r, object)
        BY <1>4, SyncIsOne
    <2>2. object \in Objects
        BY DEF TypeOK, Run
    <2>3. CASE object = "role"
        BY <2>1, <2>3 DEF SyncsOne, MayPatch, RestrictedRole
    <2>4. CASE object = "binding"
        BY <2>1, <2>4 DEF SyncsOne, MayPatch
    <2>5. CASE object = "baseline"
        <3>1. "role" \notin run[r].due /\ "binding" \notin run[r].due
            BY <2>1, <2>5 DEF Wave
        <3>2. run[r].plan \subseteq role.names /\ binding = "ours"
            BY <1>1, <1>4, <3>1 DEF Prepared, Sync, At
        <3>3. role' = role /\ binding' = binding
            BY <2>1, <2>5 DEF SyncsOne
        <3>4. QED
            BY <3>2, <3>3 DEF MayPatch
    <2>6. QED
        BY <2>2, <2>3, <2>4, <2>5 DEF Objects
<1>5. QED
    BY <1>2, <1>3, <1>4, MovesAlone

\* "Activation is ordered to avoid a reconciliation gap": no step of a command, or
\* of a sync of what it printed, takes a name of its allowlist from the daemon.
THEOREM ActivationHasNoGap == Spec => NoGap
<1>1. Init => PreparedInv
    <2> SUFFICES ASSUME Init, NEW r \in Runs PROVE Prepared(r)
        BY DEF PreparedInv
    <2>1. run[r].pc = "idle"
        BY DEF Init, NoRun
    <2>2. QED
        BY <2>1 DEF Prepared, Allowed, Bound
<1>2. TypeOK /\ PreparedInv /\ [Next]_vars =>
          [\A r \in Runs : run'[r].pc # run[r].pc \/ run'[r].due # run[r].due =>
              r \in crossed \/ \A s \in run[r].plan : MayPatch(s) => MayPatch(s)']_vars
    BY NoGapStep
<1>3. QED
    BY <1>1, <1>2, PreparedStep, RestrictTypeCorrect, PTL DEF Spec, NoGap

-----------------------------------------------------------------------------
(* What a command has looked at before it writes.                           *)

\* It was the tool's own or the chart's, unless people have changed it since.
Seen(r) ==
    /\ run[r].pc \in {"inspect role again", "inspect binding again"} \cup Writing =>
           "baseline" \in handmade \/ baseline # "foreign"
    /\ run[r].pc \in {"inspect binding again"} \cup Writing =>
           "role" \in handmade \/ role = NoRole \/ role.owned
    /\ run[r].pc \in Writing => "binding" \in handmade \/ binding # "foreign"
SeenInv == \A r \in Runs : Seen(r)

LEMMA SeenSame ==
    ASSUME NEW q \in Runs, Same(q), Seen(q), handmade \subseteq handmade',
           baseline' \in {baseline, "create"} \/ "baseline" \in handmade',
           role' = role \/ role'.owned \/ "role" \in handmade',
           binding' \in {binding, "ours"} \/ "binding" \in handmade'
    PROVE  Seen(q)'
BY DEF Seen, Same

LEMMA SeenStep == TypeOK /\ SeenInv /\ [Next]_vars => SeenInv'
<1> SUFFICES ASSUME TypeOK, SeenInv, [Next]_vars PROVE SeenInv'
    OBVIOUS
<1> USE DEF SeenInv
<1>1. CASE UNCHANGED vars
    BY <1>1, SeenSame DEF vars, rbac, history, Same
<1>2. CASE People
    <2>1. CASE UNCHANGED <<baseline, role, binding, crossed, meddled, handmade>>
        BY <1>2, <2>1, SeenSame, PeopleMove
    <2>2. CASE EditRBAC
        <3>1. ASSUME NEW q \in Runs, Begun(q) PROVE Seen(q)'
            <4>1. handmade' = handmade \cup Changed
                BY <2>2, <3>1 DEF EditRBAC
            <4>2. Same(q) /\ Seen(q)
                BY <1>2, PeopleMove
            <4>3. QED
                BY <4>1, <4>2, SeenSame DEF Changed
        <3>2. ASSUME NEW q \in Runs, ~Begun(q) PROVE Seen(q)'
            <4>1. run'[q].pc = "idle"
                BY <1>2, <3>2, PeopleMove DEF Same, Begun
            <4>2. QED
                BY <4>1 DEF Seen, Writing
        <3>3. QED
            BY <3>1, <3>2
    <2>3. QED
        BY <1>2, <2>1, <2>2, PeopleMove
<1>3. ASSUME NEW r \in Runs, Reads(r) PROVE SeenInv'
    <2>1. /\ UNCHANGED <<baseline, role, binding, handmade>>
          /\ \A q \in Runs \ {r} : Same(q)
        BY <1>3, ReadsOnly, OthersRead DEF Same
    <2>2. Seen(r)'
        <3>1. CASE InspectMove(r)
            BY <2>1, <3>1
               DEF InspectMove, From, Seen, Writing, Inspecting, Applying, BaselineExpected,
                   RoleExpected, BindingExpected
        <3>2. CASE GetMove(r)
            BY <2>1, <3>2 DEF GetMove, From, Seen, Writing
        <3>3. CASE ListMove(r) \/ CommitMove(r) \/ VerifyMove(r)
            BY <3>3 DEF ListMove, CommitMove, VerifyMove, From, Seen, Writing
        <3>4. CASE \/ From(r, "idle", {"list"}) \/ run'[r].pc = "failed"
                   \/ From(r, "confirm", {"inspect baseline again", "refused"})
            BY <3>4 DEF From, Seen, Writing
        <3>5. QED
            BY <1>3, <3>1, <3>2, <3>3, <3>4, ReadMoves
    <2>3. QED
        BY <2>1, <2>2, SeenSame
<1>4. ASSUME NEW r \in Runs, Puts(r) PROVE SeenInv'
    <2>1. ASSUME NEW from, NEW object, NEW to \in PCs, PutDone(r, from, object, to),
                 to \in {"get binding", "get baseline", "verify role"}, run[r].pc \in Writing
          PROVE  SeenInv'
        <3>1. run'[r].pc = to /\ \A q \in Runs \ {r} : Same(q)
            BY <2>1, WritesOnMoves DEF PutDone
        <3>2. /\ handmade' = handmade
              /\ baseline' \in {baseline, "create"} /\ binding' \in {binding, "ours"}
              /\ role' = role \/ role'.owned
            BY <2>1 DEF PutDone, WritesOn, RestrictedRole
        <3>3. Seen(r)'
            BY <2>1, <3>1, <3>2 DEF Seen, Writing
        <3>4. QED
            BY <3>1, <3>2, <3>3, SeenSame
    <2>2. CASE /\ Goes(r, "failed")
               /\ UNCHANGED <<baseline, role, binding, crossed, meddled, handmade>>
        <3>1. run'[r].pc = "failed" /\ \A q \in Runs \ {r} : Same(q)
            BY <2>2 DEF Goes, TypeOK, Run, Same
        <3>2. Seen(r)'
            BY <3>1 DEF Seen, Writing
        <3>3. QED
            BY <2>2, <3>1, <3>2, SeenSame
    <2>3. {"get binding", "get baseline", "verify role"} \subseteq PCs
        BY DEF PCs, Working, Writing, Verifying
    <2>4. run[r].pc \in Writing
        BY <1>4 DEF Puts, PutRole, PutBinding, PutBaseline, At, Writing
    <2>5. QED
        BY <1>4, <2>1, <2>2, <2>3, <2>4, PutShape
<1>5. ASSUME NEW r \in Runs, Sync(r) PROVE SeenInv'
    <2>1. PICK object \in run[r].due : SyncsOne(r, object)
        BY <1>5, SyncIsOne
    <2>2. run'[r].pc \in {"failed", "synced", "sync"} /\ \A q \in Runs \ {r} : Same(q)
        BY <2>1, SyncMoves
    <2>3. /\ handmade' = handmade
          /\ baseline' \in {baseline, "create"} /\ binding' \in {binding, "ours"}
          /\ role' = role \/ role'.owned
        BY <1>5, <2>1 DEF Sync, SyncsOne, RestrictedRole
    <2>4. Seen(r)'
        BY <2>2 DEF Seen, Writing
    <2>5. QED
        BY <2>2, <2>3, <2>4, SeenSame
<1>6. QED
    BY <1>1, <1>2, <1>3, <1>4, <1>5, NextSplit

\* What is not the tool's own is not overwritten by a command, if it was there
\* when the first of them began.
THEOREM ForeignIsKept == Spec => ForeignKept
<1>1. Init => SeenInv
    <2> SUFFICES ASSUME Init, NEW r \in Runs PROVE Seen(r)
        BY DEF SeenInv
    <2>1. run[r].pc = "idle"
        BY DEF Init, NoRun
    <2>2. QED
        BY <2>1 DEF Seen, Writing
<1>2. ASSUME TypeOK, SeenInv, [Next]_vars, NEW r \in Runs, run'[r].pc # run[r].pc, Overwrites(r)
      PROVE  Changed \cap handmade # {}
    <2>1. Seen(r) /\ run[r].pc \in Writing
        BY <1>2 DEF SeenInv, Overwrites
    <2>2. CASE baseline = "foreign" /\ baseline' # "foreign"
        BY <2>1, <2>2 DEF Seen, Changed
    <2>3. CASE role # NoRole /\ ~role.owned /\ role'.owned
        BY <2>1, <2>3 DEF Seen, Changed
    <2>4. CASE binding = "foreign" /\ binding' # "foreign"
        BY <2>1, <2>4 DEF Seen, Changed
    <2>5. QED
        BY <1>2, <2>2, <2>3, <2>4 DEF Overwrites
<1>3. TypeOK /\ SeenInv /\ [Next]_vars =>
          [\A r \in Runs : run'[r].pc # run[r].pc /\ Overwrites(r) =>
              Changed \cap handmade # {}]_vars
    BY <1>2
<1>4. QED
    BY <1>1, <1>3, SeenStep, RestrictTypeCorrect, PTL DEF Spec, ForeignKept
=============================================================================
