------------------------------ MODULE Hardening ------------------------------
(***************************************************************************)
(* `k2a-token-sync restrict-rbac` (executeRestriction, hardening.Apply), one *)
(* call to the API server at a time: several commands at once, with and     *)
(* without --print, --dry-run and confirmation, beside people who edit the   *)
(* inventory and the RBAC objects and upgrade the Helm release.             *)
(***************************************************************************)
EXTENDS Naturals, Inventory

CONSTANTS
    Conns,        \* the names a ClusterConnection can have
    Endpoints,    \* downstream clusters
    Secrets,      \* ArgoCD cluster Secrets
    MaxRuns,      \* bound: commands people give
    MaxEvents,    \* bound: what people do beside them
    MaxFaults     \* bound: calls that fail, commands killed

ASSUME HardeningAssumption ==
    MaxRuns \in Nat /\ MaxEvents \in Nat /\ MaxFaults \in Nat

Runs == 1..MaxRuns     \* in the order they are given

VARIABLES
    inventory,     \* the ClusterConnections, as decode reads them
    baseline,      \* the chart's Role in ArgoCD's namespace
    role, binding, \* the generated Role, and its binding to the daemon
    run,           \* the commands
    crossed,       \* history: commands whose work others undid while they ran
    meddled,       \* history: commands since whose verification others wrote RBAC
    handmade,      \* history: RBAC that people changed after a command first looked at it
    events, faults \* how much of each bound is used

rbac == <<baseline, role, binding>>
history == <<crossed, meddled, handmade>>
vars == <<inventory, rbac, run, history, events, faults>>

\* The baseline Role grants create and patch, as the chart installs it, or
\* create alone, or what somebody has made of it, here more than either.
Baselines == {"broad", "create", "foreign"}
NoRole == [owned |-> FALSE, names |-> {}]
Role == [owned : BOOLEAN, names : SUBSET Secrets]     \* an unowned one may be anybody's

MayPatch(s) == baseline # "create" \/ (binding = "ours" /\ s \in role.names)

Inspecting == {"inspect baseline", "inspect role", "inspect binding"}
Applying == {"inspect baseline again", "inspect role again", "inspect binding again"}
Writing == {"get role", "create role", "update role", "get binding", "create binding",
            "update binding", "get baseline", "update baseline"}
Verifying == {"verify role", "verify binding", "verify baseline", "authorize"}
Working == {"list"} \cup Inspecting \cup {"confirm"} \cup Applying \cup Writing \cup Verifying
Over == {"refused", "failed", "printed", "previewed", "done", "synced"}
Objects == {"role", "binding", "baseline"}
\* `plan` is the allowlist; `fresh`: what an Update is about to replace is what
\* the Get before it saw; `left`: of the plan, what is not reviewed yet; `due`:
\* of a manifest that was committed, what is not applied yet.  `wrote` is history.
Run == [pc : {"idle", "sync"} \cup Working \cup Over, mode : {"apply", "print", "dry run"},
        plan : SUBSET Secrets, fresh : BOOLEAN, left : SUBSET Secrets, due : SUBSET Objects,
        wrote : BOOLEAN]
NoRun == [pc |-> "idle", mode |-> "apply", plan |-> {}, fresh |-> FALSE, left |-> {}, due |-> {},
          wrote |-> FALSE]

Entries == Decoded(Endpoints, Secrets)
Inventories == UNION {[cs -> Entries] : cs \in SUBSET Conns}

TypeOK ==
    /\ inventory \in Inventories
    /\ baseline \in Baselines /\ role \in Role /\ binding \in {"none", "ours", "foreign"}
    /\ run \in [Runs -> Run]
    /\ crossed \subseteq Runs /\ meddled \subseteq Runs /\ handmade \subseteq Objects
    /\ events \in 0..MaxEvents /\ faults \in 0..MaxFaults

\* Freshly installed, or restricted to what was configured at some time.
Init ==
    /\ inventory \in Inventories
    /\ \/ baseline = "broad" /\ role = NoRole /\ binding = "none"
       \/ /\ baseline = "create" /\ binding = "ours"
          /\ \E names \in SUBSET Secrets : role = [owned |-> TRUE, names |-> names]
    /\ run = [r \in Runs |-> NoRun]
    /\ crossed = {} /\ meddled = {} /\ handmade = {}
    /\ events \in 0..MaxEvents /\ faults \in 0..MaxFaults

-----------------------------------------------------------------------------
(* The commands: what they read before they write.                         *)

At(r, pc) == run[r].pc = pc
Goes(r, pc) == run' = [run EXCEPT ![r].pc = pc]
Begun(r) == run[r].pc # "idle"

Start(r) ==
    /\ At(r, "idle") /\ (r > 1 => Begun(r - 1))
    /\ \E mode \in {"apply", "print", "dry run"} :
           run' = [run EXCEPT ![r].pc = "list", ![r].mode = mode]
    /\ UNCHANGED <<inventory, rbac, history, events, faults>>

\* A call fails, the two minutes are over, or the command is killed.
Fails(r) ==
    /\ run[r].pc \in Working
    /\ faults < MaxFaults /\ faults' = faults + 1
    /\ Goes(r, "failed")
    /\ UNCHANGED <<inventory, rbac, history, events>>

\* List and BuildPlan: everything, or nothing at all.
SafeToRestrict(listed) == Reconcilable(listed) = DOMAIN listed
SecretNames(listed) == {listed[c].secret : c \in Reconcilable(listed)}
List(r) ==
    /\ At(r, "list")
    /\ LET listed == Listed(inventory) IN
       IF SafeToRestrict(listed)
       THEN run' = [run EXCEPT ![r].pc = "inspect baseline", ![r].plan = SecretNames(listed)]
       ELSE Goes(r, "refused")
    /\ UNCHANGED <<inventory, rbac, history, events, faults>>

\* Inspect.  (The ServiceAccount and the baseline's binding, which it reads
\* too, are the chart's.)
BaselineExpected == baseline \in {"broad", "create"}
RoleExpected == role = NoRole \/ role.owned
BindingExpected == binding \in {"none", "ours"}
Inspects(r, at, expected, next) ==
    /\ At(r, at)
    /\ Goes(r, IF expected THEN next ELSE "refused")
    /\ UNCHANGED <<inventory, rbac, history, events, faults>>

\* What follows the first inspection.
Onward(r) == CASE run[r].mode = "print" -> "printed"
               [] run[r].mode = "dry run" -> "previewed"
               [] OTHER -> "confirm"
InspectUnowned(r) ==      \* mutant: any Role is as good as one of its own
    \/ Inspects(r, "inspect baseline", BaselineExpected, "inspect role")
    \/ Inspects(r, "inspect role", TRUE, "inspect binding")
    \/ Inspects(r, "inspect binding", BindingExpected, Onward(r))
    \/ Inspects(r, "inspect baseline again", BaselineExpected, "inspect role again")
    \/ Inspects(r, "inspect role again", TRUE, "inspect binding again")
    \/ Inspects(r, "inspect binding again", BindingExpected, "get role")
Inspect(r) ==
    \/ Inspects(r, "inspect baseline", BaselineExpected, "inspect role")
    \/ Inspects(r, "inspect role", RoleExpected, "inspect binding")
    \/ Inspects(r, "inspect binding", BindingExpected, Onward(r))
    \/ Inspects(r, "inspect baseline again", BaselineExpected, "inspect role again")
    \/ Inspects(r, "inspect role again", RoleExpected, "inspect binding again")
    \/ Inspects(r, "inspect binding again", BindingExpected, "get role")

\* --confirm, or an answer to the question.
Confirm(r) ==
    /\ At(r, "confirm")
    /\ \E answer \in {"inspect baseline again", "refused"} : Goes(r, answer)
    /\ UNCHANGED <<inventory, rbac, history, events, faults>>

-----------------------------------------------------------------------------
(* The commands: Apply.                                                    *)

\* A write crosses a command that needs names it does not allow, and meddles with
\* one that has read back what it changes.
Crosses(r) == {q \in Runs \ {r} : Begun(q) /\ ~(run[q].plan \subseteq run[r].plan)}
ReadBack(q, object) ==
    run[q].pc \in {"authorize", "done"} \cup
                  (CASE object = "role" -> {"verify binding", "verify baseline"}
                     [] object = "binding" -> {"verify baseline"}
                     [] OTHER -> {})
Changed == (IF role # role' THEN {"role"} ELSE {})
           \cup (IF binding # binding' THEN {"binding"} ELSE {})
           \cup (IF baseline # baseline' THEN {"baseline"} ELSE {})
Meddles == {q \in Runs : \E object \in Changed : ReadBack(q, object)}
Written(r) == crossed' = crossed \cup Crosses(r) /\ meddled' = meddled \cup Meddles

\* What others are about to update is out of date once it changes.
Stale(runs) ==
    [q \in Runs |-> IF \/ runs[q].pc = "update role" /\ role # role'
                       \/ runs[q].pc = "update binding" /\ binding # binding'
                       \/ runs[q].pc = "update baseline" /\ baseline # baseline'
                    THEN [runs[q] EXCEPT !.fresh = FALSE] ELSE runs[q]]

\* The Get of an upsert: where there is nothing, a Create follows.
Get(r, at, there, create, update) ==
    /\ At(r, at)
    /\ run' = [run EXCEPT ![r].pc = IF there THEN update ELSE create, ![r].fresh = TRUE]
    /\ UNCHANGED <<inventory, rbac, history, events, faults>>

\* A write that the API server refuses: there is an object already, or not the one
\* that was read, or its roleRef would change.
Refused(r) == Goes(r, "failed") /\ UNCHANGED <<rbac, history>>

RestrictedRole(r) == [owned |-> TRUE, names |-> run[r].plan]
WriteRole(r) ==
    /\ role' = RestrictedRole(r)
    /\ UNCHANGED <<baseline, binding, handmade>>
    /\ run' = Stale([run EXCEPT ![r].pc = "get binding", ![r].wrote = TRUE])
    /\ Written(r)

GetRole(r) == Get(r, "get role", role # NoRole, "create role", "update role")
PutRole(r) ==
    /\ \/ At(r, "create role") /\ IF role = NoRole THEN WriteRole(r) ELSE Refused(r)
       \/ At(r, "update role") /\ IF run[r].fresh THEN WriteRole(r) ELSE Refused(r)
    /\ UNCHANGED <<inventory, events, faults>>

WriteBinding(r) ==
    /\ binding' = "ours"
    /\ UNCHANGED <<baseline, role, handmade>>
    /\ run' = Stale([run EXCEPT ![r].pc = "get baseline", ![r].wrote = TRUE])
    /\ Written(r)

GetBinding(r) == Get(r, "get binding", binding # "none", "create binding", "update binding")
PutBinding(r) ==
    /\ \/ At(r, "create binding") /\ IF binding = "none" THEN WriteBinding(r) ELSE Refused(r)
       \/ /\ At(r, "update binding")
          /\ IF run[r].fresh /\ binding = "ours" THEN WriteBinding(r) ELSE Refused(r)
    /\ UNCHANGED <<inventory, events, faults>>

GetBaseline(r) == Get(r, "get baseline", TRUE, "update baseline", "update baseline")
PutBaseline(r) ==
    /\ At(r, "update baseline")
    /\ IF run[r].fresh
       THEN /\ baseline' = "create"
            /\ UNCHANGED <<role, binding, handmade>>
            /\ run' = Stale([run EXCEPT ![r].pc = "verify role", ![r].wrote = TRUE])
            /\ Written(r)
       ELSE Refused(r)
    /\ UNCHANGED <<inventory, events, faults>>

\* verifyObjects.
Verifies(r, at, intended, next) ==
    /\ At(r, at)
    /\ run' = [run EXCEPT ![r].pc = IF intended THEN next ELSE "failed", ![r].left = run[r].plan]
    /\ UNCHANGED <<inventory, rbac, history, events, faults>>
VerifyRole(r) == Verifies(r, "verify role", role = RestrictedRole(r), "verify binding")
VerifyBinding(r) == Verifies(r, "verify binding", binding = "ours", "verify baseline")
VerifyBaselineAssumed(r) ==      \* mutant: what was just updated needs no reading back
    Verifies(r, "verify baseline", TRUE, "authorize")
VerifyBaseline(r) == Verifies(r, "verify baseline", baseline = "create", "authorize")

\* VerifyAuthorization: one review for a name at a time, and one for a name that
\* is on no list.  A caller who may not ask is told so, and that it is done.
Authorize(r) ==
    /\ At(r, "authorize")
    /\ \/ \E s \in run[r].left :
              IF MayPatch(s) THEN run' = [run EXCEPT ![r].left = @ \ {s}] ELSE Goes(r, "failed")
       \/ run[r].left = {} /\ Goes(r, IF baseline = "create" THEN "done" ELSE "failed")
       \/ run[r].left = run[r].plan /\ Goes(r, "done")
    /\ UNCHANGED <<inventory, rbac, history, events, faults>>

RestrictStep(r) ==
    \/ List(r) \/ Inspect(r) \/ Confirm(r)
    \/ GetRole(r) \/ PutRole(r) \/ GetBinding(r) \/ PutBinding(r) \/ GetBaseline(r) \/ PutBaseline(r)
    \/ VerifyRole(r) \/ VerifyBinding(r) \/ VerifyBaseline(r) \/ Authorize(r)

-----------------------------------------------------------------------------
(* People, and what else writes these objects.                             *)

\* What --print printed is committed together with restrictedRBAC.enabled=true,
\* and synced by Argo CD wave by wave.  The waves are -2, -1 and, for the chart's
\* Role, which names none, 0: only their order counts.
Commit(r) ==
    /\ At(r, "printed")
    /\ run' = [run EXCEPT ![r].pc = "sync", ![r].due = Objects]
    /\ UNCHANGED <<inventory, rbac, history, events, faults>>

NoWaves(object) == 0      \* mutant: the manifest does not say
Wave(object) == CASE object = "role" -> 1 [] object = "binding" -> 2 [] OTHER -> 3
Sync(r) ==
    /\ At(r, "sync")
    /\ \E object \in run[r].due :
           /\ \A other \in run[r].due : Wave(object) <= Wave(other)
           /\ role' = IF object = "role" THEN RestrictedRole(r) ELSE role
           /\ binding' = IF object = "binding" /\ binding = "none" THEN "ours" ELSE binding
           /\ baseline' = IF object = "baseline" THEN "create" ELSE baseline
           /\ LET due == run[r].due \ {object} IN
              run' = Stale([run EXCEPT ![r].due = due,
                               ![r].pc = IF object = "binding" /\ binding = "foreign" THEN "failed"
                                         ELSE IF due = {} THEN "synced" ELSE "sync"])
    /\ Written(r)
    /\ UNCHANGED <<inventory, handmade, events, faults>>

EditInventory ==
    /\ \E c \in Conns :
           \/ \E e \in Entries : inventory' = [d \in DOMAIN inventory \cup {c} |->
                                                  IF d = c THEN e ELSE inventory[d]]
           \/ inventory' = [d \in DOMAIN inventory \ {c} |-> inventory[d]]
    /\ inventory' # inventory
    /\ UNCHANGED <<rbac, run, history>>

\* A Helm upgrade, with and without restrictedRBAC.enabled; the generated
\* objects deleted, or replaced by others of the same name; the chart's Role edited.
EditRBAC ==
    /\ \/ baseline' \in Baselines \ {baseline} /\ UNCHANGED <<role, binding>>
       \/ /\ role' \in {NoRole} \cup {[owned |-> FALSE, names |-> {s}] : s \in Secrets}
          /\ role' # role /\ UNCHANGED <<baseline, binding>>
       \/ binding' \in {"none", "foreign"} \ {binding} /\ UNCHANGED <<baseline, role>>
    /\ run' = Stale(run)
    /\ crossed' = crossed \cup {r \in Runs : Begun(r)}
    /\ meddled' = meddled \cup Meddles
    /\ handmade' = IF \E r \in Runs : Begun(r) THEN handmade \cup Changed ELSE handmade
    /\ UNCHANGED inventory

People ==
    /\ events < MaxEvents /\ events' = events + 1
    /\ EditInventory \/ EditRBAC
    /\ UNCHANGED faults

Next == (\E r \in Runs : Start(r) \/ Fails(r) \/ RestrictStep(r) \/ Commit(r) \/ Sync(r)) \/ People

Spec == Init /\ [][Next]_vars
-----------------------------------------------------------------------------
(* Properties.                                                             *)

\* "Activation is ordered to avoid a reconciliation gap": however far it comes,
\* no step of a command takes from the daemon a name of its own allowlist, nor
\* does one of a sync of what it printed; another command beside it with at
\* least the same names included.
NoGap ==
    [][\A r \in Runs : run'[r].pc # run[r].pc \/ run'[r].due # run[r].due =>
           r \in crossed \/ \A s \in run[r].plan : MayPatch(s) => MayPatch(s)']_vars

\* A command that says that patch access is restricted to the listed names is
\* right, whatever happened before it read the objects back.
SuccessIsNarrow ==
    \A r \in Runs : run[r].pc = "done" /\ r \notin meddled =>
        {s \in Secrets : MayPatch(s)} = run[r].plan

\* "Nothing was changed" by a command that refuses or previews, the refusals of
\* the second inspection included.
RefusedUntouched ==
    \A r \in Runs : run[r].pc \in {"refused", "previewed", "printed"} => ~run[r].wrote

\* What is not the tool's own is not overwritten by a command, if it was there when
\* the first of them began.
Overwrites(r) ==
    /\ run[r].pc \in Writing
    /\ \/ baseline = "foreign" /\ baseline' # "foreign"
       \/ role # NoRole /\ ~role.owned /\ role'.owned
       \/ binding = "foreign" /\ binding' # "foreign"
ForeignKept ==
    [][\A r \in Runs : run'[r].pc # run[r].pc /\ Overwrites(r) => Changed \cap handmade # {}]_vars

\* The inventory a plan is made of: nothing in it is contested, and whatever is
\* held back has a rival to name.
InventoryRight ==
    LET listed == Listed(inventory) IN SoleClaims(listed) /\ RightlyHeld(inventory, listed)

-----------------------------------------------------------------------------
(* What a comment says and the code does not do.                           *)

\* "No other rules are silently replaced" (Inspect): the chart's Role, if somebody
\* has given it other rules, is left to them.
RulesAreKept ==
    [][\A r \in Runs : run'[r].pc # run[r].pc /\ run[r].pc \in Writing =>
           (baseline = "foreign" => baseline' = "foreign")]_vars
=============================================================================
