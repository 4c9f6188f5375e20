------------------------------ MODULE Bootstrap ------------------------------
(***************************************************************************)
(* `k2a-token-sync bootstrap` (runBootstrap), one call to an API server at  *)
(* a time: several commands at once, in every mode, for one and the same    *)
(* downstream cluster, beside a daemon that polls, restores ArgoCD's        *)
(* identity and publishes, and beside people.                              *)
(***************************************************************************)
EXTENDS Naturals

CONSTANTS
    Names,        \* what --cluster says; all of them name one downstream cluster
    MaxRuns,      \* bound: commands people give
    Invocations,  \* the flags they give them
    MaxEvents,    \* bound: what people do beside the commands
    MaxFaults     \* bound: calls that fail, commands killed, reads refused

\* The two sets of ServiceAccount names: the defaults, and others given by
\* --serviceaccount and --self-serviceaccount.
Ids == {"default", "given"}
Roles == {"cluster-admin", "restricted"}
MaybeRole == Roles \cup {"none"}
Modes == {"apply", "print", "print downstream", "complete", "dry run"}
Command == [name : Names, role : Roles, ids : Ids, mode : Modes,
            adopt : BOOLEAN, replace : BOOLEAN]

\* The combinations runBootstrap accepts.
Valid(c) == c.mode \in {"print downstream", "complete"} => ~c.replace

ASSUME BootstrapAssumption ==
    /\ Invocations \subseteq {c \in Command : Valid(c)} /\ Invocations # {}
    /\ MaxRuns \in Nat /\ MaxEvents \in Nat /\ MaxFaults \in Nat

Runs == 1..MaxRuns     \* in the order they are given

VARIABLES
    down,          \* downstream, for each set of names: ArgoCD's account and the role it is
                   \* bound to, this tool's own account, its binding and the role it may bind
    credential,    \* the own credential stored for a name: whose it is
    connection,    \* the ClusterConnections
    registration,  \* ArgoCD's cluster Secrets, and who created them
    run,           \* the commands
    known,         \* the daemon's last List
    pass,          \* the daemon's pass
    unseen,        \* history: names whose registration no command could vouch for
    twins,         \* history: two claims were made without either seeing the other
    disturbed,     \* history: commands during or since which somebody else acted
    events, faults \* how much of each bound is used

local == <<credential, connection, registration>>
daemon == <<known, pass>>
history == <<unseen, twins, disturbed>>
vars == <<down, local, run, daemon, history, events, faults>>

Absent == [role |-> "none", ids |-> "none", adopted |-> FALSE, holder |-> "nobody"]
\* `holder`: bootstrap's field manager, or another's (git, kubectl).
Connection == [role : Roles, ids : Ids, adopted : BOOLEAN, holder : {"bootstrap", "others"}]
Exists(n) == connection[n] # Absent

NoIdentity == [account |-> FALSE, binding |-> "none", own |-> FALSE, ownBinding |-> FALSE,
               mayBind |-> "none"]
Provisioned(role) == [account |-> TRUE, binding |-> role, own |-> TRUE, ownBinding |-> TRUE,
                      mayBind |-> role]

\* A command.  `wrote` is history: whether it has changed anything.
Over == {"refused", "failed", "previewed", "handed over", "printed", "done", "applied", "committed"}
Checking == {"role", "target", "duplicate"}
Writing == {"unbind", "rebind", "recreate", "own identity",
            "identity", "create", "store", "connect"}
Working == Checking \cup Writing
Run == [pc : {"idle"} \cup Working \cup Over, cmd : Invocations, adopted : BOOLEAN,
        replacing : BOOLEAN, wrote : BOOLEAN]
NoRun == [pc |-> "idle", cmd |-> CHOOSE c \in Invocations : TRUE, adopted |-> FALSE,
          replacing |-> FALSE, wrote |-> FALSE]

\* A pass: over which connection, as the List had it, and as whom.
Pass == [pc : {"idle", "renew", "identity", "create", "publish"}, name : Names,
         conn : Connection \cup {Absent}, as : Ids]
NoPass == [pc |-> "idle", name |-> CHOOSE n \in Names : TRUE, conn |-> Absent, as |-> "default"]

TypeOK ==
    /\ down \in [Ids -> [account : BOOLEAN, binding : MaybeRole, own : BOOLEAN,
                         ownBinding : BOOLEAN, mayBind : MaybeRole]]
    /\ credential \in [Names -> Ids \cup {"none"}]
    /\ connection \in [Names -> Connection \cup {Absent}]
    /\ registration \in [Names -> {"absent", "ours", "foreign", "inherited"}]
    /\ run \in [Runs -> Run]
    /\ known \in [Names -> Connection \cup {Absent}]
    /\ pass \in Pass
    /\ unseen \subseteq Names /\ twins \in BOOLEAN /\ disturbed \subseteq Runs
    /\ events \in 0..MaxEvents /\ faults \in 0..MaxFaults

\* Nothing is there but, it may be, a registration made with `argocd cluster
\* add`; or one cluster is in service.
Init ==
    /\ registration \in [Names -> {"absent", "foreign"}]
    /\ down = [i \in Ids |-> NoIdentity]
    /\ credential = [n \in Names |-> "none"] /\ connection = [n \in Names |-> Absent]
    /\ run = [r \in Runs |-> NoRun]
    /\ known = [n \in Names |-> Absent] /\ pass = NoPass
    /\ unseen = {} /\ twins = FALSE /\ disturbed = {}
    /\ events \in 0..MaxEvents /\ faults \in 0..MaxFaults

-----------------------------------------------------------------------------
(* The commands: what they check.                                          *)

Mode(r, m) == run[r].cmd.mode = m
Identity(r) == down[run[r].cmd.ids]
Goes(r, pc) == run' = [run EXCEPT ![r].pc = pc]
Writes(r, pc) == run' = [run EXCEPT ![r].pc = pc, ![r].wrote = TRUE]

\* What r writes, it writes during or after every other command there is.
Disturbs(r) == disturbed' = disturbed \cup {q \in Runs \ {r} : run[q].pc # "idle"}

\* A claim on the cluster under another name, which a List does not show yet:
\* a command past its check, or a manifest it printed.
Pending(n) == \E r \in Runs : /\ run[r].cmd.name = n
                              /\ run[r].pc \in Writing \cup {"printed"}
PendingElsewhere(n) == \E m \in Names \ {n} : Pending(m)

\* The command begins, and with it the pre-flight: the cluster's CA, and the
\* certificate at the endpoint.  Where that fails nothing has happened at all.
Start(r) ==
    /\ run[r].pc = "idle" /\ (r > 1 => run[r - 1].pc # "idle")
    /\ \E c \in Invocations :
           /\ run' = [run EXCEPT ![r] = [NoRun EXCEPT !.cmd = c,
                         !.pc = CASE c.mode = "print downstream" -> "handed over"
                                  [] c.mode = "complete" -> "target"
                                  [] OTHER -> "role"]]
           \* --complete is for objects applied as they were printed
           /\ disturbed' = IF c.mode = "complete" /\ down[c.ids] # Provisioned(c.role)
                           THEN disturbed \cup {r} ELSE disturbed
    /\ UNCHANGED <<down, local, daemon, unseen, twins, events, faults>>

Fault == faults < MaxFaults /\ faults' = faults + 1

\* A call fails, or the command is killed.  A call that is carried out and whose
\* answer is lost is one that succeeds before the next fails.
Fails(r) ==
    /\ run[r].pc \in Working
    /\ Fault /\ Goes(r, "failed")
    /\ UNCHANGED <<down, local, daemon, history, events>>

\* BindingRole, and the refusal without --replace-binding.
Replacing(r) == Identity(r).binding \notin {"none", run[r].cmd.role}
ReadRole(r) ==
    /\ run[r].pc = "role"
    /\ run' = [run EXCEPT ![r].replacing = Replacing(r),
                          ![r].pc = IF Replacing(r) /\ ~run[r].cmd.replace THEN "refused" ELSE "target"]
    /\ UNCHANGED <<down, local, daemon, history, events, faults>>

\* classifyRegistrationSecret: the label is what tells.
Classified(n) == IF registration[n] = "inherited" THEN "ours" ELSE registration[n]

\* refusal and recordsAdoption.
AdoptedAsAsked(r, target) == run[r].cmd.adopt      \* mutant: whatever was found
Adopted(r, target) == run[r].cmd.adopt /\ target \in {"foreign", "unreadable"}

RefusedUnlessReadable(r, target) == FALSE      \* mutant: the check only informs
RefusedTarget(r, target) == target = "foreign" /\ ~run[r].cmd.adopt

\* inspectRegistrationTarget; being refused the read is no reason to stop.
InspectTarget(r) ==
    /\ run[r].pc = "target"
    /\ \E target \in {Classified(run[r].cmd.name), "unreadable"} :
           /\ IF target = "unreadable" THEN Fault ELSE UNCHANGED faults
           /\ unseen' = IF target = "unreadable" THEN unseen \cup {run[r].cmd.name} ELSE unseen
           /\ run' = [run EXCEPT ![r].adopted = Adopted(r, target),
                                 ![r].pc = IF RefusedTarget(r, target) THEN "refused" ELSE "duplicate"]
    /\ UNCHANGED <<down, local, daemon, twins, disturbed, events>>

\* What follows the checks.
Onward(r) ==
    IF Mode(r, "complete") THEN "store" ELSE IF run[r].replacing THEN "unbind" ELSE "own identity"

\* refuseDuplicateEndpoint; an inventory that cannot be read is no evidence.
ClaimedByNone(n) == FALSE      \* mutant: no other connection is looked for
ClaimedElsewhere(n) == \E m \in Names \ {n} : Exists(m)
RefuseDuplicate(r) ==
    /\ run[r].pc = "duplicate"
    /\ LET n == run[r].cmd.name
           next == IF Mode(r, "dry run") THEN "previewed" ELSE Onward(r) IN
       \/ /\ Goes(r, IF ClaimedElsewhere(n) THEN "refused" ELSE next)
          /\ twins' = (twins \/ (PendingElsewhere(n) /\ ~ClaimedElsewhere(n)))
          /\ UNCHANGED faults
       \/ /\ Fault /\ Goes(r, next) /\ twins' = TRUE
    /\ UNCHANGED <<down, local, daemon, unseen, disturbed, events>>

-----------------------------------------------------------------------------
(* The commands: what they do downstream.                                  *)

\* EnsureClusterRoleBinding, which commands and passes share, is a Get and,
\* where that finds nothing, a Create.
BoundAs(i, role) == down[i].binding = role
Unbound(i) == down[i].binding = "none"

\* The Create.  One that finds a binding after all is content with it.
BindTo(i, role) == down' = [down EXCEPT ![i].binding = IF @ = "none" THEN role ELSE @]

Unbind(r) ==
    /\ run[r].pc = "unbind"
    /\ down' = [down EXCEPT ![run[r].cmd.ids].binding = "none"]
    /\ Writes(r, "rebind") /\ Disturbs(r)
    /\ UNCHANGED <<local, daemon, unseen, twins, events, faults>>

\* The Get: the right binding is enough, where there is none one is created,
\* and another is an error.
Found(r, create, next) ==
    LET i == run[r].cmd.ids IN
    IF BoundAs(i, run[r].cmd.role) THEN next ELSE IF Unbound(i) THEN create ELSE "failed"

Create(r, at, next) ==
    /\ run[r].pc = at
    /\ BindTo(run[r].cmd.ids, run[r].cmd.role)
    /\ Writes(r, next) /\ Disturbs(r)
    /\ UNCHANGED <<local, daemon, unseen, twins, events, faults>>

\* ReplaceClusterRoleBinding, after the delete.
Rebind(r) ==
    /\ run[r].pc = "rebind"
    /\ Goes(r, Found(r, "recreate", "own identity"))
    /\ UNCHANGED <<down, local, daemon, history, events, faults>>
Recreate(r) == Create(r, "recreate", "own identity")

\* EnsureSelfIdentity: the account, the ClusterRole, which is updated where it
\* exists, and its binding.
OwnedOnce(identity, role) ==      \* mutant: a ClusterRole that exists is left as it is
    [identity EXCEPT !.own = TRUE, !.ownBinding = TRUE, !.mayBind = IF @ = "none" THEN role ELSE @]
Owned(identity, role) == [identity EXCEPT !.own = TRUE, !.mayBind = role, !.ownBinding = TRUE]
OwnIdentity(r) ==
    /\ run[r].pc = "own identity"
    /\ LET i == run[r].cmd.ids
           before == Identity(r)
           after == Owned(before, run[r].cmd.role) IN
       \/ /\ down' = [down EXCEPT ![i] = after]
          /\ Writes(r, "identity") /\ UNCHANGED faults
       \/ /\ down' \in {[down EXCEPT ![i] = [before EXCEPT !.own = TRUE]],    \* part way
                        [down EXCEPT ![i] = [after EXCEPT !.ownBinding = before.ownBinding]]}
          /\ Writes(r, "failed") /\ Fault
    /\ Disturbs(r)
    /\ UNCHANGED <<local, daemon, unseen, twins, events>>

\* EnsureArgoCDIdentity: the account, and the Get and Create of the binding.
IdentityUnchecked(r) ==      \* mutant: any binding there is is enough
    /\ run[r].pc = "identity"
    /\ down' = [down EXCEPT ![run[r].cmd.ids].account = TRUE]
    /\ Writes(r, IF Unbound(run[r].cmd.ids) THEN "create" ELSE "store") /\ Disturbs(r)
    /\ UNCHANGED <<local, daemon, unseen, twins, events, faults>>
ArgoIdentity(r) ==
    /\ run[r].pc = "identity"
    /\ down' = [down EXCEPT ![run[r].cmd.ids].account = TRUE]
    /\ Writes(r, Found(r, "create", "store")) /\ Disturbs(r)
    /\ UNCHANGED <<local, daemon, unseen, twins, events, faults>>
CreateBinding(r) == Create(r, "create", "store")

-----------------------------------------------------------------------------
(* The commands: what they leave in the cluster running ArgoCD.            *)

\* provisionCredential, which needs an account to mint for, and WriteCredentials.
\* (verifyCredential, between the two, only warns.)
Store(r) ==
    /\ run[r].pc = "store"
    /\ IF Identity(r).own
       THEN /\ credential' = [credential EXCEPT ![run[r].cmd.name] = run[r].cmd.ids]
            /\ Writes(r, IF Mode(r, "print") THEN "printed" ELSE "connect") /\ Disturbs(r)
       ELSE Goes(r, "failed") /\ UNCHANGED <<credential, disturbed>>
    /\ UNCHANGED <<down, connection, registration, daemon, unseen, twins, events, faults>>

\* connectionFor: no ServiceAccount is named in it, which leaves the schema's default.
ConnectionFor(r, holder) ==
    [role |-> run[r].cmd.role, ids |-> "default", adopted |-> run[r].adopted, holder |-> holder]

\* Server-side apply.  A field is another manager's if that set it: a role given
\* to the contrary is a conflict, a role not given leaves theirs, and so does an
\* annotation not given; what this manager set before and does not set now goes.
Conflicts(r) ==
    LET old == connection[run[r].cmd.name] IN
    old.holder = "others" /\ run[r].cmd.role \notin {"cluster-admin", old.role}
Merged(old, new) ==
    IF old.holder # "others" THEN new
    ELSE [new EXCEPT !.role = IF @ = "cluster-admin" THEN old.role ELSE @,
                     !.ids = old.ids, !.adopted = @ \/ old.adopted, !.holder = "others"]

Connect(r) ==
    /\ run[r].pc = "connect"
    /\ LET n == run[r].cmd.name IN
       IF Conflicts(r)
       THEN Goes(r, "failed") /\ UNCHANGED <<connection, disturbed>>
       ELSE /\ connection' = [connection EXCEPT ![n] = Merged(@, ConnectionFor(r, "bootstrap"))]
            /\ Writes(r, "done") /\ Disturbs(r)
    /\ UNCHANGED <<down, credential, registration, daemon, unseen, twins, events, faults>>

BootstrapStep(r) ==
    \/ ReadRole(r) \/ InspectTarget(r) \/ RefuseDuplicate(r)
    \/ Unbind(r) \/ Rebind(r) \/ Recreate(r)
    \/ OwnIdentity(r) \/ ArgoIdentity(r) \/ CreateBinding(r) \/ Store(r) \/ Connect(r)

-----------------------------------------------------------------------------
(* People.                                                                 *)

AllDisturbed == disturbed' = disturbed \cup {r \in Runs : run[r].pc # "idle"}

\* An administrator applies what --print-downstream printed.  A binding to
\* another role refuses to be changed.
ApplyDownstream(r) ==
    /\ run[r].pc = "handed over"
    /\ down' = [down EXCEPT ![run[r].cmd.ids] =
                   [Provisioned(run[r].cmd.role) EXCEPT
                       !.binding = IF Identity(r).binding = "none" THEN @ ELSE Identity(r).binding]]
    /\ Goes(r, "applied") /\ Disturbs(r)
    /\ UNCHANGED <<local, daemon, unseen, twins, events, faults>>

\* What --print printed is committed and applied from there.
Commit(r) ==
    /\ run[r].pc = "printed"
    /\ LET n == run[r].cmd.name IN
       connection' = [connection EXCEPT ![n] =
                         [ConnectionFor(r, "others") EXCEPT !.adopted = @ \/ connection[n].adopted]]
    /\ Goes(r, "committed") /\ Disturbs(r)
    /\ UNCHANGED <<down, credential, registration, daemon, unseen, twins, events, faults>>

\* Nothing is under way for the name that somebody has checked, or declared, before.
Unlooked(n) ==
    /\ connection[n] = Absent /\ known[n] = Absent
    /\ pass.pc # "idle" => pass.name # n
    /\ \A r \in Runs : run[r].cmd.name = n =>
           run[r].pc \notin Writing \cup {"duplicate", "printed"}

\* `argocd cluster add`, under a name that is free.
ForeignAppears(n) ==
    /\ registration[n] = "absent"
    /\ registration' = [registration EXCEPT ![n] = "foreign"]
    /\ unseen' = IF Unlooked(n) THEN unseen ELSE unseen \cup {n}
    /\ UNCHANGED <<down, credential, connection, twins>>

\* A connection written by hand, or committed without bootstrap.
WrittenByHand(n) ==
    /\ ~Exists(n)
    /\ connection' = [connection EXCEPT ![n] =
           [role |-> "cluster-admin", ids |-> "default", adopted |-> FALSE, holder |-> "others"]]
    /\ unseen' = unseen \cup {n}
    /\ twins' = (twins \/ ClaimedElsewhere(n) \/ PendingElsewhere(n))
    /\ UNCHANGED <<down, credential, registration>>

DeleteConnection(n) ==
    /\ Exists(n)
    /\ connection' = [connection EXCEPT ![n] = Absent]
    /\ UNCHANGED <<down, credential, registration, unseen, twins>>

DeleteBinding ==
    /\ \E i \in Ids : /\ ~Unbound(i)
                      /\ down' = [down EXCEPT ![i].binding = "none"]
    /\ UNCHANGED <<local, unseen, twins>>

People ==
    /\ events < MaxEvents /\ events' = events + 1
    /\ AllDisturbed
    /\ \/ \E n \in Names : ForeignAppears(n) \/ WrittenByHand(n) \/ DeleteConnection(n)
       \/ DeleteBinding
    /\ UNCHANGED <<run, daemon, faults>>

-----------------------------------------------------------------------------
(* The daemon.                                                             *)

Poll ==
    /\ known # connection
    /\ known' = connection
    /\ UNCHANGED <<down, local, run, pass, history, events, faults>>

\* Works: the credential is there and what it belongs to is too.
Works(n) == /\ credential[n] # "none"
            /\ down[credential[n]].own /\ down[credential[n]].ownBinding

\* A pass over a connection the last List had, and had uncontested.
PassBegin(n) ==
    /\ pass.pc = "idle"
    /\ known[n] # Absent /\ \A m \in Names \ {n} : known[m] = Absent
    /\ Works(n)
    /\ pass' = [pc |-> "renew", name |-> n, conn |-> known[n], as |-> credential[n]]
    /\ UNCHANGED <<down, local, run, known, history, events, faults>>

\* maintainSelfCredential: a token for the account the connection names, if it
\* is due and the account there; a failure is noted and the pass goes on.
PassRenew ==
    /\ pass.pc = "renew"
    /\ pass' = [pass EXCEPT !.pc = "identity"]
    /\ \/ UNCHANGED credential
       \/ /\ down[pass.conn.ids].own
          /\ credential' = [credential EXCEPT ![pass.name] = pass.conn.ids]
    /\ UNCHANGED <<down, connection, registration, run, known, history, events, faults>>

\* EnsureArgoCDIdentity, with the own identity's permissions.
PassIdentity ==
    /\ pass.pc = "identity"
    /\ down' = [down EXCEPT ![pass.conn.ids].account = TRUE]
    /\ pass' = IF BoundAs(pass.conn.ids, pass.conn.role) THEN [pass EXCEPT !.pc = "publish"]
               ELSE IF Unbound(pass.conn.ids) THEN [pass EXCEPT !.pc = "create"] ELSE NoPass
    /\ UNCHANGED <<local, run, known, history, events, faults>>

\* A Create needs permission to bind that role.
PassReportsUnbound ==      \* mutant: a missing binding is reported and not restored
    /\ pass.pc = "create"
    /\ pass' = NoPass
    /\ UNCHANGED <<down, local, run, known, history, events, faults>>
PassCreate ==
    /\ pass.pc = "create"
    /\ IF down[pass.as].mayBind = pass.conn.role
       THEN BindTo(pass.conn.ids, pass.conn.role) /\ pass' = [pass EXCEPT !.pc = "publish"]
       ELSE pass' = NoPass /\ UNCHANGED down
    /\ UNCHANGED <<local, run, known, history, events, faults>>

\* Applied with force, over whatever is there.
PassPublish ==
    /\ pass.pc = "publish"
    /\ registration' = [registration EXCEPT ![pass.name] =
                           CASE @ = "absent" -> "ours" [] @ = "foreign" -> "inherited" [] OTHER -> @]
    /\ pass' = NoPass
    /\ UNCHANGED <<down, credential, connection, run, known, history, events, faults>>

PassStep == PassRenew \/ PassIdentity \/ PassCreate \/ PassPublish

PassFails ==
    /\ pass.pc # "idle" /\ Fault
    /\ pass' = NoPass
    /\ UNCHANGED <<down, local, run, known, history, events>>

Next ==
    \/ \E r \in Runs : Start(r) \/ Fails(r) \/ BootstrapStep(r) \/ ApplyDownstream(r) \/ Commit(r)
    \/ People
    \/ Poll \/ PassStep \/ PassFails \/ \E n \in Names : PassBegin(n)

Spec == Init /\ [][Next]_vars

\* Every call has a deadline and the daemon polls and passes for ever.  Nothing
\* is assumed of people.
Fairness ==
    /\ \A r \in Runs : WF_vars(BootstrapStep(r))
    /\ WF_vars(Poll) /\ WF_vars(PassStep) /\ \A n \in Names : WF_vars(PassBegin(n))

FairSpec == Spec /\ Fairness

-----------------------------------------------------------------------------
(* Properties.                                                             *)

\* "Nothing has been changed" is true of every command that says so or whose
\* mode promises it: all refusals come before the first write.
RefusedUntouched ==
    \A r \in Runs : run[r].pc \in {"refused", "previewed", "handed over"} => ~run[r].wrote

\* The daemon takes a registration over that somebody else made only for a
\* connection that records the adoption; or nobody could have known, because
\* the Secret appeared after the check, could not be read, or bootstrap was not
\* asked.
NoSilentTakeover ==
    [][\A n \in Names : registration[n] = "foreign" /\ registration'[n] = "inherited" =>
           pass.conn.adopted \/ n \in unseen]_vars

\* And a connection that records an adoption stands for one: there is, or was
\* when the daemon took over, a Secret of somebody else's.
AdoptionIsTrue ==
    \A n \in Names : connection[n].adopted =>
        registration[n] \in {"foreign", "inherited"} \/ n \in unseen

\* One cluster takes one connection, unless two claims were made at a time, or
\* past a check that could not run.
OneConnection ==
    \A n, m \in Names : n # m /\ Exists(n) /\ Exists(m) => twins

\* A command that says it is done, where nobody else acted, has left what its
\* flags asked for, also downstream, where passes restore what they miss while
\* it replaces a binding; and the daemon can keep it so.
Undisturbed(r) == run[r].pc = "done" /\ r \notin disturbed /\ run[r].cmd.ids = "default"
DoneMeansProvisioned ==
    \A r \in Runs : LET n == run[r].cmd.name IN
        Undisturbed(r) /\ connection[n].holder = "bootstrap" =>
            /\ down["default"] = Provisioned(run[r].cmd.role)
            /\ credential[n] = "default"
            /\ connection[n].role = run[r].cmd.role

\* That is so where people who give other names for the accounts ask for the same
\* role under them.  No connection names those accounts, so that a pass works as
\* one and restores the binding of another, to the role that the first may bind.
RolesAgree == \A c, d \in Invocations : c.ids # d.ids => c.role = d.role

\* A command that says it is done is right that the daemon publishes: however
\* it was interrupted and repeated before, its connection comes into service.
Alone(n) == Exists(n) /\ ~ClaimedElsewhere(n)
Owed == \E r \in Runs : LET n == run[r].cmd.name IN
            /\ Undisturbed(r) /\ Alone(n) /\ connection[n].holder = "bootstrap"
            /\ registration[n] \notin {"ours", "inherited"}
DonePublishes == Owed ~> ~Owed

\* A replacement cut off between its delete and its create does not leave ArgoCD
\* without authorisation: the daemon binds the role it may still bind.
Restorable == \E n \in Names : /\ Alone(n) /\ Works(n)
                               /\ down[credential[n]].mayBind = connection[n].role
                               /\ Unbound(connection[n].ids)
GapCloses == Restorable ~> ~Restorable

-----------------------------------------------------------------------------
(* What documents say and the code does not do.                            *)

\* "From then on, k2a-token-sync renews through its own identity as usual": a
\* connection somebody has just bootstrapped names an account that is there.
\* (cmd/bootstrap.go, --self-serviceaccount; README, "Delegating downstream
\* preparation".)
DoneRenews ==
    \A r \in Runs : run[r].pc = "done" /\ r \notin disturbed =>
        down[connection[run[r].cmd.name].ids].own

\* The annotation "is what distinguishes a registration this tool inherited from
\* one it created, months later": re-running bootstrap does not lose it.
AdoptionIsKept ==
    [][\A n \in Names : connection[n].adopted /\ registration[n] = "inherited" =>
           connection'[n].adopted \/ connection'[n] = Absent]_vars
=============================================================================
