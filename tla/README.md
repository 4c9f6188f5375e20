# A verification development for k2a-token-sync

k2a-token-sync keeps ArgoCD's cluster Secrets supplied with short-lived tokens.
This directory holds TLA+ models of its daemon, the TLC instances that check
them and TLAPS proofs about them. Definitions carry the names of the source
where TLA+ allows it; `PROJECT.json` maps each to its lines.

## The system

| component | source | state it keeps | what it does |
|---|---|---|---|
| scheduler | `cmd/scheduler.go` | per cluster: spec, status, due time, `running`, `departed`, verdict, `rerunAfterPass`, `passedGeneration` | polls the ClusterConnections, forms verdicts, dispatches passes, writes statuses |
| reconciler | `internal/reconcile` | none between passes: the status carries its memory | one pass: renew the own credential, repair ArgoCD's identity, observe, reissue |
| inventory | `internal/inventory` | none | List with verdicts (broken, contested), UpdateStatus, CRD check |
| ArgoCD Secret | `internal/argocd` | the Secret, written in two halves by server-side apply | registration and credential applies, what makes a reissue due |
| downstream | `internal/downstream` | two ServiceAccounts and their bindings, in each cluster | create what is missing, mint tokens, prove them, probe the certificate |
| own credentials | `internal/k8s` | `<name>-credentials` | read and store |
| configuration | `internal/config` | none | a spec to a cluster, or a reason why not |
| health | `cmd/health.go` | last poll, passes under way, the last report | liveness, readiness, `/status` |
| bootstrap, remove, restrict-rbac | `cmd/bootstrap.go`, `cmd/remove.go`, `cmd/restrict_rbac.go`, `internal/hardening` | none: one-shot commands | bring a cluster in, take it out, narrow the permissions |
| events, metrics, telemetry, CLI | `internal/events`, `cmd/` | counters | notes and output |

The scheduler's loop calls the inventory, starts one goroutine per due cluster
(at most four at work), and each calls the reconciler and writes its status.
Loop and passes share `scheduler.state` under one mutex and meet again in the
object's status, which each writes without holding it. A pass shares the two
clusters it talks to with people, with other controllers, with the one-shot
commands and with its own earlier runs, of which only the status and the two
Secrets are left.

### What is hard

* Two writers of one status, and reads (a List, a copied spec, a verdict) that
  are old when they are used.
* A pass that outlives what it was started for: contested, edited, deleted,
  deleted and created again.
* A pass that stops half way - a call refused, an answer lost, a process gone -
  and a next pass that knows what was recorded and nothing else.
* Publishing without read permission: only an apply's answer shows what is there.
* Replacing the one credential that can replace itself, and in time.
* Commands that check once and write several times, interrupted between two
  writes, given twice at a time, beside a daemon and beside people.
* Telling what is slow from what hangs, with one threshold for all.

### What makes each component correct

* Scheduler: one pass per cluster and no more than the slots allow; no pass
  started over a contested claim; a verdict, an edit and a withdrawal each reach
  the object, and neither writer loses it for the other; `Synced` means
  reconciled.
* Reconciler: success means published; the published credential authenticates;
  nothing that works is replaced by something that does not; the tool never
  locks itself out; what people break comes right.
* Inventory: a claim made twice blocks every claimant, and only them.
* Credentials: neither the published token nor the tool's own lapses while
  passes succeed, whatever an API server grants; a lapse is foretold.
* Remove: what it deleted stays deleted, beside a running daemon.
* Bootstrap: nothing is taken over unrecorded; a cluster gets one connection;
  done means provisioned, and published soon, however often it was interrupted.
* Hardening: at no point between its writes is the daemon without a permission
  its plan gives it, and it says narrow only where it is.
* Health: what hangs is restarted, what is slow is not.

## Modules

| module | what it is |
|---|---|
| `Scheduler` | `cmd/scheduler.go` over the objects: poll loop, passes, people, restarts |
| `SingleFlight` | what the scheduler promises about passes, without locks, polls or writes |
| `MCScheduler` | instances of `Scheduler` for TLC |
| `Scheduler_proofs` | theorems about `Scheduler`, checked by TLAPS |
| `Reconcile` | one cluster's pass, call by call, against everything that happens to its objects |
| `Reconcile_proofs` | theorems about `Reconcile` |
| `MCReconcile` | instances of `Reconcile` for TLC |
| `Remove` | the `remove` command, call by call, composed with `Reconcile`'s pass |
| `Remove_proofs` | theorems about `Remove` |
| `MCRemove` | instances of `Remove` for TLC |
| `Bootstrap` | the `bootstrap` command, call by call, several at once, beside daemon and people |
| `Bootstrap_proofs` | theorems about `Bootstrap` |
| `MCBootstrap` | instances of `Bootstrap` for TLC |
| `Inventory` | what a List makes of the connections there are, and what is promised of it |
| `Inventory_proofs` | that it keeps the promise, for every inventory |
| `Hardening` | the `restrict-rbac` command, call by call, and the sync of what it prints |
| `Hardening_proofs` | theorems about `Hardening` |
| `MCHardening` | instances of `Hardening` for TLC |
| `Health` | the two probes over loop and passes, in real time |
| `Health_proofs` | theorems about `Health` |
| `MCHealth` | instances of `Health` for TLC |
| `Lifetimes` | two credentials running out, the cadence and the rules of renewal, in real time |
| `Lifetimes_proofs` | theorems about `Lifetimes` |

`Remove` composes `Reconcile`, and `Hardening` uses `Inventory`; `Scheduler`
implements `SingleFlight`. The others share no state: where one relies on
another's result, it says so below.

### Scheduler

A step is what the code does between two points where someone else can act: one
critical section of `s.mu`, or one API call. So a List and the merge of its
answer are two steps (`PollList`, `PollUpdate`), and so are a verdict's payload
and its write (`PollVerdictNeeded`, `PollVerdictWrite`). A pass is
`PassAbandon` or `PassBegin` (the re-check in `reconcileOne`), `PassReconcile`
(`rec.Cluster` and the verdict overlaid on its result), `PassWrite`,
`PassRecord`, `PassSettled` or `PassUnsettled` with `PassRewrite`
(`settleVerdict`), and the deferred calls `PassLeave` (the slot) and
`PassRelease` (`releaseCluster`).

The data: a spec is the claim it resolves to, or `Broken`; an endpoint and an
ArgoCD Secret name are one kind of claim, since `blockContested` treats them
alike. A status is its observed generation, the reason of Ready, whether it
carries a Conflict, and which credential it records. Due times are one bit,
turned on by `BecomeDue` when cadence or backoff has run out. `gone` is history:
the names an object was deleted of. A condition's
transition time is kept only where it decides something: an overlaid verdict
stamps a new time, so `settleVerdict`'s `DeepEqual` differs (`Stamps`).
`passed` keeps the spec reconciled beside the generation the code keeps; no
step reads it.

What `PassReconcile` assumes of the reconciler - the result is for the
generation it was given, and success implies a recorded credential - is part of
what `Reconcile` checks (`SuccessIsPublished`).

### SingleFlight

Four phases per cluster and the set of clusters cleared for reconciling. The
refinement mapping is at the end of `Scheduler`: `Phase` and `Cleared`.

### Reconcile

Each action is one call to an API server, in the order of
`Reconciler.reconcile`. A call is carried out or not (`CallFails`), and if it
is, its answer may be lost (`Answer`); both end the pass, except in the renewal
of the own credential, which only notes the failure (`Unrenewed`). A token is
known by the incarnation of the ServiceAccount it is bound to: it authenticates
while that incarnation is there (`Live`, `Works`), which is why a recreated
account leaves a Secret that looks perfect and authenticates to nothing. The
fingerprint in the status is the recorded token and the version of what went
with it, `want`. Whether a recorded token is past half its lifetime is a bit
that turns at any time (`HalfLife`). `seen` is history: what people have done,
which `NotLockedOut`, `NeverBare` and `Uncut` condition on.

A probe that fails, an unusable certificate and a timeout are calls that fail.
A status write that is lost leaves the old status; the process remembers the new
one until its next List, which is as if it had been written. Bootstrap is one
step: it completes, or its parts are things people do.

### Remove

`executeRemoval` as it runs: `Resolve` (the names, from the connection or from
defaults), `Collide` (the endpoint guard), `Inspect` (the guards on the two
Secrets), then for each object of `Order` the two calls of its Remove function,
`Look` and `Delete`, so that everything between the read and the delete can
happen in between. `recheck` is step 5, the registration once more. Deletes are
by name. A call fails, or is carried out and its answer lost; the command is
interrupted (`Killed`) and run again, with `--dry-run` or with `--confirm`.

The daemon's side is composed, not rewritten: `R` is `Reconcile` with its
`owner`, the worth of the own credential, substituted by what is left of the
identity, its role and its binding. A pass begins only while the daemon's last
List has the connection and nothing contests it (`Poll`, `PassReads`), goes on
once it has begun, and its writes are recorded in `late` (`PassWrites`):
an apply of the registration carries label and owner, a Secret created by the
apply of the credential carries neither. `rival` is another connection that
claims the same endpoint or the same Secret; when this one is gone the daemon
publishes it there (`RivalPublishes`).

`misnamed` says that the names used are not the ones there were, which happens
when the connection is gone and flags are not given. `late` and `forecast` are
history. The instances in `MCRemove` start with at most one thing out of the
ordinary - a broken or missing connection, a rival, a cluster that does not
answer or is to be skipped, one object without the label or of another owner -
and let a pass run where labels are as they should be. `TypeOK` includes
`Reconcile`'s, and that an endpoint is compared only where one was read.

### Bootstrap

`runBootstrap` as it runs: the role, ArgoCD's Secret (`target`), the duplicate
check, and then the writes - the own identity's account, binding and role,
ArgoCD's account and binding, the credential, the connection. With
`--replace-argocd-binding` a binding of another role is deleted and created
again in two calls, between which a pass may restore the old one. A mode is a
path through these: `--print` and `--print-downstream` stop at what another
person applies (`Commit`, `ApplyDownstream`), `--complete` begins there, and
`--dry-run` ends before the first write. `run` is a command each; they act in any
order, and each may fail or be killed at any call (`Fails`).

The daemon is one pass at a time over what its last List had (`known`): it
renews as the connection names, restores ArgoCD's identity with what permission
it has (`mayBind`), publishes. Whose ServiceAccount names are meant is `default`
or `given` (`Ids`), because `connectionFor` does not write the given ones.

`unseen`, `twins` and `disturbed` are history and say what no command could have
known: a Secret that appeared after the check or could not be read, two claims
of which neither saw the other, and a command beside or after which somebody
else acted. Each property is conditioned on one of them and on nothing else.
Building the admin client and checking the certificate is a start that fails.
Proving the credential before it is stored only warns, so it decides nothing.

### Inventory

`Listed` is `decode`'s output after `blockContestedEndpoints` and
`blockContestedSecrets`, in this order, as functions from names to entries;
`SoleClaims` and `RightlyHeld` say the same without the two passes. There is no
order of entries in the module, and the verdicts can therefore not depend on it.

### Hardening

`executeRestriction` as it runs: the List and `BuildPlan`, the inspection of
three objects, the confirmation, the same inspection again, then for each object
Get and Create or Update (`fresh` is what `resourceVersion` compares), then three
reads and a review of one name at a time (`left`). What `--print` printed is
committed and synced (`Commit`, `Sync`) in the order of its sync waves. People
edit the inventory, upgrade the Helm release, and delete or replace the
generated objects. A Role is the set of names it grants and whether it is
labelled as this tool's; the chart's Role is one of three (`Baselines`). Empty
rules that are nil in one place and `[]` in another, the ServiceAccount, and the
baseline's own binding are left out: they are as the chart installs them.

### Health

Time is discrete and every call of the loop and of a pass takes any time up to its
deadline (`left`), or never returns (`Hang`); `Tick` is enabled when nothing
that takes no time is to be done. `todo` counts the calls that the loop makes one
after another with a deadline each: `restampSchemaCondition`'s writes and the
Events of withdrawn verdicts. `Live` is `isLive`, `Record` and `Publish` the two
places that publish readiness. `checkSchema` reads the CRD with no deadline of
its own; a read that takes longer than any other call may counts as one that
hangs. `Restart` is the kubelet.

### Lifetimes

One cluster: `Poll` and `Dispatch` quantise, `claimDue` allows `DueSlack`,
`NextInterval`, `DueAfterPass` and `Backoff` set the next time, `Reissue`,
`RenewalDue` and `Critical` decide what a pass replaces. A credential is its age
and what is left of it, and whether issue time and expiry are recorded. A pass
decides at its beginning, takes any time up to `ClusterTimeout`, and succeeds or
fails as it likes; an API server grants any lifetime of a set, none longer than
what is requested. `failures`, `refused` and `since` are history.

## Runs

Eight runs pass. Between them every property has the instance in which it can
go wrong, and each is broken by at least one plausible mistake in the code
(`PROJECT.json`, `mutants`; the mistaken definitions stand beside the right ones).

| run | shows | bounds |
|---|---|---|
| `SchedulerLive` | single flight, uncontested starts, verdicts kept and withdrawn, refinement of `SingleFlight`; edits and verdicts take effect without the cadence | two names, one claim, one slot, two edits |
| `SchedulerLossy` | the same liveness with the cadence; `Synced` | one connection that may be created again, two claims, one refused write and one restart, or one schema change |
| `ReconcileHeals` | success is published and alive; never for the worse; no success over a foreign credential; never locked out; never bare; what people break comes right | any two events, two configurations, one fault, one restart |
| `RemoveSafety` | done means gone; a preview foretells; what is not this tool's, or shared, is spared | two runs of the command, one pass, one fault, one oddity |
| `Bootstrap` | nothing taken over unrecorded; one connection a cluster; done means provisioned and soon published; the gap of a replaced binding closes | two names, two commands in any of nine forms, one event or one fault |
| `Hardening` | no permission gap; success is narrow; others' objects are kept; plans are made of right verdicts | three connections, two endpoints, two Secrets, two commands, two events or one fault, up to symmetry |
| `Health` | slow is alive; readiness is true; hung is restarted | two clusters, one slot, two changes of the inventory or one call that hangs |
| `Lifetimes` | the token outlives a failed pass; passes keep their cadence; the own credential is renewed in time, or its lapse foretold | one cluster, durations scaled; nothing bounds time or the number of passes |

The bounds are small because the hazards are: each needs one or two outside
events at the wrong moment of one pass. Two connections and one claim give a
conflict, its resolution and its handover; two edits make one appear and go
away; one slot makes a claimed pass wait. In `Reconcile` four tokens are enough
for any run, since no more than the Secret's, the recorded, the carried and the
new one are ever told apart, and a name is used again when nobody holds it. Two
events are a change and its undoing, or a change during the repair of another.

In `Remove` two runs are a preview and the run it foretells, or a run and its
repetition; one pass is one that was under way when the connection was deleted.

In `Bootstrap` two names make a duplicate, two commands a race or a repetition,
and a fault is what turns a command into a half-written one that is repeated. In
`Hardening` three connections are a conflict and a bystander, and two Secrets an
allowlist that can be too short or too long. `Health` scales durations so that
what counts is kept - a call against a poll, the budget of a poll of two
clusters against `MaxProgressAge`, which `WithinBudget` meets with nothing to
spare, and two calls against `PassGrace`, likewise. `Lifetimes` scales likewise,
a poll to four units: the slack is half a poll, the longest interval four polls,
half the lifetime granted to the own credential comes before its renewal
interval, and of the tokens granted one is so short that half its life sets the
cadence.

Instances named `OneOdd` begin with a part of their bounds spent - either what
people do or what fails - since the two together add runs and no cases.

Passes of `Scheduler`, `Reconcile` and `Lifetimes` follow each other for ever, as
do polls in `Health`. In `Remove`, `Bootstrap` and `Hardening` the commands end,
and the daemon with nothing left to do waits, so their runs switch the deadlock
check off.

### Where code and words part

Four runs end in a violation, each of one property that a document or a comment
states. Each has a counterpart that does hold, with the case the code misses
taken out: the difference between the two is the finding.

| run | what happens | what holds instead |
|---|---|---|
| `ReconcileDead` | the ServiceAccount is recreated, the pass fails before it republishes, and later passes find the dead token current (README: "forces an immediate reissue") | `SuccessIsAlive` |
| `RemoveAgain` | refused for a shared endpoint and run again as advised, the command deletes the identities the other connection uses | `SparesShared` |
| `BootstrapNamed` | bootstrapped with a ServiceAccount name of its own, the connection does not name it, and the daemon asks for tokens of an account that is not there | `DoneMeansProvisioned`; the property itself where all names are the defaults (`DefaultsRenew`) |
| `LifetimesUndated` | with `selfTokenTTL` of a day or less, a credential without a recorded issue time - every one that bootstrap stores - is never due, and lapses under a Ready connection | `RenewedInTime` and `LapseForetold` under `RenewalFits`, in `Lifetimes` |

Seven more instances are kept beside these, for the same comparison:

| configuration | what happens | what holds instead |
|---|---|---|
| `SchedulerRecreated` | a connection deleted and created again under a running pass is Synced for a spec never reconciled (`SyncedIsCurrent`) | `SyncedIsReconciled` |
| `ReconcileRevoked` | revoked and bootstrapped between proof and store, the new credential is overwritten by a dead one (`SelfRenewalSafe`) | `NotLockedOut` |
| `RemoveListed` | a pass in flight creates the Secret again without its label; the last look says nothing, and the command that it is done (README: "anything left behind is listed") (`LeftIsListed`) | `DoneMeansGone` |
| `RemoveNeighbour` | two connections share a Secret name, one is removed, the other is published there and the last look deletes it (README: "left alone") (`SparesNeighbours`) | `SparesRefused` |
| `BootstrapTwice` | run again without `--adopt`, as the README calls safe, bootstrap applies the connection without the annotation, and the server drops it (`AdoptionIsKept`) | `AdoptionIsTrue` |
| `HardeningRules` | the chart's Role edited after the second inspection is overwritten, its new rules with it (comment at `Inspect`: "no other rules are silently replaced") (`RulesAreKept`) | `ForeignKept` |
| `HealthFleet` | `restampSchemaCondition` gives each write a deadline of its own, where `reportRejected` shares one so that a poll cannot stretch: with eight clusters a slow API server gets the process killed (comment at `maxProgressAge`: "a loop that has wedged" is the one cause) (`SlowIsAlive`) | `SlowIsAlive` under `WithinBudget` |

How often and what they cost differs. `ReconcileDead` lasts until the recorded
token is past half its lifetime; bootstrap recreating the account has the same
effect. `ReconcileRevoked` lasts until somebody runs bootstrap again, and so do
`BootstrapNamed` and `LifetimesUndated`, of which the latter comes back.
`RemoveListed` leaves a registration whose token is dead. `RemoveNeighbour` is
repaired by the daemon's next pass over the other connection, which finds its
Secret gone; `RemoveAgain` takes the daemon's access away and needs bootstrap.
`HealthFleet` needs a verdict on the CRD that changes, and every write slow.

Five more places where words and code part, which no run shows. The README says
that ArgoCD never sees a cluster without a credential, "not even briefly"; a
pass that is not the first applies the label first, so after somebody deleted
the Secret it is bare until that pass has minted (`NeverBare` excludes it). The
README says that a deleted binding stays gone until bootstrap is run again;
`CreateBinding` restores it. And `settleVerdict` re-reads the verdict before its
rewrite and not after it, so a verdict formed in between is covered until a
later poll (`VerdictHeld` speaks of the memory, `VerdictShown` of the end). Two
bootstraps at a time both pass the duplicate check (`twins`, which
`OneConnection` excludes); the README has it refuse, and the daemon then holds
both back. And the comment at `dueSlack` calls the rounding insensitive to whatever
comes between the tick and the comparison; a List that takes longer than the slack,
and still less than its deadline, does put a pass off to the next poll (`OnTime` is
proved under `WholePolls`, which excludes it).

One more reordering is in the model and breaks no property above: a List
answered before a pass wrote its status and merged after it puts the older
status back into `scheduler.state` (`MergedBase`). A verdict then written from
there carries the older fingerprint, and the next pass reissues a credential it
need not have; a schema change then (`PollRestamp`) can write a withdrawn
verdict once more, which is why `PromptResume` excludes it.

### Fairness

`Scheduler`: the ticker ticks and every call of the loop has a deadline
(`listTimeout`, `writeTimeout`), hence weak fairness of `PollStep`; a pass has
`clusterTimeout`, hence weak fairness of its steps; goroutines waiting for the
semaphore channel are served in order, hence strong fairness of `PassStart`,
which another pass can disable again and again by taking the slot. Nothing is
assumed of people, restarts or faults. `FairSpec` does not include `BecomeDue`,
so what holds under it does not wait for the cadence; `CadenceSpec` adds it,
since neither `maxPassInterval` nor `maxRetryInterval` exceeds half an hour.

`Reconcile`: passes follow each other and every client has a timeout, hence weak
fairness of `Step`. `AgeingSpec` adds that recorded tokens age, and only where
something cut a pass short or somebody else recreated an identity (`~Uncut`): in
all other behaviours `Heals` must hold with tokens that never grow old, so the
half-life is not what repairs.

`Bootstrap`: every call of a command has a deadline and the daemon polls and
passes for ever, hence weak fairness of a command's next step once it has been
given, of the poll and of the pass. Nobody has to give a command, commit what
one printed, or apply it, and nothing has to fail or not to. `DonePublishes` and
`GapCloses` therefore rest on the daemon alone once the command has ended.

`Health`: what does not hang keeps its deadline, time passes and the kubelet
probes, hence weak fairness of `LoopStep`, of the passes' steps, of `Tick` and of
`Restart`. `Hardening`, `Lifetimes` and `Remove` state no liveness and assume no
fairness.

## Proofs

`Scheduler_proofs` proves, for any fleet, number of slots and bounds:

* `TypeCorrect`: `Spec => []TypeOK`.
* `OnePass`: `Spec => []OnePassPerCluster`. Not inductive alone: what keeps a
  second pass away is that `running`, the goroutine and the tracked entry agree
  at every step, through departures and restarts (`Flight`).
* `BeginsUncontested`: `Spec => StartsUncontested`. Rests on `KnownApart`:
  cleared entries remembered by the scheduler have different claims, which the
  merge of a whole List establishes and nothing between two merges disturbs.
* `ImplementsContract`: `Spec => KeepsContract`, step by step from `Flight`.
* `SyncedMeansReconciled`: `Spec => []SyncedIsReconciled`, of every name whose
  object was never deleted. The strengthening `OneSpecPerGeneration` says that
  all copies of a generation - object, List, memory, pass - hold one spec;
  re-creation breaks exactly that, as `SchedulerRecreated` shows.
* `ConflictsAreCurrent`: `Spec => []AccusesOnlyInConflict`. `Accusations`: the same
  of every copy of a status - object, List, memory, pass, the poll's own - and a
  pass carries no accusation into what it is about to write.
* `VerdictsAreHeld`: `Spec => []VerdictHeld`. `Remembered`: from where the loop has
  been over an entry, its verdict is what a verdict laid over it once more would
  leave, or a pass has yet to settle what it wrote.
* `WithdrawalIsPrompt`: `Spec => []PromptResume`. `Prompt` says at each step of a
  pass what carries the withdrawal on: that its cluster is due, that it is to run
  again, or that nothing it writes is a verdict.
* `WhatIsSaidStays`: the half of `EditTakesEffect` and `VerdictShown` that is no
  liveness. What an object says, and rightly - a verdict, or the report of a pass -
  it says until people touch its spec or its standing among the others (`Left`).
  That is so of a state in which all that could yet write its status is as current
  (`Current`): the memory, a List that is not merged, the loop's write, and what a
  pass holds. Nothing is assumed of the other connections, of refused writes, of
  schema changes or of restarts. The liveness then needs such a state to be reached
  once.

`Reconcile_proofs` proves, for any number of events, faults, restarts and
configurations, with at least four tokens:

* `ReconcileTypeCorrect`: `Spec => []TypeOK`. Needs `Room`: an incarnation is
  created only where one is missing, which bounds them by the events; and
  `Carried`: a pass that is to mint holds no token, so three at most are in use
  and a fourth is free (`NewTokenUnused`).
* `KeepsAccess`: `Spec => []NotLockedOut`. `Own` adds that the
  credential a pass has proved and is about to store works as well.
* `NeverShownBare`: `Spec => []NeverBare`. `NothingRecorded`: while the Secret
  has no credential it has no label, neither status nor pass records one, and
  no pass is at a call that sets the label.
* `SuccessIsOurs`: `Spec => NoSuccessOverForeign`. `OwnRecord`: neither the
  status nor a pass ever records a foreign credential; success compares with it.
* `ReplacesNothingLive`: `Spec => NeverForTheWorse`. `Newest`: no token is
  bound to a later incarnation than the account's, and the one a pass has proved
  is bound to the latest any is: if it has died since, so has every other.
* `ReportsWhatIsPublished`: `Spec => []SuccessIsPublished`. `Undisturbed`
  follows one pass from its first read to its report: as long as nobody else
  has acted, each call leaves what the later ones rely on.
* `ReportsWhatIsAlive`: `Spec => []SuccessIsAlive`. `FollowedUp`: where no pass
  was cut short, the tool's own access stands (`Standing`), and a recorded token
  that is dead while the account is there is the business of a pass at work that
  recreated the account (`Followed`). `ReconcileDead` is what happens without
  the condition.
* `WhatIsRightStays`: the half of `Heals` that is no liveness. Once what ArgoCD has
  is right, and a pass under way works on the configuration it is right by
  (`Settled`), it stays right until somebody acts: passes replace the credential,
  apply the registration again and stop anywhere. Rests on `Newest`.

`Remove_proofs` proves, for any number of runs, passes and faults:

* `RemoveTypeCorrect`: `Spec => []TypeOK`, that of the composed `Reconcile`
  included. Its lemmas about a pass's own steps (`StepCarries`, `Carried`) are used
  through an instance of `Reconcile_proofs` with the substitution of `Remove`.
  `Room` is not: here the command deletes accounts as well, and no event counts
  that. What bounds the incarnations is that a pass creates one account at most, and
  passes are counted (`Spare`).
* `RefusedSurvive`: `Spec => SparesRefused`, and `SharedSurvive`:
  `Spec => SparesShared`. `AtWork`: a command is never at a step it is to pass
  over, and an object it is about to delete was there, and labelled, when looked
  at; `Compared`: an endpoint was compared wherever one was read.
* `DoneIsGone`: `Spec => []DoneMeansGone`. `Cleared`: every object the command
  has passed is gone, refused, failed, to be skipped, or `late`; and `Sound`, of the
  composed pass: it stores and publishes only tokens it has tried.
* `PreviewsAreKept`: `Spec => []PreviewTold`. `Promise` is what a command lists
  now and what, as things stand, it will come to list; an undisturbed one keeps
  its promise at every step, and while a preview is valid what it said is what a
  command that starts to tear down promises (`Previews`, `Foretold`).

`Bootstrap_proofs` proves, for any names, commands, events and faults:

* `BootstrapTypeCorrect`: `Spec => []TypeOK`.
* `RefusalsChangeNothing`: `Spec => []RefusedUntouched` (`Untouched`: a command
  still checking, or in a mode that only previews, has not written).
* `AdoptionsAreReal`: `Spec => []AdoptionIsTrue`. `Recorded`: whatever says
  adopted - object, List, pass, command under way - has a foreign Secret to show.
* `TakeoversAreKnown`: `Spec => NoSilentTakeover`. `ForeignVouched`: while a
  foreign Secret stands that a command could see, every copy of the connection
  that a pass may work from records the adoption.
* `ClustersTakeOneConnection`: `Spec => []OneConnection`. `OneClaim`: without
  `twins` at most one name is connected or pending.
* `DoneIsProvisioned`: `RolesAgree => (Spec => []DoneMeansProvisioned)`. `Served`
  says phase by phase what an undisturbed command has downstream, which passes must
  leave as it is or restore; so nothing that a connection names (`AsDeclared`) and
  nothing that the other accounts may bind (`SameRole`) can lead a pass elsewhere.
  Without `RolesAgree` it is false: after a command that gave other names and asked
  for role X, a command with the defaults asks for Y; a pass works as the account
  that may bind X, restores the binding of the default account between the second
  command's look and its create, and the create, which finds one, is content. Two
  people would have to choose both names and roles differently for one cluster.
* `DefaultsRenew`: `DoneRenews` where no names are given, from the same invariant.

`Inventory_proofs` proves `ListedRight`: for any inventory, finite or not, the
verdicts of `Listed` satisfy `SoleClaims` and `RightlyHeld`.

`Hardening_proofs` proves, for any fleet and any number of commands:

* `RestrictTypeCorrect`: `Spec => []TypeOK`; and `PlansAreUncontested`:
  `Spec => []InventoryRight`, from `ListedRight`.
* `DoneIsNarrow`: `Spec => []SuccessIsNarrow`. `ReadBackInv`: an object a command
  has read back is as it was read, or the command is in `meddled`.
* `RefusalsChangeNothing`: `Spec => []RefusedUntouched` (`UnwrittenInv`).
* `ActivationHasNoGap`: `Spec => NoGap`. `PreparedInv`: a command about to narrow
  the chart's Role, or a sync that has come to it, has the generated Role and its
  binding in place, or is `crossed`.
* `ForeignIsKept`: `Spec => ForeignKept`. `SeenInv`: what a command is about to
  update is as it inspected it, or people have changed it since.

`Lifetimes_proofs` proves, for any durations and grants the assumption allows:

* `LifetimesTypeCorrect`: `Spec => []TypeOK`.
* `PassesAreOnTime`: `WholePolls => (Spec => []OnTime)`. `Punctual`: what has passed
  since a pass began is a whole number of polls and the time since the last, give or
  take a List; so a poll that leaves the connection alone comes a whole poll before
  the interval is over, or came while the pass was in flight. `WholePolls` has two
  parts. The interval is a multiple of the poll's, as `maxPassInterval` is of
  `pollInterval`. And a List takes no longer than the slack: 15 of the 30 seconds
  the code gives it. With a slower one TLC finds `OnTime` violated. A
  pass may take as long as the interval (`clusterTimeout` and `maxPassInterval` are
  both five minutes), and the next one begins a poll after it.
* `TokenOutlivesPasses`: `Spec => []TokenLives`. `Recent` bounds the time from one
  pass to the next by cadence, slack and poll; `Lasts` says that what is left of
  the token covers the wait for the next pass, and the retry after it.
* `LapsesAreForetold`: `RenewalFits => (Spec => []LapseForetold)`, and
  `RenewalsAreInTime`: `RenewalFits => (Spec => []RenewedInTime)`. `OwnInv`: while
  the connection says Ready the own credential outlives the pass in flight or the
  next, what a pass decided to leave as it is lasts to the one after, and Ready is
  taken back only where something was refused. With the intervals of the code
  `Gap` is about eleven minutes; grants and renewal interval are well above it, and
  `RenewalFits` comes down to a `selfTokenTTL` that exceeds a day by that much.
  The configuration allows an hour (`minTokenTTL`), and `LifetimesUndated` shows
  what follows.

`Health_proofs` proves, for any finite inventory and any durations:

* `HealthTypeCorrect`: `Spec => []TypeOK`.
* `NeverKilledForSlowness`: `WithinBudget => (Spec => []SlowIsAlive)`. `AliveInv`
  adds up the longest that is left of a poll and of a pass, call by call. The
  condition is the budget of the code: the poll's calls, one after another, within
  `maxProgressAge`, and two writes within `passGrace`. With the deadlines of the
  code the second is met exactly, and the comparison is strict.
* `ReadyIsTold`: `Spec => []ReadyIsTrue`.
* `WhatHangsRunsOut`: the half of `HungIsRestarted` that is no liveness. `StuckInv`:
  what hangs is a call of the loop, or of a pass whose clock runs. So nothing but the
  restart ends it, and the age `isLive` looks at grows by every tick up to the one at
  which it fails; what is left to fairness is that time passes.

The assumptions are those on the constants, and `WithinBudget`, `RenewalFits`,
`WholePolls` and `RolesAgree` where they are said; there are no others. Each of
these four is met by the constants of a run, and TLC evaluates `RolesAgree` for
every instance of `MCBootstrap`. Modules state their type invariants for the proofs'
sake; runs check only `Remove`'s.

Every invariant and every action property that a passing run checks is proved. Only
model-checked are the six that hold under fairness: `EditTakesEffect`,
`VerdictShown`, `Heals`, `DonePublishes`, `GapCloses` and `HungIsRestarted`. Leads-to
and `ENABLED` are beyond the prover; of four of them it has the safety half
(`WhatIsSaidStays`, `WhatIsRightStays`, `WhatHangsRunsOut`). `DonePublishes` and
`GapCloses` have none worth the name: what was published, or bound, is theirs to
take away who act on the objects, and the daemon has no step that does.

## Not modelled

Time, except in `Health` and `Lifetimes`: elsewhere due and aged are bits, and a
pass is taken to run while tokens are within their lifetime. `Lifetimes` has one
cluster, so waiting for a slot is no part of `Late`.

Rendering of Secrets and the report of their other field managers
(`reportSecretOwnership`), which only notes. Parsing, defaults and normalisation
of specs, and the comparison of the CRD's fields: pure, and the repository's
tests go through them case by case. Certificates: a probe fails or does not.
Metrics, telemetry, the wording of events and of the commands' output, HTTP
handlers, flags, client construction: they change nothing the program reads. The
chart and the scripts, except where a command relies on what they install. Two
daemons at once: the chart runs one replica and the program has no election.

## Plan

1. `Fleet`: two connections' passes over the Secrets they share, composing what
   `Scheduler` lets run at once with the writes of `Reconcile`; a claim that is
   handed over while a pass works on it.
2. Theorems: that the states the safety halves start from are reached, as far as it
   is safety - each step of a pass or a poll leads nearer to `Current`, `Settled`
   and `~Restorable` (a rank that no other step raises); that `RenewalFits` follows
   from a configuration of more than a day.
