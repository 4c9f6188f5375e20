------------------------------ MODULE Scheduler ------------------------------
(***************************************************************************)
(* The daemon's scheduler (cmd/scheduler.go) over the ClusterConnection    *)
(* objects it serves: one poll loop and, per cluster, at most one pass.    *)
(*                                                                         *)
(* A step is what the code does between two points where another goroutine *)
(* or another client of the API server can act: one critical section of    *)
(* s.mu, or one API call.  A List and the merge of what it returned are    *)
(* two steps, and so are a verdict and the write that carries it.          *)
(*                                                                         *)
(* The work of a pass (reconcile.Reconciler.Cluster) is one step here,     *)
(* known by its contract; module Reconcile opens it up.                    *)
(***************************************************************************)
EXTENDS Naturals, FiniteSets

CONSTANTS
    Names,        \* names of ClusterConnections
    Claims,       \* what a spec resolves to and only one connection may own:
                  \* an endpoint, or an ArgoCD Secret name
    Broken,       \* a spec that does not resolve
    Slots,        \* maxConcurrentPasses
    MaxGen,       \* bound: generations of one object
    MaxEdits,     \* bound: creations, edits and deletions by people
    MaxMints,     \* bound: credentials recorded per cluster
    MaxFaults,    \* bound: status writes the API server refuses
    MaxRestamps,  \* bound: changes of the CRD schema verdict
    MaxRestarts   \* bound: restarts of the daemon

ASSUME SchedulerAssumption ==
    /\ Broken \notin Claims
    /\ IsFiniteSet(Names)
    /\ Slots \in Nat \ {0}
    /\ MaxGen \in Nat \ {0} /\ MaxEdits \in Nat /\ MaxMints \in Nat
    /\ MaxFaults \in Nat /\ MaxRestamps \in Nat /\ MaxRestarts \in Nat

VARIABLES
    object,   \* API server: per name, the object's spec revision and status
    state,    \* scheduler.state, what the process remembers per cluster
    poll,     \* the poll loop: where it stands and what it holds
    pass,     \* the pass goroutine of each cluster
    minted,   \* credentials passes have recorded, per cluster: identifies each one
    gone,     \* names of objects that have been deleted
    edits, faults, restamps, restarts   \* how much of each bound is used

vars == <<object, state, poll, pass, minted, gone, edits, faults, restamps, restarts>>

-----------------------------------------------------------------------------
(* The data.  A revision is a spec with the generation the API server gave *)
(* it; generation zero is an object that is not there.  A status keeps the *)
(* reason of Ready, whether Conflict is set, the generation it was written *)
(* for and the credential it records as published (zero: none).            *)

Specs == Claims \cup {Broken}
Revision == [gen : 0..MaxGen, spec : Specs]
NoRevision == [gen |-> 0, spec |-> Broken]

Verdicts == {"InvalidSpec", "Conflict"}
Status == [gen : 0..MaxGen, ready : {"Unset", "Ready", "Failed"} \cup Verdicts,
           accuses : BOOLEAN, credential : 0..MaxMints]
NoStatus == [gen |-> 0, ready |-> "Unset", accuses |-> FALSE, credential |-> 0]

Object == [rev : Revision, status : Status]
Absent == [rev |-> NoRevision, status |-> NoStatus]
NewObject(spec) == [rev |-> [gen |-> 1, spec |-> spec], status |-> NoStatus]
Exists(obj) == obj.rev.gen > 0

\* What List says of one entry among all: a spec that does not resolve, then
\* a claim another resolvable connection makes too, then nothing.
Contested(objs, n) ==
    /\ Exists(objs[n]) /\ objs[n].rev.spec # Broken
    /\ \E m \in Names \ {n} : Exists(objs[m]) /\ objs[m].rev.spec = objs[n].rev.spec
VerdictIn(objs, n) ==
    CASE objs[n].rev.spec = Broken -> "InvalidSpec"
      [] Contested(objs, n) -> "Conflict"
      [] OTHER -> "None"

Edited(obj) == obj.rev.gen # obj.status.gen

\* clusterState.  `passed` is passedGeneration, with the spec that was
\* reconciled kept beside it; the code keeps the generation only.
ClusterState ==
    [tracked : BOOLEAN, rev : Revision, status : Status, due : BOOLEAN,
     running : BOOLEAN, departed : BOOLEAN, passed : Revision,
     invalid : {"None"} \cup Verdicts, rerun : BOOLEAN]
Untracked ==
    [tracked |-> FALSE, rev |-> NoRevision, status |-> NoStatus, due |-> FALSE,
     running |-> FALSE, departed |-> FALSE, passed |-> NoRevision,
     invalid |-> "None", rerun |-> FALSE]

\* One pass.  `status` is what it carries (the prior status, then its
\* result) and `written` what it last sent to the API server.
PassPc == {"none", "queued", "reconciling", "writing", "recording",
           "settling", "rewriting", "leaving", "releasing"}
Pass == [pc : PassPc, rev : Revision, status : Status, written : Status, ok : BOOLEAN]
NoPass == [pc |-> "none", rev |-> NoRevision, status |-> NoStatus,
           written |-> NoStatus, ok |-> FALSE]

\* The poll loop.  `list` is what List returned, until it is merged; `todo`
\* the clusters the phase still has to visit; `at` and `status` what is being
\* written.
\* Between two ticks the loop stands at "report" with nothing to do.
PollPc == {"restamp", "listed", "dispatch", "report", "writing"}
Nothing == [n \in Names |-> Absent]
NoPoll == [pc |-> "report", list |-> Nothing, todo |-> {},
           at |-> {}, status |-> NoStatus]

TypeOK ==
    /\ object \in [Names -> Object]
    /\ state \in [Names -> ClusterState]
    /\ poll \in [pc : PollPc, list : [Names -> Object], todo : SUBSET Names,
                at : SUBSET Names, status : Status]
    /\ pass \in [Names -> Pass]
    /\ minted \in [Names -> 0..MaxMints]
    /\ gone \subseteq Names
    /\ edits \in 0..MaxEdits /\ faults \in 0..MaxFaults
    /\ restamps \in 0..MaxRestamps /\ restarts \in 0..MaxRestarts

Init ==
    /\ object \in [Names -> {Absent} \cup {NewObject(s) : s \in Specs}]
    /\ state = [n \in Names |-> Untracked]
    /\ poll = NoPoll
    /\ pass = [n \in Names |-> NoPass]
    /\ minted = [n \in Names |-> 0]
    /\ gone = {}
    /\ edits = 0 /\ faults = 0 /\ restamps = 0 /\ restarts = 0

-----------------------------------------------------------------------------
(* Shared by both writers of a status.                                     *)

\* rejectedStatus: the verdict laid over a status.
RejectedWithoutGeneration(status, entry) ==    \* mutant: ObservedGeneration is left alone
    [status EXCEPT !.ready = entry.invalid, !.accuses = (entry.invalid = "Conflict")]
Rejected(status, entry) ==
    [status EXCEPT !.gen = entry.rev.gen, !.ready = entry.invalid,
                   !.accuses = (entry.invalid = "Conflict")]

\* What a pass's result must read once the verdict held now is laid over it.
Overlaid(status, entry) ==
    IF entry.invalid # "None" THEN Rejected(status, entry) ELSE status

\* The overlay turned a condition, which is stamped with the time it turned at:
\* laid over the same result a second time, it gives a different status.
Stamps(status, entry) ==
    entry.invalid = "Conflict" \/ (entry.invalid = "InvalidSpec" /\ status.ready = "Ready")

\* UpdateStatus: by name, onto whatever object bears it now, or not at all.
WriteStatus(n, status) ==
    \/ /\ Exists(object[n])
       /\ object' = [object EXCEPT ![n].status = status]
       /\ UNCHANGED faults
    \/ /\ ~Exists(object[n])
       /\ UNCHANGED <<object, faults>>
    \/ /\ faults < MaxFaults
       /\ faults' = faults + 1
       /\ UNCHANGED object

\* blockedReason is not empty.
Blocked(entry) == entry.invalid # "None" \/ entry.departed

-----------------------------------------------------------------------------
(* The poll loop: tick, refresh, dispatch, reportRejected.                 *)

\* A tick begins with checkSchema.  When the schema verdict has changed, every
\* tracked cluster without a pass is to have its status written again.
PollTick ==
    /\ poll.pc = "report" /\ poll.todo = {}
    /\ \/ /\ poll' = [poll EXCEPT !.pc = "restamp"]
          /\ UNCHANGED restamps
       \/ /\ restamps < MaxRestamps
          /\ restamps' = restamps + 1
          /\ poll' = [poll EXCEPT !.pc = "restamp",
                         !.todo = {n \in Names : state[n].tracked /\ ~state[n].running}]
    /\ UNCHANGED <<object, state, pass, minted, gone, edits, faults, restarts>>

\* restampSchemaCondition, one cluster.  The status was copied when the phase
\* began; nothing changes state[n].status while n is idle and the loop is here.
PollRestamp(n) ==
    /\ poll.pc = "restamp" /\ n \in poll.todo
    /\ WriteStatus(n, state[n].status)
    /\ poll' = [poll EXCEPT !.todo = @ \ {n}]
    /\ UNCHANGED <<state, pass, minted, gone, edits, restamps, restarts>>

\* inventory.List answers.  When it fails the tick ends, having changed nothing.
PollList ==
    /\ poll.pc = "restamp" /\ poll.todo = {}
    /\ poll' = [poll EXCEPT !.pc = "listed", !.list = object]
    /\ UNCHANGED <<object, state, pass, minted, gone, edits, faults, restamps, restarts>>

\* updateSchedule for a cluster the list holds: new, edited or with its
\* verdict withdrawn it is due now, and a withdrawal is remembered for the
\* end of a pass in flight.
MergedBase(entry, obj, verdict) ==
    [entry EXCEPT !.tracked = TRUE, !.departed = FALSE,
                  !.rev = obj.rev, !.status = obj.status, !.invalid = verdict]
MergedWithoutRerun(entry, obj, verdict) ==       \* mutant: only dueAt is set
    [MergedBase(entry, obj, verdict) EXCEPT
        !.due = @ \/ ~entry.tracked \/ Edited(obj) \/ (entry.invalid # "None" /\ verdict = "None")]
MergedWithoutEdits(entry, obj, verdict) ==       \* mutant: a change waits for the cadence
    [MergedBase(entry, obj, verdict) EXCEPT !.due = @ \/ ~entry.tracked]
MergedStillDeparted(entry, obj, verdict) ==      \* mutant: departed is never taken back
    [MergedBase(entry, obj, verdict) EXCEPT !.departed = entry.departed,
        !.due = @ \/ ~entry.tracked \/ Edited(obj)]
MergedTrustingMemory(entry, obj, verdict) ==     \* mutant: the status is read once
    [MergedBase(entry, obj, verdict) EXCEPT
        !.status = IF entry.tracked THEN entry.status ELSE @,
        !.due = @ \/ ~entry.tracked \/ Edited(obj)]
Merged(entry, obj, verdict) ==
    LET resumed == entry.invalid # "None" /\ verdict = "None" IN
    [MergedBase(entry, obj, verdict) EXCEPT
        !.due = @ \/ ~entry.tracked \/ Edited(obj) \/ resumed,
        !.rerun = IF resumed THEN entry.running ELSE @]

\* ... and for one it does not hold: kept, marked, while a pass needs it.
MissingDropped(entry) == Untracked               \* mutant: dropped under its pass
Missing(entry) ==
    IF entry.running THEN [entry EXCEPT !.departed = TRUE] ELSE Untracked

PollUpdate ==
    /\ poll.pc = "listed"
    /\ state' = [n \in Names |->
           IF Exists(poll.list[n])
           THEN Merged(state[n], poll.list[n], VerdictIn(poll.list, n))
           ELSE Missing(state[n])]
    /\ poll' = [poll EXCEPT !.pc = "dispatch", !.list = Nothing]
    /\ UNCHANGED <<object, pass, minted, gone, edits, faults, restamps, restarts>>

\* claimDue, the goroutines it starts, and blockedClusters, whose answer only
\* this loop can change.
DueTwice(n) ==                                   \* mutant: the claim is not consulted
    state[n].tracked /\ ~Blocked(state[n]) /\ state[n].due
Due(n) ==
    state[n].tracked /\ ~state[n].running /\ ~Blocked(state[n]) /\ state[n].due

PollDispatch ==
    /\ poll.pc = "dispatch"
    /\ state' = [n \in Names |-> IF Due(n) THEN [state[n] EXCEPT !.running = TRUE] ELSE state[n]]
    /\ pass' = [n \in Names |-> IF Due(n) THEN [NoPass EXCEPT !.pc = "queued"] ELSE pass[n]]
    /\ poll' = [poll EXCEPT !.pc = "report",
                            !.todo = {n \in Names : state[n].invalid # "None"}]
    /\ UNCHANGED <<object, minted, gone, edits, faults, restamps, restarts>>

\* verdictFor: the object already says so.
PollVerdictStands(n) ==
    /\ poll.pc = "report" /\ n \in poll.todo
    /\ Rejected(state[n].status, state[n]) = state[n].status
    /\ poll' = [poll EXCEPT !.todo = @ \ {n}]
    /\ UNCHANGED <<object, state, pass, minted, gone, edits, faults, restamps, restarts>>

\* verdictFor: it does not; the payload is made under the lock ...
PollVerdictNeeded(n) ==
    LET desired == Rejected(state[n].status, state[n]) IN
    /\ poll.pc = "report" /\ n \in poll.todo
    /\ desired # state[n].status
    /\ state' = [state EXCEPT ![n].status = desired]
    /\ poll' = [poll EXCEPT !.pc = "writing", !.todo = @ \ {n}, !.at = {n}, !.status = desired]
    /\ UNCHANGED <<object, pass, minted, gone, edits, faults, restamps, restarts>>

\* ... and written without it.
PollVerdictWrite(n) ==
    /\ poll.pc = "writing" /\ n \in poll.at
    /\ WriteStatus(n, poll.status)
    /\ poll' = [poll EXCEPT !.pc = "report", !.at = {}, !.status = NoStatus]
    /\ UNCHANGED <<state, pass, minted, gone, edits, restamps, restarts>>

-----------------------------------------------------------------------------
(* A pass: the goroutine dispatch starts, and reconcileOne.                *)

Held == {n \in Names : pass[n].pc \notin {"none", "queued", "releasing"}}

\* A slot is free, and the claim was checked again: no longer valid.
PassAbandon(n) ==
    /\ pass[n].pc = "queued" /\ Cardinality(Held) < Slots
    /\ Blocked(state[n])
    /\ pass' = [pass EXCEPT ![n].pc = "leaving"]
    /\ UNCHANGED <<object, state, poll, minted, gone, edits, faults, restamps, restarts>>

\* A slot is free, and the claim still holds: the pass takes its own copy of
\* the spec, its generation and the status, less any Conflict.
PassBeginUnchecked(n) ==                         \* mutant: the queued claim is trusted
    /\ pass[n].pc = "queued" /\ Cardinality(Held) < Slots
    /\ pass' = [pass EXCEPT ![n].pc = "reconciling", ![n].rev = state[n].rev,
                            ![n].status = [state[n].status EXCEPT !.accuses = FALSE]]
    /\ state' = [state EXCEPT ![n].rerun = FALSE]
    /\ UNCHANGED <<object, poll, minted, gone, edits, faults, restamps, restarts>>
PassBeginAccusing(n) ==                          \* mutant: Conflict is carried forward
    /\ pass[n].pc = "queued" /\ Cardinality(Held) < Slots
    /\ ~Blocked(state[n])
    /\ pass' = [pass EXCEPT ![n].pc = "reconciling", ![n].rev = state[n].rev,
                            ![n].status = state[n].status]
    /\ state' = [state EXCEPT ![n].rerun = FALSE]
    /\ UNCHANGED <<object, poll, minted, gone, edits, faults, restamps, restarts>>
PassBegin(n) ==
    /\ pass[n].pc = "queued" /\ Cardinality(Held) < Slots
    /\ ~Blocked(state[n])
    /\ pass' = [pass EXCEPT ![n].pc = "reconciling", ![n].rev = state[n].rev,
                            ![n].status = [state[n].status EXCEPT !.accuses = FALSE]]
    /\ state' = [state EXCEPT ![n].rerun = FALSE]
    /\ UNCHANGED <<object, poll, minted, gone, edits, faults, restamps, restarts>>

\* rec.Cluster returns a status for the generation it was given, carrying the
\* recorded credential or one just issued.  Without an error some credential
\* is published, and Ready may still be False (its own access is running out).
\* The verdict held at that moment goes over the result.
PassReconcile(n) ==
    /\ pass[n].pc = "reconciling"
    /\ \E ok \in BOOLEAN, ready \in {"Ready", "Failed"},
          credential \in {pass[n].status.credential, minted[n] + 1} :
           LET result == [pass[n].status EXCEPT !.gen = pass[n].rev.gen, !.ready = ready,
                                                !.credential = credential] IN
           /\ credential <= MaxMints
           /\ ready = "Ready" => ok
           /\ ok => credential # 0
           /\ minted' = [minted EXCEPT ![n] = IF credential > @ THEN credential ELSE @]
           /\ pass' = [pass EXCEPT ![n].pc = "writing", ![n].status = result, ![n].ok = ok,
                                   ![n].written = Overlaid(result, state[n])]
    /\ UNCHANGED <<object, state, poll, gone, edits, faults, restamps, restarts>>

PassWrite(n) ==
    /\ pass[n].pc = "writing"
    /\ WriteStatus(n, pass[n].written)
    /\ pass' = [pass EXCEPT ![n].pc = "recording"]
    /\ UNCHANGED <<state, poll, minted, gone, edits, restamps, restarts>>

\* The result goes into memory, and the next pass is due at the cadence or
\* the backoff, or at once when a verdict cleared meanwhile.
PassRecordCurrent(n) ==    \* mutant: the generation known now, not the one reconciled
    /\ pass[n].pc = "recording"
    /\ state' = [state EXCEPT ![n].status = pass[n].written,
                              ![n].due = state[n].rerun, ![n].rerun = FALSE,
                              ![n].passed = IF pass[n].ok
                                            THEN [pass[n].rev EXCEPT !.gen = state[n].rev.gen] ELSE @]
    /\ pass' = [pass EXCEPT ![n].pc = "settling"]
    /\ UNCHANGED <<object, poll, minted, gone, edits, faults, restamps, restarts>>
PassRecord(n) ==
    /\ pass[n].pc = "recording"
    /\ state' = [state EXCEPT ![n].status = pass[n].written,
                              ![n].due = state[n].rerun, ![n].rerun = FALSE,
                              ![n].passed = IF pass[n].ok THEN pass[n].rev ELSE @]
    /\ pass' = [pass EXCEPT ![n].pc = "settling"]
    /\ UNCHANGED <<object, poll, minted, gone, edits, faults, restamps, restarts>>

\* settleVerdict, when what was written is what holds now ...
PassSettledBlindly(n) ==                         \* mutant: the verdict is not read again
    /\ pass[n].pc = "settling"
    /\ pass' = [pass EXCEPT ![n].pc = "leaving"]
    /\ UNCHANGED <<object, state, poll, minted, gone, edits, faults, restamps, restarts>>
PassSettled(n) ==
    /\ pass[n].pc = "settling"
    /\ Overlaid(pass[n].status, state[n]) = pass[n].written
    /\ ~Stamps(pass[n].status, state[n])
    /\ pass' = [pass EXCEPT ![n].pc = "leaving"]
    /\ UNCHANGED <<object, state, poll, minted, gone, edits, faults, restamps, restarts>>

\* ... and when a verdict arrived or cleared while it was being written, or
\* is there and was laid over the result anew.
PassUnsettled(n) ==
    LET desired == Overlaid(pass[n].status, state[n]) IN
    /\ pass[n].pc = "settling"
    /\ desired # pass[n].written \/ Stamps(pass[n].status, state[n])
    /\ state' = [state EXCEPT ![n].status = desired]
    /\ pass' = [pass EXCEPT ![n].pc = "rewriting", ![n].written = desired]
    /\ UNCHANGED <<object, poll, minted, gone, edits, faults, restamps, restarts>>

PassRewrite(n) ==
    /\ pass[n].pc = "rewriting"
    /\ WriteStatus(n, pass[n].written)
    /\ pass' = [pass EXCEPT ![n].pc = "leaving"]
    /\ UNCHANGED <<state, poll, minted, gone, edits, restamps, restarts>>

\* The deferred calls, in their order: the slot first, then the cluster.
PassLeave(n) ==
    /\ pass[n].pc = "leaving"
    /\ pass' = [pass EXCEPT ![n] = [NoPass EXCEPT !.pc = "releasing"]]
    /\ UNCHANGED <<object, state, poll, minted, gone, edits, faults, restamps, restarts>>

PassRelease(n) ==
    /\ pass[n].pc = "releasing"
    /\ pass' = [pass EXCEPT ![n] = NoPass]
    /\ state' = [state EXCEPT ![n].running = FALSE]
    /\ UNCHANGED <<object, poll, minted, gone, edits, faults, restamps, restarts>>

-----------------------------------------------------------------------------
(* The environment: time, people, and the death of the process.            *)

\* dueAt, set by the cadence or the backoff, is reached.
BecomeDue(n) ==
    /\ state[n].tracked /\ ~state[n].due
    /\ state' = [state EXCEPT ![n].due = TRUE]
    /\ UNCHANGED <<object, poll, pass, minted, gone, edits, faults, restamps, restarts>>

Create(n, spec) ==
    /\ ~Exists(object[n]) /\ edits < MaxEdits
    /\ object' = [object EXCEPT ![n] = NewObject(spec)]
    /\ edits' = edits + 1
    /\ UNCHANGED <<state, poll, pass, minted, gone, faults, restamps, restarts>>

Edit(n, spec) ==
    /\ Exists(object[n]) /\ edits < MaxEdits /\ object[n].rev.gen < MaxGen
    /\ spec # object[n].rev.spec
    /\ object' = [object EXCEPT ![n].rev = [gen |-> @.gen + 1, spec |-> spec]]
    /\ edits' = edits + 1
    /\ UNCHANGED <<state, poll, pass, minted, gone, faults, restamps, restarts>>

Delete(n) ==
    /\ Exists(object[n]) /\ edits < MaxEdits
    /\ object' = [object EXCEPT ![n] = Absent]
    /\ gone' = gone \cup {n}
    /\ edits' = edits + 1
    /\ UNCHANGED <<state, poll, pass, minted, faults, restamps, restarts>>

\* The process dies at any point and another starts: what is in the API
\* server stays, and nothing else.
Restart ==
    /\ restarts < MaxRestarts
    /\ restarts' = restarts + 1
    /\ state' = [n \in Names |-> Untracked]
    /\ pass' = [n \in Names |-> NoPass]
    /\ poll' = NoPoll
    /\ UNCHANGED <<object, minted, gone, edits, faults, restamps>>

-----------------------------------------------------------------------------

PollStep ==
    \/ PollTick \/ PollList \/ PollUpdate \/ PollDispatch
    \/ \E n \in Names : \/ PollRestamp(n) \/ PollVerdictStands(n)
                        \/ PollVerdictNeeded(n) \/ PollVerdictWrite(n)

PassStart(n) == PassAbandon(n) \/ PassBegin(n)
PassStep(n) ==
    \/ PassReconcile(n) \/ PassWrite(n) \/ PassRecord(n) \/ PassSettled(n)
    \/ PassUnsettled(n) \/ PassRewrite(n) \/ PassLeave(n) \/ PassRelease(n)

Environment ==
    \/ Restart
    \/ \E n \in Names : \/ BecomeDue(n) \/ Delete(n)
                        \/ \E spec \in Specs : Create(n, spec) \/ Edit(n, spec)

Next == PollStep \/ (\E n \in Names : PassStart(n) \/ PassStep(n)) \/ Environment

Spec == Init /\ [][Next]_vars

\* The loop ticks and every API call it makes has a deadline; so does a pass,
\* and goroutines waiting for a slot are served in the order they came.
\* Nothing is assumed of people or restarts, nor of BecomeDue: what holds
\* under FairSpec does not wait for the cadence.
Fairness ==
    /\ WF_vars(PollStep)
    /\ \A n \in Names : SF_vars(PassStart(n)) /\ WF_vars(PassStep(n))

FairSpec == Spec /\ Fairness

\* Neither the cadence nor the backoff is longer than half an hour.
CadenceSpec == FairSpec /\ \A n \in Names : WF_vars(BecomeDue(n))

-----------------------------------------------------------------------------
(* Properties.                                                             *)

\* A cluster has a pass exactly while it is marked running, it is kept in the
\* schedule for as long, and no more passes than there are slots are past the
\* wait: what claimDue, updateSchedule's departed mark and releaseCluster keep
\* between them, whatever a poll finds while a pass is running.
OnePassPerCluster ==
    /\ \A n \in Names : /\ pass[n].pc # "none" <=> state[n].running
                        /\ state[n].running => state[n].tracked
    /\ Cardinality(Held) <= Slots

\* A pass that starts holds a spec whose claim, as far as the schedule knows
\* at that moment, nobody else makes: reconcileOne does not trust what was
\* true when the pass was queued.
StartsUncontested ==
    [][\A n \in Names : pass[n].pc = "queued" /\ pass'[n].pc = "reconciling" =>
           /\ pass'[n].rev.spec \in Claims
           /\ \A m \in Names \ {n} : state[m].tracked /\ ~state[m].departed =>
                  state[m].rev.spec # pass'[n].rev.spec]_vars

\* reportLocked's Synced, which readiness is made of ...
Synced(n) ==
    /\ state[n].passed.gen # 0 /\ state[n].passed.gen = state[n].rev.gen
    /\ state[n].invalid = "None" /\ state[n].status.ready = "Ready"

\* ... means that this process has reconciled the spec it now knows of, and not
\* an earlier one nor one an earlier process reconciled.  (Generations of a name
\* start over when its object is deleted and created again.)
SyncedIsReconciled ==
    \A n \in Names : n \notin gone /\ Synced(n) => state[n].passed.spec = state[n].rev.spec

\* A verdict that was withdrawn is not left on the object for the cadence to
\* remove: while the object still carries one, its cluster has a pass, or is
\* due at once.  (Where the API server takes every status write.  A schema
\* change may write a remembered verdict once more.)
PromptResume ==
    faults = 0 /\ restamps = 0 => \A n \in Names :
        /\ object[n].status.ready \in Verdicts
        /\ state[n].tracked /\ ~Blocked(state[n]) /\ ~state[n].running
        => state[n].due

\* The Conflict condition never outlives the conflict it names: an object whose
\* Ready comes from a pass accuses no neighbour.
AccusesOnlyInConflict ==
    \A n \in Names : object[n].status.accuses => object[n].status.ready = "Conflict"

\* Between ticks, a cluster that is not to be reconciled and has no pass is
\* remembered with its verdict: a pass that ended after the verdict was formed
\* has not put its own result back (settleVerdict).
VerdictHeld ==
    poll.pc = "report" /\ poll.todo = {} =>
        \A n \in Names : state[n].invalid # "None" /\ ~state[n].running =>
            state[n].status = Rejected(state[n].status, state[n])

\* What the API server holds of n now, a poll would find in order ...
Resolvable(n) == Exists(object[n]) /\ VerdictIn(object, n) = "None"
\* ... and a pass has reported on its spec as it stands.
Reported(n) ==
    object[n].status.gen = object[n].rev.gen /\ object[n].status.ready \in {"Ready", "Failed"}

\* Once people leave an object in order, it comes to carry the report of a pass
\* over its latest spec, and without waiting for the cadence: an edit, a new
\* object and a withdrawn verdict are each found by a poll.
EditTakesEffect == \A n \in Names : <>[]Resolvable(n) => <>[]Reported(n)

\* Once people leave an object broken or contested, it comes to say so and
\* goes on saying so, whichever of the poll and a pass writes last.
VerdictShown ==
    \A n \in Names, v \in Verdicts :
        <>[](Exists(object[n]) /\ VerdictIn(object, n) = v) =>
        <>[](object[n].status.ready = v /\ object[n].status.gen = object[n].rev.gen)

\* The passes, as the contract of module SingleFlight sees them: waiting from
\* the claim to the slot, working to the end of rec.Cluster's writes, and on
\* the way out until the cluster is free.
Phase(n) ==
    IF ~state[n].running THEN "idle"
    ELSE CASE pass[n].pc = "queued" -> "waiting"
           [] pass[n].pc \in {"leaving", "releasing"} -> "ending"
           [] OTHER -> "working"
Cleared == {n \in Names : state[n].tracked /\ ~Blocked(state[n])}

Contract == INSTANCE SingleFlight WITH phase <- [n \in Names |-> Phase(n)], cleared <- Cleared

\* However polls, verdicts, departures and restarts fall between the steps of
\* the passes, the scheduler behaves as one that gives each cleared cluster one
\* pass at a time.
KeepsContract == Contract!Spec

-----------------------------------------------------------------------------
(* What comments in the code say and the code does not do.                 *)

\* "Synced means this process has reconciled the spec that is in the API now."
SyncedIsCurrent == \A n \in Names : Synced(n) => state[n].passed.spec = state[n].rev.spec
=============================================================================
