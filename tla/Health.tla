------------------------------- MODULE Health -------------------------------
(***************************************************************************)
(* What /livez and /readyz answer (healthState), over the poll loop and the *)
(* passes that feed them, in real time: every call of the loop and of a pass *)
(* takes any time up to its deadline, or hangs for ever.                    *)
(***************************************************************************)
EXTENDS FiniteSets, Integers

CONSTANTS
    Clusters,        \* the inventory
    Slots,           \* maxConcurrentPasses
    \* Durations, in a unit of time that divides them all.
    PollInterval, MaxProgressAge, ClusterTimeout, PassGrace, SchemaInterval,
    CallTimeout,     \* inventoryTimeout
    EventTimeout,    \* writeTimeout of an Event
    MaxChanges,      \* bound: polls that find the inventory changed
    MaxPasses,       \* bound: passes in flight or waiting at a time
    MaxHangs         \* bound: calls that never return

ASSUME HealthAssumption ==
    /\ IsFiniteSet(Clusters)
    /\ Slots \in Nat /\ MaxChanges \in Nat /\ MaxPasses \in Nat /\ MaxHangs \in Nat
    /\ PollInterval \in Nat \ {0} /\ MaxProgressAge \in Nat /\ SchemaInterval \in Nat
    /\ ClusterTimeout \in Nat /\ PassGrace \in Nat /\ CallTimeout \in Nat /\ EventTimeout \in Nat

VARIABLES
    at, left, todo, hung,   \* the loop: where, how long its call may take yet, how many
                            \* like it there are, and whether it will never return
    sinceTick, pending,     \* the ticker, whose channel holds one tick
    sinceSchema, stale,     \* lastSchemaAt, and schemaStale
    known, blocked,         \* the clusters in the state map, and those with a verdict
    synced,                 \* those reconciled at their present generation
    pass,                   \* the passes, by cluster
    sincePoll, ready,       \* healthState: polledAt and ready
    failed,                 \* history: a List failed since polledAt
    changes, hangs          \* how much of each bound is used

loop == <<at, left, todo, hung>>
clock == <<sinceTick, pending>>
schema == <<sinceSchema, stale>>
state == <<known, blocked, synced>>
health == <<sincePoll, ready>>
vars == <<loop, clock, schema, state, pass, health, failed, changes, hangs>>

Calls == {"schema", "restamp", "list", "events", "reject"}
PassCalls == {"cluster", "write", "settle"}
\* `age` counts from passStarted; `old`: the spec has been edited since.
Pass == [pc : {"none", "queued", "publish"} \cup PassCalls,
         age : 0..(ClusterTimeout + PassGrace + 1), left : Nat,
         hung : BOOLEAN, old : BOOLEAN]
NoPass == [pc |-> "none", age |-> 0, left |-> 0, hung |-> FALSE, old |-> FALSE]

TypeOK ==
    /\ at \in {"wait", "dispatch", "record"} \cup Calls /\ left \in Nat
    /\ todo \in 0..Cardinality(Clusters) /\ hung \in BOOLEAN
    /\ sinceTick \in 0..(PollInterval - 1) /\ pending \in BOOLEAN
    /\ sinceSchema \in 0..SchemaInterval /\ stale \in BOOLEAN
    /\ known \subseteq Clusters /\ blocked \subseteq Clusters /\ synced \subseteq Clusters
    /\ pass \in [Clusters -> Pass]
    /\ sincePoll \in 0..(MaxProgressAge + 1) /\ ready \in BOOLEAN
    /\ failed \in BOOLEAN /\ changes \in 0..MaxChanges /\ hangs \in 0..MaxHangs

Running(c) == pass[c].pc # "none"
Holding == {c \in Clusters : pass[c].pc \notin {"none", "queued"}}

\* A pass counts from passStarted to passFinished.
CountsFromClaim(p) == p.pc # "none"      \* mutant: from when it was dispatched
Counts(p) == p.pc \in PassCalls
Started(c) == Counts(pass[c])

\* isLive.
LiveUnlessBusy ==      \* mutant: a pass in progress excuses the loop
    sincePoll <= MaxProgressAge \/ \E c \in Clusters : Started(c)
Live == /\ sincePoll <= MaxProgressAge
        /\ \A c \in Clusters : Started(c) => pass[c].age <= ClusterTimeout + PassGrace

\* record: every cluster of the inventory reported as synced.
AllSynced == \A c \in known : c \in synced \ blocked

Fresh ==
    /\ at = "wait" /\ left = 0 /\ todo = 0 /\ hung = FALSE
    /\ sinceTick = 0 /\ pending = TRUE
    /\ sinceSchema = SchemaInterval /\ stale = FALSE
    /\ known = {} /\ blocked = {} /\ synced = {}
    /\ pass = [c \in Clusters |-> NoPass]
    /\ sincePoll = 0 /\ ready = FALSE /\ failed = FALSE
Init == Fresh /\ changes \in 0..MaxChanges /\ hangs \in 0..MaxHangs

-----------------------------------------------------------------------------
(* The loop.                                                               *)

Calling(pc, many, limit) == at' = pc /\ todo' = many /\ left' = limit
Then(pc) == at' = pc /\ todo' = 0 /\ left' = 0

\* tick, checkSchema; the first check is due at once.
TakeTick ==
    /\ at = "wait" /\ pending
    /\ pending' = FALSE
    /\ IF sinceSchema = SchemaInterval
       THEN Calling("schema", 0, CallTimeout) /\ sinceSchema' = 0
       ELSE Calling("list", 0, CallTimeout) /\ UNCHANGED sinceSchema
    /\ UNCHANGED <<hung, sinceTick, stale, state, pass, health, failed, changes, hangs>>

Returns(pc) == at = pc /\ ~hung /\ UNCHANGED <<hung, clock, hangs>>

\* A verdict on the CRD that changed, or that there is none, is to be written to
\* every object without a pass in flight.  The read has no deadline of its own:
\* one that takes longer than any other call may counts as one that hangs.
Restamped == Cardinality({c \in known : ~Running(c)})
SchemaRead ==
    /\ Returns("schema")
    /\ \E verdict \in {"current", "stale", "unverifiable"} :
           /\ stale' = (verdict = "stale")
           /\ IF (stale' # stale \/ verdict = "unverifiable") /\ Restamped > 0
              THEN Calling("restamp", Restamped, CallTimeout)
              ELSE Calling("list", 0, CallTimeout)
    /\ UNCHANGED <<sinceSchema, state, pass, health, failed, changes>>

\* restampSchemaCondition: one write after another, each with a deadline of its own.
Restamp ==
    /\ Returns("restamp")
    /\ IF todo > 1 THEN Calling("restamp", todo - 1, CallTimeout) ELSE Calling("list", 0, CallTimeout)
    /\ UNCHANGED <<schema, state, pass, health, failed, changes>>

\* refresh.  A withdrawn verdict is an Event each, and an edit a generation that
\* nothing has reconciled.
List ==
    /\ Returns("list")
    /\ known' = Clusters
    /\ \/ UNCHANGED <<blocked, synced, pass, changes>>
       \/ /\ changes < MaxChanges /\ changes' = changes + 1
          /\ \/ blocked' \in SUBSET Clusters \ {blocked} /\ UNCHANGED <<synced, pass>>
             \/ \E c \in Clusters : /\ synced' = synced \ {c}
                                    /\ pass' = [pass EXCEPT ![c].old = Running(c)]
                                    /\ UNCHANGED blocked
    /\ LET resumed == Cardinality(blocked \ blocked') IN
       IF resumed > 0 THEN Calling("events", resumed, EventTimeout) ELSE Then("dispatch")
    /\ UNCHANGED <<schema, health, failed>>

\* Without an inventory there is no poll.
ListFails ==
    /\ Returns("list")
    /\ Then("wait") /\ failed' = TRUE
    /\ UNCHANGED <<schema, state, pass, health, changes>>

Event ==
    /\ Returns("events")
    /\ IF todo > 1 THEN Calling("events", todo - 1, EventTimeout) ELSE Then("dispatch")
    /\ UNCHANGED <<schema, state, pass, health, failed, changes>>

\* dispatch waits for nothing; reportRejected shares one deadline among all its
\* writes.
Dispatch ==
    /\ at = "dispatch"
    /\ \E due \in SUBSET {c \in known \ blocked : ~Running(c)} :
           /\ Cardinality({c \in Clusters : Running(c)}) + Cardinality(due) <= MaxPasses
           /\ pass' = [c \in Clusters |-> IF c \in due THEN [NoPass EXCEPT !.pc = "queued"] ELSE pass[c]]
    /\ IF blocked # {} THEN Calling("reject", 0, CallTimeout) ELSE Then("record")
    /\ UNCHANGED <<hung, clock, schema, state, health, failed, changes, hangs>>

Rejected ==
    /\ Returns("reject")
    /\ Then("record")
    /\ UNCHANGED <<schema, state, pass, health, failed, changes>>

\* recordPoll and publish.
Record ==
    /\ at = "record"
    /\ sincePoll' = 0 /\ ready' = AllSynced /\ failed' = FALSE
    /\ Then("wait")
    /\ UNCHANGED <<hung, clock, schema, state, pass, changes, hangs>>

LoopStep == TakeTick \/ SchemaRead \/ Restamp \/ List \/ ListFails \/ Event \/ Dispatch
            \/ Rejected \/ Record

-----------------------------------------------------------------------------
(* A pass.                                                                 *)

Step(c, p) == pass' = [pass EXCEPT ![c] = p]
Enters(c, pc, limit) == Step(c, [pass[c] EXCEPT !.pc = pc, !.left = limit])
PassReturns(c, pc) == pass[c].pc = pc /\ ~pass[c].hung

\* A slot, and then the verdict again: a pass is abandoned, or starts, and only
\* then does its clock.
TakeSlot(c) ==
    /\ pass[c].pc = "queued" /\ Cardinality(Holding) < Slots
    /\ IF c \in blocked THEN Step(c, [pass[c] EXCEPT !.pc = "publish"])
                        ELSE Enters(c, "cluster", ClusterTimeout)
    /\ UNCHANGED synced

Reconciled(c) ==
    /\ PassReturns(c, "cluster")
    /\ Enters(c, "write", CallTimeout)
    /\ UNCHANGED synced

\* The status is written, with the loop's context and not the pass's; then the
\* result is taken over, success or failure, and written once more if the
\* verdict has changed.
StatusWrittenQuietly(c) ==      \* mutant: only a pass that succeeded publishes
    /\ PassReturns(c, "write")
    /\ \/ ~pass[c].old /\ synced' = synced \cup {c} /\ Step(c, [pass[c] EXCEPT !.pc = "publish"])
       \/ synced' = synced \ {c} /\ Step(c, NoPass)
StatusWritten(c) ==
    /\ PassReturns(c, "write")
    /\ \/ ~pass[c].old /\ synced' = synced \cup {c}
       \/ synced' = synced \ {c}
    /\ Enters(c, "settle", CallTimeout) \/ Step(c, [pass[c] EXCEPT !.pc = "publish"])

\* settleVerdict, and passFinished.
Settled(c) ==
    /\ PassReturns(c, "settle")
    /\ Step(c, [pass[c] EXCEPT !.pc = "publish"])
    /\ UNCHANGED synced

PassStep(c) ==
    /\ TakeSlot(c) \/ Reconciled(c) \/ StatusWritten(c) \/ Settled(c)
    /\ UNCHANGED <<loop, clock, schema, known, blocked, health, failed, changes, hangs>>

Publish(c) ==
    /\ pass[c].pc = "publish"
    /\ ready' = AllSynced
    /\ Step(c, NoPass)
    /\ UNCHANGED <<loop, clock, schema, state, sincePoll, failed, changes, hangs>>

-----------------------------------------------------------------------------
(* Time, what goes wrong, and the kubelet.                                 *)

\* Time passes when nothing that takes none is to be done, and every call that
\* will return may still take longer.
MayWait == /\ \/ at = "wait" /\ ~pending
              \/ at \in Calls /\ (left > 0 \/ hung)
           /\ \A c \in Clusters : /\ pass[c].pc # "publish"
                                  /\ pass[c].pc \in PassCalls => pass[c].left > 0 \/ pass[c].hung
                                  /\ pass[c].pc = "queued" => Cardinality(Holding) >= Slots

Less(n) == IF n > 0 THEN n - 1 ELSE 0
UpTo(n, most) == IF n < most THEN n + 1 ELSE most
Aged(p) == IF Counts(p)
           THEN [p EXCEPT !.age = UpTo(@, ClusterTimeout + PassGrace + 1), !.left = Less(@)]
           ELSE p
Tick ==
    /\ MayWait
    /\ left' = Less(left)
    /\ sinceTick' = IF sinceTick + 1 = PollInterval THEN 0 ELSE sinceTick + 1
    /\ pending' = (pending \/ sinceTick + 1 = PollInterval)
    /\ sinceSchema' = UpTo(sinceSchema, SchemaInterval)
    /\ sincePoll' = UpTo(sincePoll, MaxProgressAge + 1)
    /\ pass' = [c \in Clusters |-> Aged(pass[c])]
    /\ UNCHANGED <<at, todo, hung, stale, state, ready, failed, changes, hangs>>

\* A call will never return: it ignores its deadline, or has none.
Hang ==
    /\ hangs < MaxHangs /\ hangs' = hangs + 1
    /\ \/ at \in Calls /\ ~hung /\ hung' = TRUE /\ UNCHANGED pass
       \/ \E c \in Clusters : /\ pass[c].pc \in PassCalls /\ ~pass[c].hung
                              /\ pass' = [pass EXCEPT ![c].hung = TRUE] /\ UNCHANGED hung
    /\ UNCHANGED <<at, left, todo, clock, schema, state, health, failed, changes>>

\* The kubelet's answer to /livez.
Restart ==
    /\ ~Live
    /\ at' = "wait" /\ left' = 0 /\ todo' = 0 /\ hung' = FALSE
    /\ sinceTick' = 0 /\ pending' = TRUE /\ sinceSchema' = SchemaInterval /\ stale' = FALSE
    /\ known' = {} /\ blocked' = {} /\ synced' = {}
    /\ pass' = [c \in Clusters |-> NoPass]
    /\ sincePoll' = 0 /\ ready' = FALSE /\ failed' = FALSE
    /\ UNCHANGED <<changes, hangs>>

Next == LoopStep \/ (\E c \in Clusters : PassStep(c) \/ Publish(c)) \/ Tick \/ Hang \/ Restart

Spec == Init /\ [][Next]_vars

\* Deadlines are kept by what does not hang, time passes, and the kubelet probes.
Fairness == /\ WF_vars(LoopStep) /\ WF_vars(Tick) /\ WF_vars(Restart)
            /\ \A c \in Clusters : WF_vars(PassStep(c)) /\ WF_vars(Publish(c))
FairSpec == Spec /\ Fairness

-----------------------------------------------------------------------------
(* Properties.                                                             *)

\* Liveness fails for a process that has stopped making progress, and not for one
\* that is slow: every call it makes may take as long as its deadline allows.
Hung == hung \/ \E c \in Clusters : pass[c].hung
SlowIsAlive == ~Live => Hung \/ failed

\* What never returns is noticed, in the loop or in a pass, and the process
\* restarted.
HungIsRestarted == Hung ~> ~Hung

\* /readyz says what is so: nothing but a publication that is yet to come makes a
\* difference between what it answers and the state of the clusters.
Owed == at \in {"events", "dispatch", "reject", "record"}
        \/ \E c \in Clusters : pass[c].pc \in {"settle", "publish"}
ReadyIsTrue == known # {} /\ ~Owed => ready = AllSynced

\* The longest a poll that gets its inventory may take, and a pass.
WithinBudget ==
    /\ PollInterval + 3 * CallTimeout + Cardinality(Clusters) * (CallTimeout + EventTimeout)
           <= MaxProgressAge
    /\ 2 * CallTimeout <= PassGrace
=============================================================================
