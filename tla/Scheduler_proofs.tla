-------------------------- MODULE Scheduler_proofs --------------------------
(***************************************************************************)
(* What holds of the scheduler for every set of connections and claims,    *)
(* every number of slots and every bound.                                  *)
(***************************************************************************)
EXTENDS Scheduler, FiniteSetTheorems, TLAPS

-----------------------------------------------------------------------------
(* Types.  A verdict may be laid over a status only while there is one, so  *)
(* the loop's work list is part of the invariant.                          *)

TodoBlocked ==
    poll.pc \in {"report", "writing"} => \A n \in poll.todo : state[n].invalid # "None"

TypeInv == TypeOK /\ TodoBlocked

\* What a list says of an entry is one of the values invalidReason has.
LEMMA VerdictInType ==
    ASSUME NEW objs, NEW n \in Names
    PROVE  VerdictIn(objs, n) \in {"None"} \cup Verdicts
BY DEF VerdictIn, Verdicts

\* A status with a verdict over it is a status.
LEMMA OverlayType ==
    ASSUME NEW status \in Status, NEW entry \in ClusterState
    PROVE  /\ entry.invalid # "None" => Rejected(status, entry) \in Status
           /\ Overlaid(status, entry) \in Status
BY DEF Rejected, Overlaid, Status, ClusterState, Revision, Verdicts

LEMMA EmptyTypes ==
    /\ NoStatus \in Status /\ NoRevision \in Revision
    /\ Absent \in Object /\ Untracked \in ClusterState /\ NoPass \in Pass
BY SchedulerAssumption
   DEF NoStatus, Status, NoRevision, Revision, Specs, Absent, Object, Untracked, ClusterState,
       NoPass, Pass, PassPc

\* A merged entry is an entry.
LEMMA MergeType ==
    ASSUME NEW entry \in ClusterState, NEW obj \in Object, NEW verdict \in {"None"} \cup Verdicts
    PROVE  Merged(entry, obj, verdict) \in ClusterState
<1> DEFINE resumed == entry.invalid # "None" /\ verdict = "None"
           due == entry.due \/ ~entry.tracked \/ Edited(obj) \/ resumed
           rerun == IF resumed THEN entry.running ELSE entry.rerun
<1>1. MergedBase(entry, obj, verdict) \in ClusterState
  BY DEF MergedBase, ClusterState, Object
<1>2. /\ MergedBase(entry, obj, verdict).due = entry.due
      /\ MergedBase(entry, obj, verdict).rerun = entry.rerun
  BY DEF MergedBase, ClusterState
<1>3. due \in BOOLEAN /\ rerun \in BOOLEAN
  BY Zenon DEF ClusterState, Edited
<1>4. Merged(entry, obj, verdict) = [MergedBase(entry, obj, verdict) EXCEPT !.due = due, !.rerun = rerun]
  BY <1>2 DEF Merged
<1> HIDE DEF due, rerun
<1> QED BY <1>1, <1>3, <1>4 DEF ClusterState

\* A status write leaves the objects, and the faults that are left, in type.
LEMMA WriteType ==
    ASSUME TypeOK, NEW n \in Names, NEW status \in Status, WriteStatus(n, status)
    PROVE  object' \in [Names -> Object] /\ faults' \in 0..MaxFaults
BY SchedulerAssumption DEF TypeOK, WriteStatus, Object

LEMMA InitTypeInv == Init => TypeInv
<1> SUFFICES ASSUME Init PROVE TypeInv
  OBVIOUS
<1>1. object \in [Names -> Object]
  <2>1. \A s \in Specs : NewObject(s) \in Object
    BY SchedulerAssumption, EmptyTypes DEF NewObject, Object, Revision
  <2> QED BY <2>1, EmptyTypes DEF Init
<1> QED BY <1>1, EmptyTypes, SchedulerAssumption
  DEF Init, TypeInv, TypeOK, TodoBlocked, NoPoll, Nothing, PollPc

LEMMA PollStepTypeInv == TypeInv /\ PollStep => TypeInv'
<1> SUFFICES ASSUME TypeInv, PollStep PROVE TypeInv'
  OBVIOUS
<1> USE SchedulerAssumption DEF TypeInv, TypeOK, TodoBlocked, PollPc
<1>1. CASE PollTick
  <2>1. /\ poll' \in [pc : PollPc, list : [Names -> Object], todo : SUBSET Names,
                      at : SUBSET Names, status : Status]
        /\ poll'.pc = "restamp"
    BY <1>1 DEF PollTick
  <2>2. restamps' \in 0..MaxRestamps
    BY <1>1 DEF PollTick
  <2> QED BY <1>1, <2>1, <2>2 DEF PollTick
<1>2. CASE PollList
  BY <1>2 DEF PollList
<1>3. CASE PollUpdate
  <2>1. \A n \in Names : Merged(state[n], poll.list[n], VerdictIn(poll.list, n)) \in ClusterState
    BY VerdictInType, MergeType
  <2>2. \A n \in Names : Missing(state[n]) \in ClusterState
    BY EmptyTypes DEF Missing, ClusterState
  <2> QED BY <1>3, <2>1, <2>2, EmptyTypes DEF PollUpdate, Nothing
<1>4. CASE PollDispatch
  BY <1>4, EmptyTypes DEF PollDispatch, Due, ClusterState, Pass, PassPc
<1>5. ASSUME NEW n \in Names, PollRestamp(n) PROVE TypeInv'
  <2>1. state[n].status \in Status
    BY DEF ClusterState
  <2> QED BY <1>5, <2>1, WriteType DEF PollRestamp
<1>6. ASSUME NEW n \in Names, PollVerdictStands(n) PROVE TypeInv'
  BY <1>6 DEF PollVerdictStands
<1>7. ASSUME NEW n \in Names, PollVerdictNeeded(n) PROVE TypeInv'
  <2>1. Rejected(state[n].status, state[n]) \in Status
    BY <1>7, OverlayType DEF PollVerdictNeeded, ClusterState
  <2>2. state' \in [Names -> ClusterState] /\ \A m \in Names : state'[m].invalid = state[m].invalid
    BY <1>7, <2>1 DEF PollVerdictNeeded, ClusterState
  <2>3. /\ poll' \in [pc : PollPc, list : [Names -> Object], todo : SUBSET Names,
                      at : SUBSET Names, status : Status]
        /\ poll'.todo \subseteq poll.todo
    BY <1>7, <2>1 DEF PollVerdictNeeded
  <2> QED BY <1>7, <2>2, <2>3 DEF PollVerdictNeeded
<1>8. ASSUME NEW n \in Names, PollVerdictWrite(n) PROVE TypeInv'
  BY <1>8, WriteType, EmptyTypes DEF PollVerdictWrite
<1> QED BY <1>1, <1>2, <1>3, <1>4, <1>5, <1>6, <1>7, <1>8 DEF PollStep

LEMMA PassTypeInv ==
  TypeInv /\ (\E n \in Names : PassStart(n) \/ PassStep(n)) => TypeInv'
<1> SUFFICES ASSUME TypeInv, NEW n \in Names, PassStart(n) \/ PassStep(n) PROVE TypeInv'
  OBVIOUS
<1> USE SchedulerAssumption DEF TypeInv, TypeOK, TodoBlocked
<1>a. pass[n] \in Pass /\ state[n] \in ClusterState
  OBVIOUS
<1>b. Overlaid(pass[n].status, state[n]) \in Status
  BY <1>a, OverlayType DEF Pass
<1>1. CASE PassAbandon(n)
  BY <1>1 DEF PassAbandon, Pass, PassPc
<1>2. CASE PassBegin(n)
  <2>1. [state[n].status EXCEPT !.accuses = FALSE] \in Status /\ state[n].rev \in Revision
    BY <1>a DEF ClusterState, Status
  <2>2. pass' \in [Names -> Pass]
    BY <1>2, <1>a, <2>1 DEF PassBegin, Pass, PassPc
  <2>3. /\ state' \in [Names -> ClusterState]
        /\ \A m \in Names : state'[m].invalid = state[m].invalid
    BY <1>2, <1>a DEF PassBegin, ClusterState
  <2> QED BY <1>2, <2>2, <2>3 DEF PassBegin
<1>3. CASE PassReconcile(n)
  <2>1. PICK ok \in BOOLEAN, ready \in {"Ready", "Failed"},
             credential \in {pass[n].status.credential, minted[n] + 1} :
          LET result == [pass[n].status EXCEPT !.gen = pass[n].rev.gen, !.ready = ready,
                                               !.credential = credential] IN
          /\ credential <= MaxMints
          /\ ready = "Ready" => ok
          /\ ok => credential # 0
          /\ minted' = [minted EXCEPT ![n] = IF credential > @ THEN credential ELSE @]
          /\ pass' = [pass EXCEPT ![n].pc = "writing", ![n].status = result, ![n].ok = ok,
                                  ![n].written = Overlaid(result, state[n])]
    BY <1>3, Zenon DEF PassReconcile
  <2> DEFINE result == [pass[n].status EXCEPT !.gen = pass[n].rev.gen, !.ready = ready,
                                              !.credential = credential]
  <2>2. credential \in 0..MaxMints
    BY <1>a, <2>1 DEF Pass, Status
  <2>3. result \in Status
    BY <1>a, <2>2 DEF Pass, Status, Revision
  <2>4. Overlaid(result, state[n]) \in Status
    BY <1>a, <2>3, OverlayType
  <2>5. pass' \in [Names -> Pass]
    <3> HIDE DEF result
    <3> QED BY <1>a, <2>1, <2>3, <2>4 DEF Pass, PassPc, result
  <2>6. minted' \in [Names -> 0..MaxMints]
    BY <2>1, <2>2
  <2> QED BY <1>3, <2>5, <2>6 DEF PassReconcile
<1>4. CASE PassWrite(n)
  <2>1. pass[n].written \in Status
    BY <1>a DEF Pass
  <2>2. object' \in [Names -> Object] /\ faults' \in 0..MaxFaults
    BY <1>4, <2>1, WriteType DEF PassWrite
  <2>3. pass' \in [Names -> Pass]
    BY <1>4 DEF PassWrite, Pass, PassPc
  <2> QED BY <1>4, <2>2, <2>3 DEF PassWrite
<1>5. CASE PassRecord(n)
  BY <1>5, <1>a DEF PassRecord, Pass, PassPc, ClusterState
<1>6. CASE PassSettled(n)
  BY <1>6 DEF PassSettled, Pass, PassPc
<1>7. CASE PassUnsettled(n)
  BY <1>7, <1>a, <1>b DEF PassUnsettled, Pass, PassPc, ClusterState
<1>8. CASE PassRewrite(n)
  <2>1. pass[n].written \in Status
    BY <1>a DEF Pass
  <2>2. object' \in [Names -> Object] /\ faults' \in 0..MaxFaults
    BY <1>8, <2>1, WriteType DEF PassRewrite
  <2>3. pass' \in [Names -> Pass]
    BY <1>8 DEF PassRewrite, Pass, PassPc
  <2> QED BY <1>8, <2>2, <2>3 DEF PassRewrite
<1>9. CASE PassLeave(n)
  BY <1>9, EmptyTypes DEF PassLeave, Pass, PassPc
<1>10. CASE PassRelease(n)
  BY <1>10, EmptyTypes DEF PassRelease, ClusterState
<1> QED BY <1>1, <1>2, <1>3, <1>4, <1>5, <1>6, <1>7, <1>8, <1>9, <1>10 DEF PassStart, PassStep

LEMMA EnvironmentTypeInv == TypeInv /\ Environment => TypeInv'
<1> SUFFICES ASSUME TypeInv, Environment PROVE TypeInv'
  OBVIOUS
<1> USE SchedulerAssumption DEF TypeInv, TypeOK, TodoBlocked
<1>1. CASE Restart
  BY <1>1, EmptyTypes DEF Restart, NoPoll, Nothing, PollPc
<1>2. ASSUME NEW n \in Names, BecomeDue(n) PROVE TypeInv'
  BY <1>2 DEF BecomeDue, ClusterState
<1>3. ASSUME NEW n \in Names, Delete(n) PROVE TypeInv'
  BY <1>3, EmptyTypes DEF Delete
<1>4. ASSUME NEW n \in Names, NEW spec \in Specs, Create(n, spec) PROVE TypeInv'
  <2>1. NewObject(spec) \in Object
    BY EmptyTypes DEF NewObject, Object, Revision
  <2> QED BY <1>4, <2>1 DEF Create
<1>5. ASSUME NEW n \in Names, NEW spec \in Specs, Edit(n, spec) PROVE TypeInv'
  <2>1. [gen |-> object[n].rev.gen + 1, spec |-> spec] \in Revision
    BY <1>5 DEF Edit, Object, Revision
  <2> QED BY <1>5, <2>1 DEF Edit, Object
<1> QED BY <1>1, <1>2, <1>3, <1>4, <1>5 DEF Environment

LEMMA NextTypeInv == TypeInv /\ [Next]_vars => TypeInv'
<1> SUFFICES ASSUME TypeInv, [Next]_vars PROVE TypeInv'
  OBVIOUS
<1>1. CASE UNCHANGED vars
  BY <1>1 DEF vars, TypeInv, TypeOK, TodoBlocked
<1> QED BY <1>1, PollStepTypeInv, PassTypeInv, EnvironmentTypeInv DEF Next

\* Every state the scheduler reaches is well formed: in particular no status
\* ever carries a verdict that nobody holds.
THEOREM TypeCorrect == Spec => []TypeOK
<1>1. TypeInv => TypeOK
  BY DEF TypeInv
<1> QED BY <1>1, InitTypeInv, NextTypeInv, PTL DEF Spec

-----------------------------------------------------------------------------
(* One pass per cluster, and no more at work than there are slots.  The     *)
(* pairing of mark and pass is what every action keeps; the count follows   *)
(* from how few passes can join those that hold a slot.                    *)

Paired(n) ==
    /\ pass[n].pc # "none" <=> state[n].running
    /\ state[n].running => state[n].tracked

LEMMA InitOnePass == Init => OnePassPerCluster
<1> SUFFICES ASSUME Init PROVE OnePassPerCluster
  OBVIOUS
<1>1. Held = {}
  BY DEF Init, Held, NoPass
<1>2. Cardinality(Held) <= Slots
  BY <1>1, FS_EmptySet, SchedulerAssumption
<1> QED BY <1>2 DEF Init, OnePassPerCluster, NoPass, Untracked

\* Slots are not oversubscribed by a step that lets in at most one pass, and
\* that only when a slot is free.
LEMMA SlotsKept ==
    ASSUME Cardinality(Held) <= Slots,
           \/ Held' \subseteq Held
           \/ Cardinality(Held) < Slots /\ \E n \in Names : Held' \subseteq Held \cup {n}
    PROVE  Cardinality(Held)' <= Slots
<1>1. IsFiniteSet(Held) /\ IsFiniteSet(Held')
  BY SchedulerAssumption, FS_Subset, Held \in SUBSET Names, Held' \in SUBSET Names DEF Held
<1>2. Cardinality(Held) \in Nat /\ Cardinality(Held') \in Nat
  BY <1>1, FS_CardinalityType
<1>3. CASE Held' \subseteq Held
  <2>1. Cardinality(Held') <= Cardinality(Held)
    BY <1>1, <1>3, FS_Subset
  <2> QED BY <1>2, <2>1, SchedulerAssumption
<1>4. ASSUME NEW n \in Names, Cardinality(Held) < Slots, Held' \subseteq Held \cup {n}
      PROVE  Cardinality(Held') <= Slots
  <2>1. /\ IsFiniteSet(Held \cup {n})
        /\ Cardinality(Held \cup {n}) <= Cardinality(Held) + 1
    BY <1>1, <1>2, FS_AddElement
  <2>2. Cardinality(Held') <= Cardinality(Held \cup {n})
    BY <1>4, <2>1, FS_Subset
  <2>3. Cardinality(Held \cup {n}) \in Nat
    BY <2>1, FS_CardinalityType
  <2> QED BY <1>2, <1>4, <2>1, <2>2, <2>3, SchedulerAssumption
<1> QED BY <1>3, <1>4

\* The work of a pass touches that pass alone, and not the revision it works on.
LEMMA ReconcileFacts ==
    ASSUME pass \in [Names -> Pass], NEW n \in Names, PassReconcile(n)
    PROVE  /\ pass[n].pc = "reconciling" /\ pass'[n].pc = "writing" /\ pass'[n].rev = pass[n].rev
           /\ \A m \in Names \ {n} : pass'[m] = pass[m]
<1>1. \E ok, result, written :
         pass' = [pass EXCEPT ![n].pc = "writing", ![n].status = result, ![n].ok = ok,
                              ![n].written = written]
  <2>1. PICK ok \in BOOLEAN, ready \in {"Ready", "Failed"},
             credential \in {pass[n].status.credential, minted[n] + 1} :
          pass' = [pass EXCEPT ![n].pc = "writing",
                     ![n].status = [pass[n].status EXCEPT !.gen = pass[n].rev.gen, !.ready = ready,
                                                          !.credential = credential],
                     ![n].ok = ok,
                     ![n].written = Overlaid([pass[n].status EXCEPT !.gen = pass[n].rev.gen,
                                                !.ready = ready, !.credential = credential], state[n])]
    BY DEF PassReconcile
  <2> QED BY <2>1
<1>2. pass[n].pc = "reconciling"
  BY DEF PassReconcile
<1> QED BY <1>1, <1>2 DEF Pass

LEMMA NextOnePass == TypeInv /\ OnePassPerCluster /\ [Next]_vars => OnePassPerCluster'
<1> SUFFICES ASSUME TypeInv, OnePassPerCluster, [Next]_vars PROVE OnePassPerCluster'
  OBVIOUS
<1>a. /\ state \in [Names -> ClusterState] /\ pass \in [Names -> Pass]
      /\ \A n \in Names : state[n].running \in BOOLEAN /\ state[n].tracked \in BOOLEAN
  BY DEF TypeInv, TypeOK, ClusterState
<1>b. \A n \in Names : Paired(n)
  BY DEF OnePassPerCluster, Paired
<1> SUFFICES /\ \A n \in Names : Paired(n)'
             /\ \/ Held' \subseteq Held
                \/ Cardinality(Held) < Slots /\ \E n \in Names : Held' \subseteq Held \cup {n}
  BY SlotsKept DEF OnePassPerCluster, Paired
<1>1. CASE \/ UNCHANGED vars \/ PollTick \/ PollList
           \/ \E n \in Names : PollRestamp(n) \/ PollVerdictStands(n) \/ PollVerdictWrite(n)
  <2>1. UNCHANGED <<state, pass>>
    BY <1>1 DEF vars, PollTick, PollList, PollRestamp, PollVerdictStands, PollVerdictWrite
  <2> QED BY <1>b, <2>1 DEF Paired, Held
<1>2. CASE PollUpdate
  <2>1. \A n \in Names : state'[n].running = state[n].running
    BY <1>2, <1>a DEF PollUpdate, Merged, MergedBase, Missing, ClusterState, Untracked
  <2>2. \A n \in Names : state'[n].running => state'[n].tracked
    BY <1>2, <1>a, <1>b DEF PollUpdate, Merged, MergedBase, Missing, ClusterState, Untracked, Paired
  <2>3. UNCHANGED pass
    BY <1>2 DEF PollUpdate
  <2> QED BY <1>b, <2>1, <2>2, <2>3 DEF Paired, Held
<1>3. CASE PollDispatch
  <2>1. \A n \in Names : Due(n) => state'[n].running /\ state'[n].tracked /\ pass'[n].pc = "queued"
    BY <1>3, <1>a DEF PollDispatch, Due, ClusterState, Pass, NoPass
  <2>2. \A n \in Names : ~Due(n) => state'[n] = state[n] /\ pass'[n] = pass[n]
    BY <1>3 DEF PollDispatch
  <2>3. Held' \subseteq Held
    BY <2>1, <2>2 DEF Held
  <2> QED BY <1>b, <2>1, <2>2, <2>3 DEF Paired
<1>4. ASSUME NEW n \in Names, PollVerdictNeeded(n)
      PROVE  (\A m \in Names : Paired(m)') /\ Held' \subseteq Held
  <2>1. \A m \in Names : /\ state'[m].running = state[m].running
                         /\ state'[m].tracked = state[m].tracked
    BY <1>4, <1>a DEF PollVerdictNeeded, ClusterState
  <2> QED BY <1>4, <1>b, <2>1 DEF PollVerdictNeeded, Paired, Held
<1>5. ASSUME NEW n \in Names, PassStart(n)
      PROVE  /\ \A m \in Names : Paired(m)'
             /\ Cardinality(Held) < Slots /\ Held' \subseteq Held \cup {n}
  <2>1. \A m \in Names : /\ state'[m].running = state[m].running
                         /\ state'[m].tracked = state[m].tracked
    BY <1>5, <1>a DEF PassStart, PassAbandon, PassBegin, ClusterState
  <2>2. /\ pass[n].pc = "queued" /\ pass'[n].pc # "none"
        /\ \A m \in Names \ {n} : pass'[m] = pass[m]
        /\ Cardinality(Held) < Slots
    BY <1>5, <1>a DEF PassStart, PassAbandon, PassBegin, Pass
  <2> QED BY <1>b, <2>1, <2>2 DEF Paired, Held
<1>6. ASSUME NEW n \in Names, PassStep(n), ~PassRelease(n)
      PROVE  (\A m \in Names : Paired(m)') /\ Held' \subseteq Held
  <2>1. \A m \in Names : /\ state'[m].running = state[m].running
                         /\ state'[m].tracked = state[m].tracked
    <3>1. CASE PassRecord(n) \/ PassUnsettled(n)
      BY <3>1, <1>a DEF PassRecord, PassUnsettled, ClusterState
    <3> QED BY <3>1, <1>6 DEF PassStep, PassReconcile, PassWrite, PassSettled, PassRewrite, PassLeave
  <2>2. /\ pass[n].pc \notin {"none", "queued", "releasing"} /\ pass'[n].pc # "none"
        /\ \A m \in Names \ {n} : pass'[m] = pass[m]
    <3>1. CASE PassReconcile(n)
      BY <3>1, <1>a, ReconcileFacts
    <3>2. CASE PassWrite(n) \/ PassRecord(n) \/ PassRewrite(n)
      BY <3>2, <1>a DEF PassWrite, PassRecord, PassRewrite, Pass
    <3>3. CASE PassSettled(n) \/ PassUnsettled(n) \/ PassLeave(n)
      BY <3>3, <1>a DEF PassSettled, PassUnsettled, PassLeave, Pass, NoPass
    <3> QED BY <3>1, <3>2, <3>3, <1>6 DEF PassStep
  <2> QED BY <1>b, <2>1, <2>2 DEF Paired, Held
<1>7. ASSUME NEW n \in Names, PassRelease(n)
      PROVE  (\A m \in Names : Paired(m)') /\ Held' \subseteq Held
  <2>1. ~state'[n].running /\ pass'[n].pc = "none"
    BY <1>7, <1>a DEF PassRelease, ClusterState, NoPass
  <2>2. \A m \in Names \ {n} : state'[m] = state[m] /\ pass'[m] = pass[m]
    BY <1>7, <1>a DEF PassRelease
  <2> QED BY <1>b, <2>1, <2>2 DEF Paired, Held
<1>8. CASE Restart
  <2>1. \A n \in Names : ~state'[n].running /\ pass'[n].pc = "none"
    BY <1>8 DEF Restart, Untracked, NoPass
  <2> QED BY <2>1 DEF Paired, Held
<1>9. ASSUME NEW n \in Names, BecomeDue(n)
      PROVE  (\A m \in Names : Paired(m)') /\ Held' \subseteq Held
  <2>1. \A m \in Names : /\ state'[m].running = state[m].running
                         /\ state'[m].tracked = state[m].tracked
    BY <1>9, <1>a DEF BecomeDue, ClusterState
  <2> QED BY <1>9, <1>b, <2>1 DEF BecomeDue, Paired, Held
<1>10. CASE \E n \in Names : Delete(n) \/ \E spec \in Specs : Create(n, spec) \/ Edit(n, spec)
  <2>1. UNCHANGED <<state, pass>>
    BY <1>10 DEF Delete, Create, Edit
  <2> QED BY <1>b, <2>1 DEF Paired, Held
<1> QED BY <1>1, <1>2, <1>3, <1>4, <1>5, <1>6, <1>7, <1>8, <1>9, <1>10
  DEF Next, PollStep, Environment, PassStep

\* Whatever a poll finds while passes run, a cluster marked running has its
\* pass and no other, stays in the schedule for as long, and no more passes are
\* past the wait than there are slots.
THEOREM OnePass == Spec => []OnePassPerCluster
<1>1. Init => TypeInv /\ OnePassPerCluster
  BY InitTypeInv, InitOnePass
<1>2. (TypeInv /\ OnePassPerCluster) /\ [Next]_vars => (TypeInv /\ OnePassPerCluster)'
  BY NextTypeInv, NextOnePass
<1> QED BY <1>1, <1>2, PTL DEF Spec

-----------------------------------------------------------------------------
(* What the process knows comes from its last poll and from nothing else,   *)
(* and in one poll no two connections are found to be in order on a claim.  *)

Known(n) == <<state[n].tracked, state[n].departed, state[n].rev, state[n].invalid>>

Apart(n) ==
    state[n].tracked /\ ~state[n].departed /\ state[n].invalid = "None" =>
        /\ state[n].rev.spec \in Claims
        /\ \A m \in Names \ {n} : state[m].tracked /\ ~state[m].departed =>
               state[m].rev.spec # state[n].rev.spec

Flight == TypeInv /\ OnePassPerCluster
KnownApart == \A n \in Names : Apart(n)

LEMMA KnownKept ==
    ASSUME TypeInv, [Next]_vars, ~PollUpdate, ~Restart
    PROVE  \A n \in Names : Known(n)' = Known(n)
<1>a. state \in [Names -> ClusterState]
  BY DEF TypeInv, TypeOK
<1> SUFFICES \/ UNCHANGED state
             \/ \A n \in Names : /\ state'[n].tracked = state[n].tracked
                                 /\ state'[n].departed = state[n].departed
                                 /\ state'[n].rev = state[n].rev
                                 /\ state'[n].invalid = state[n].invalid
  BY DEF Known
<1>1. CASE PollDispatch
  BY <1>1, <1>a DEF PollDispatch, ClusterState
<1>2. CASE \E n \in Names : PollVerdictNeeded(n)
  BY <1>2, <1>a DEF PollVerdictNeeded, ClusterState
<1>3. CASE \E n \in Names : PassBegin(n)
  BY <1>3, <1>a DEF PassBegin, ClusterState
<1>4. CASE \E n \in Names : PassRecord(n)
  BY <1>4, <1>a DEF PassRecord, ClusterState
<1>5. CASE \E n \in Names : PassUnsettled(n)
  BY <1>5, <1>a DEF PassUnsettled, ClusterState
<1>6. CASE \E n \in Names : PassRelease(n) \/ BecomeDue(n)
  BY <1>6, <1>a DEF PassRelease, BecomeDue, ClusterState
<1>7. CASE \E n \in Names : PassReconcile(n)
  BY <1>7 DEF PassReconcile
<1> QED BY <1>1, <1>2, <1>3, <1>4, <1>5, <1>6, <1>7
  DEF Next, vars, PollStep, PassStart, PassStep, Environment, PollTick, PollList, PollRestamp,
      PollVerdictStands, PollVerdictWrite, PassAbandon, PassWrite, PassSettled, PassRewrite,
      PassLeave, Delete, Create, Edit

LEMMA NextKnownApart == TypeInv /\ KnownApart /\ [Next]_vars => KnownApart'
<1> SUFFICES ASSUME TypeInv, KnownApart, [Next]_vars PROVE KnownApart'
  OBVIOUS
<1>1. CASE PollUpdate
  <2>a. /\ state \in [Names -> ClusterState] /\ poll.list \in [Names -> Object]
    BY DEF TypeInv, TypeOK
  <2>1. \A n \in Names : state'[n].tracked /\ ~state'[n].departed =>
          /\ Exists(poll.list[n]) /\ state'[n].rev = poll.list[n].rev
          /\ state'[n].invalid = VerdictIn(poll.list, n)
    BY <1>1, <2>a DEF PollUpdate, Merged, MergedBase, Missing, ClusterState, Untracked
  <2>2. \A n \in Names : poll.list[n].rev.spec \in Claims \cup {Broken}
    BY <2>a DEF Object, Revision, Specs
  <2>3. \A n \in Names : Exists(poll.list[n]) /\ VerdictIn(poll.list, n) = "None" =>
          /\ poll.list[n].rev.spec \in Claims
          /\ \A m \in Names \ {n} : Exists(poll.list[m]) =>
                 poll.list[m].rev.spec # poll.list[n].rev.spec
    BY <2>2 DEF VerdictIn, Contested
  <2> QED BY <2>1, <2>3 DEF KnownApart, Apart
<1>2. CASE Restart
  BY <1>2 DEF Restart, Untracked, KnownApart, Apart
<1>3. CASE ~PollUpdate /\ ~Restart
  <2>1. \A n \in Names : /\ state'[n].tracked = state[n].tracked
                         /\ state'[n].departed = state[n].departed
                         /\ state'[n].rev = state[n].rev
                         /\ state'[n].invalid = state[n].invalid
    BY <1>3, KnownKept DEF Known
  <2> QED BY <2>1 DEF KnownApart, Apart
<1> QED BY <1>1, <1>2, <1>3

\* A queued pass begins by PassBegin and in no other way.
LEMMA OnlyBegin ==
    ASSUME TypeInv, [Next]_vars, NEW n \in Names,
           pass[n].pc = "queued", pass'[n].pc = "reconciling"
    PROVE  PassBegin(n)
<1>a. pass \in [Names -> Pass]
  BY DEF TypeInv, TypeOK
<1>1. CASE PollDispatch
  BY <1>1, <1>a DEF PollDispatch, NoPass
<1>2. ASSUME NEW m \in Names, PassAbandon(m) PROVE FALSE
  BY <1>2, <1>a DEF PassAbandon, Pass
<1>3. ASSUME NEW m \in Names, PassBegin(m), m # n PROVE FALSE
  BY <1>3, <1>a DEF PassBegin, Pass
<1>4. ASSUME NEW m \in Names, PassReconcile(m) PROVE FALSE
  BY <1>4, <1>a, ReconcileFacts
<1>5. ASSUME NEW m \in Names, PassWrite(m) \/ PassRecord(m) \/ PassRewrite(m) PROVE FALSE
  BY <1>5, <1>a DEF PassWrite, PassRecord, PassRewrite, Pass
<1>6. ASSUME NEW m \in Names, PassSettled(m) \/ PassUnsettled(m) PROVE FALSE
  BY <1>6, <1>a DEF PassSettled, PassUnsettled, Pass
<1>7. ASSUME NEW m \in Names, PassLeave(m) \/ PassRelease(m) PROVE FALSE
  BY <1>7, <1>a DEF PassLeave, PassRelease, Pass, NoPass
<1>8. CASE Restart
  BY <1>8 DEF Restart, NoPass
<1>9. CASE UNCHANGED pass
  BY <1>9
<1> QED BY <1>1, <1>2, <1>3, <1>4, <1>5, <1>6, <1>7, <1>8, <1>9
  DEF Next, vars, PollStep, PassStart, PassStep, Environment, PollTick, PollList, PollUpdate,
      PollRestamp, PollVerdictStands, PollVerdictNeeded, PollVerdictWrite, BecomeDue, Delete,
      Create, Edit

\* However long a pass waited for its slot, it begins on a spec that resolves
\* and that no other connection in the schedule has a claim on.
THEOREM BeginsUncontested == Spec => StartsUncontested
<1> DEFINE Inv == Flight /\ KnownApart
<1>1. Init => Inv
  BY InitTypeInv, InitOnePass DEF Init, Flight, KnownApart, Apart, Untracked
<1>2. Inv /\ [Next]_vars => Inv'
  BY NextTypeInv, NextOnePass, NextKnownApart DEF Flight
<1>3. ASSUME Inv, [Next]_vars, NEW n \in Names,
             pass[n].pc = "queued", pass'[n].pc = "reconciling"
      PROVE  /\ pass'[n].rev.spec \in Claims
             /\ \A m \in Names \ {n} : state[m].tracked /\ ~state[m].departed =>
                    state[m].rev.spec # pass'[n].rev.spec
  <2>1. PassBegin(n)
    BY <1>3, OnlyBegin DEF Flight
  <2>2. pass'[n].rev = state[n].rev
    BY <1>3, <2>1 DEF PassBegin, Flight, TypeInv, TypeOK, Pass
  <2>3. state[n].tracked
    BY <1>3 DEF Flight, OnePassPerCluster
  <2>4. ~state[n].departed /\ state[n].invalid = "None"
    BY <2>1 DEF PassBegin, Blocked
  <2> QED BY <1>3, <2>2, <2>3, <2>4 DEF KnownApart, Apart
<1>4. Inv /\ [Next]_vars =>
        [\A n \in Names : pass[n].pc = "queued" /\ pass'[n].pc = "reconciling" =>
           /\ pass'[n].rev.spec \in Claims
           /\ \A m \in Names \ {n} : state[m].tracked /\ ~state[m].departed =>
                  state[m].rev.spec # pass'[n].rev.spec]_vars
  BY <1>3
<1> QED BY <1>1, <1>2, <1>4, PTL DEF Spec, StartsUncontested

-----------------------------------------------------------------------------
(* The passes keep the contract.                                           *)

LEMMA PhaseIs ==
    ASSUME OnePassPerCluster, NEW n \in Names
    PROVE  /\ Phase(n) = "idle" <=> pass[n].pc = "none"
           /\ Phase(n) = "waiting" <=> pass[n].pc = "queued"
           /\ Phase(n) = "ending" <=> pass[n].pc \in {"leaving", "releasing"}
           /\ Phase(n) = "working" <=> pass[n].pc \notin {"none", "queued", "leaving", "releasing"}
BY DEF Phase, OnePassPerCluster

\* A step that changes neither what is known nor where any pass stands is no
\* step of the contract; one that changes only what is known is Learn.
LEMMA FlightStutters ==
    ASSUME OnePassPerCluster, OnePassPerCluster', \A n \in Names : Phase(n)' = Phase(n),
           Cleared' \in SUBSET Names
    PROVE  Contract!Next \/ UNCHANGED Contract!flight
<1>1. [n \in Names |-> Phase(n)]' = [n \in Names |-> Phase(n)]
  OBVIOUS
<1> QED BY <1>1 DEF Contract!Next, Contract!Learn, Contract!flight

\* One pass moves on and nothing else changes.
LEMMA PhaseMoves ==
    ASSUME NEW n \in Names, NEW to, Phase(n)' = to, UNCHANGED Cleared,
           \A m \in Names \ {n} : Phase(m)' = Phase(m)
    PROVE  Contract!Move(n, Phase(n), to)
<1> DEFINE phase == [m \in Names |-> Phase(m)]
<1>1. phase' = [phase EXCEPT ![n] = to]
  OBVIOUS
<1>2. phase[n] = Phase(n)
  OBVIOUS
<1> QED BY <1>1, <1>2 DEF Contract!Move

LEMMA StepKeepsContract ==
    ASSUME Flight, Flight', [Next]_vars
    PROVE  Contract!Next \/ UNCHANGED Contract!flight
<1>a. /\ state \in [Names -> ClusterState] /\ pass \in [Names -> Pass]
      /\ OnePassPerCluster /\ OnePassPerCluster'
  BY DEF Flight, TypeInv, TypeOK
<1>b. Cleared' \in SUBSET Names
  BY DEF Cleared
<1>1. CASE Restart
  <2>1. \A n \in Names : Phase(n)' = "idle"
    BY <1>1 DEF Restart, Phase, Untracked
  <2>2. Cleared' = {}
    BY <1>1 DEF Restart, Cleared, Untracked
  <2>3. [n \in Names |-> Phase(n)]' = [n \in Names |-> "idle"]
    BY <2>1
  <2> QED BY <2>2, <2>3 DEF Contract!Next, Contract!Restart
<1>2. CASE PollDispatch
  <2> DEFINE due == {n \in Names : Due(n)}
  <2>1. due \subseteq Cleared /\ \A n \in due : Phase(n) = "idle"
    BY DEF Due, Cleared, Phase
  <2>2. \A n \in Names : Phase(n)' = IF n \in due THEN "waiting" ELSE Phase(n)
    <3>1. \A n \in Names : Due(n) => state'[n].running /\ pass'[n].pc = "queued"
      BY <1>2, <1>a DEF PollDispatch, ClusterState, NoPass
    <3>2. \A n \in Names : ~Due(n) => state'[n] = state[n] /\ pass'[n] = pass[n]
      BY <1>2 DEF PollDispatch
    <3> QED BY <3>1, <3>2 DEF Phase
  <2>3. UNCHANGED Cleared
    <3>1. \A n \in Names : /\ state'[n].tracked = state[n].tracked
                           /\ state'[n].departed = state[n].departed
                           /\ state'[n].invalid = state[n].invalid
      BY <1>2, <1>a DEF PollDispatch, ClusterState
    <3> QED BY <3>1 DEF Cleared, Blocked
  <2> HIDE DEF due
  <2>4. [n \in Names |-> Phase(n)]'
          = [n \in Names |-> IF n \in due THEN "waiting" ELSE [m \in Names |-> Phase(m)][n]]
    BY <2>2
  <2>5. \A n \in due : n \in Names /\ [m \in Names |-> Phase(m)][n] = "idle"
    BY <2>1 DEF Cleared
  <2>6. Contract!Dispatch
    BY <2>1, <2>3, <2>4, <2>5 DEF Contract!Dispatch
  <2> QED BY <2>6 DEF Contract!Next
<1>3. ASSUME NEW n \in Names, PassAbandon(n) PROVE Contract!Next
  <2>1. /\ pass[n].pc = "queued" /\ pass'[n].pc = "leaving" /\ UNCHANGED <<state, poll, restarts>>
        /\ \A m \in Names \ {n} : pass'[m] = pass[m]
    BY <1>3, <1>a DEF PassAbandon, Pass
  <2>2. Phase(n) = "waiting" /\ Phase(n)' = "ending" /\ \A m \in Names \ {n} : Phase(m)' = Phase(m)
    BY <2>1, <1>a, PhaseIs DEF Phase
  <2>3. n \notin Cleared /\ UNCHANGED Cleared
    BY <1>3, <2>1 DEF PassAbandon, Cleared
  <2>4. Contract!Abandon(n)
    BY <2>2, <2>3, PhaseMoves DEF Contract!Abandon
  <2> QED BY <2>4 DEF Contract!Next
<1>4. ASSUME NEW n \in Names, PassBegin(n) PROVE Contract!Next
  <2>1. /\ pass[n].pc = "queued" /\ pass'[n].pc = "reconciling" /\ UNCHANGED poll
        /\ \A m \in Names \ {n} : pass'[m] = pass[m]
        /\ \A m \in Names : /\ state'[m].running = state[m].running
                            /\ state'[m].tracked = state[m].tracked
                            /\ state'[m].departed = state[m].departed
                            /\ state'[m].invalid = state[m].invalid
    BY <1>4, <1>a DEF PassBegin, Pass, ClusterState
  <2>2. Phase(n) = "waiting"
    BY <2>1, <1>a, PhaseIs
  <2>3. Phase(n)' = "working"
    BY <2>1, <1>a DEF Phase, OnePassPerCluster
  <2>4. \A m \in Names \ {n} : Phase(m)' = Phase(m)
    BY <2>1 DEF Phase
  <2>5. UNCHANGED Cleared
    BY <2>1 DEF Cleared, Blocked
  <2>6. n \in Cleared
    BY <1>4, <2>1, <1>a DEF PassBegin, Cleared, OnePassPerCluster
  <2>7. Cardinality(Contract!Working) < Slots
    <3>1. Contract!Working \in SUBSET Held
      BY <1>a, PhaseIs DEF Contract!Working, Held
    <3>2. IsFiniteSet(Held)
      BY SchedulerAssumption, FS_Subset, Held \in SUBSET Names DEF Held
    <3>3. /\ Cardinality(Contract!Working) <= Cardinality(Held) /\ IsFiniteSet(Contract!Working)
      BY <3>1, <3>2, FS_Subset
    <3>4. Cardinality(Contract!Working) \in Nat /\ Cardinality(Held) \in Nat
      BY <3>2, <3>3, FS_CardinalityType
    <3>5. Cardinality(Held) < Slots
      BY <1>4 DEF PassBegin
    <3> QED BY <3>3, <3>4, <3>5, SchedulerAssumption
  <2>8. Contract!Move(n, "waiting", "working")
    BY <2>2, <2>3, <2>4, <2>5, PhaseMoves
  <2>9. Contract!Begin(n)
    BY <2>6, <2>7, <2>8 DEF Contract!Begin, Contract!Cardinality, Cardinality
  <2> QED BY <2>9 DEF Contract!Next
<1>5. ASSUME NEW n \in Names, PassSettled(n) \/ PassRewrite(n) PROVE Contract!Next
  <2>1. /\ pass[n].pc \in {"settling", "rewriting"} /\ pass'[n].pc = "leaving" /\ UNCHANGED state
        /\ \A m \in Names \ {n} : pass'[m] = pass[m]
    BY <1>5, <1>a DEF PassSettled, PassRewrite, Pass
  <2>2. Phase(n) = "working" /\ Phase(n)' = "ending" /\ \A m \in Names \ {n} : Phase(m)' = Phase(m)
    BY <2>1, <1>a, PhaseIs DEF Phase
  <2>3. UNCHANGED Cleared
    BY <2>1 DEF Cleared
  <2>4. Contract!Finish(n)
    BY <2>2, <2>3, PhaseMoves DEF Contract!Finish
  <2> QED BY <2>4 DEF Contract!Next
<1>6. ASSUME NEW n \in Names, PassRelease(n) PROVE Contract!Next
  <2>1. /\ pass[n].pc = "releasing" /\ ~state'[n].running
        /\ \A m \in Names \ {n} : pass'[m] = pass[m] /\ state'[m] = state[m]
        /\ \A m \in Names : /\ state'[m].tracked = state[m].tracked
                            /\ state'[m].departed = state[m].departed
                            /\ state'[m].invalid = state[m].invalid
    BY <1>6, <1>a DEF PassRelease, ClusterState
  <2>2. Phase(n) = "ending"
    BY <2>1, <1>a, PhaseIs
  <2>3. Phase(n)' = "idle" /\ \A m \in Names \ {n} : Phase(m)' = Phase(m)
    BY <2>1 DEF Phase
  <2>4. UNCHANGED Cleared
    BY <2>1 DEF Cleared, Blocked
  <2>5. Contract!Release(n)
    BY <2>2, <2>3, <2>4, PhaseMoves DEF Contract!Release
  <2> QED BY <2>5 DEF Contract!Next
<1>7. ASSUME NEW n \in Names,
             PassReconcile(n) \/ PassWrite(n) \/ PassRecord(n) \/ PassUnsettled(n) \/ PassLeave(n)
      PROVE  Contract!Next \/ UNCHANGED Contract!flight
  <2>1. /\ \A m \in Names \ {n} : pass'[m] = pass[m]
        /\ \/ /\ pass[n].pc \in {"reconciling", "writing", "recording", "settling"}
              /\ pass'[n].pc \in {"writing", "recording", "settling", "rewriting"}
           \/ pass[n].pc = "leaving" /\ pass'[n].pc = "releasing"
    <3>1. CASE PassReconcile(n)
      BY <3>1, <1>a, ReconcileFacts
    <3>2. CASE PassWrite(n) \/ PassRecord(n) \/ PassUnsettled(n)
      BY <3>2, <1>a DEF PassWrite, PassRecord, PassUnsettled, Pass
    <3>3. CASE PassLeave(n)
      BY <3>3, <1>a DEF PassLeave, Pass, NoPass
    <3> QED BY <1>7, <3>1, <3>2, <3>3
  <2>2. Phase(n)' = Phase(n)
    BY <2>1, <1>a DEF Phase, OnePassPerCluster
  <2>3. \A m \in Names \ {n} : Phase(m)' = Phase(m)
    BY <2>1, <1>a DEF Phase, OnePassPerCluster
  <2> QED BY <2>2, <2>3, <1>a, <1>b, FlightStutters
<1>8. CASE UNCHANGED <<pass>>
  <2>1. \A n \in Names : Phase(n)' = Phase(n)
    BY <1>8, <1>a DEF Phase, OnePassPerCluster
  <2> QED BY <2>1, <1>a, <1>b, FlightStutters
<1> QED BY <1>1, <1>2, <1>3, <1>4, <1>5, <1>6, <1>7, <1>8
  DEF Next, vars, PollStep, PassStart, PassStep, Environment, PollTick, PollList, PollUpdate,
      PollRestamp, PollVerdictStands, PollVerdictNeeded, PollVerdictWrite, BecomeDue, Delete,
      Create, Edit

\* The scheduler implements the contract of module SingleFlight: through every
\* interleaving of its polls and passes with edits, deletions and restarts, a
\* cluster has one pass at a time, which began while the cluster was cleared.
THEOREM ImplementsContract == Spec => KeepsContract
<1>1. Init => Flight /\ Contract!Init
  <2>1. ASSUME Init PROVE [n \in Names |-> Phase(n)] = [n \in Names |-> "idle"] /\ Cleared = {}
    BY <2>1 DEF Init, Phase, Cleared, Untracked
  <2> QED BY <2>1, InitTypeInv, InitOnePass DEF Flight, Contract!Init
<1>2. Flight /\ [Next]_vars => Flight'
  BY NextTypeInv, NextOnePass DEF Flight
<1>3. Flight /\ Flight' /\ [Next]_vars => [Contract!Next]_(Contract!flight)
  BY StepKeepsContract
<1> QED BY <1>1, <1>2, <1>3, PTL DEF Spec, KeepsContract, Contract!Spec

-----------------------------------------------------------------------------
(* A generation is all the scheduler compares, and it stands for the spec:  *)
(* the API server hands the generations of one object out once.  That is    *)
(* true of a name only until its object is deleted.                         *)
(*                                                                         *)
(* Holds(n, v): somebody holds v as the revision of n.  The process's steps *)
(* only pass revisions on; a revision is new only in the object itself.     *)

Holds(n, v) ==
    \/ v = object[n].rev \/ v = poll.list[n].rev \/ v = state[n].rev
    \/ v = pass[n].rev \/ v = state[n].passed

OneSpecPerGeneration ==
    \A n \in Names \ gone :
        /\ \A v, w : Holds(n, v) /\ Holds(n, w) /\ v.gen = w.gen => v = w
        /\ \A v : Holds(n, v) => v \in Revision
        /\ \A v : Holds(n, v) /\ v.gen = 0 => v = NoRevision
        /\ Exists(object[n]) => \A v : Holds(n, v) => v.gen <= object[n].rev.gen
        /\ ~Exists(object[n]) => \A v : Holds(n, v) => v = NoRevision

LEMMA InitOneSpec == Init => OneSpecPerGeneration
<1> SUFFICES ASSUME Init, NEW n \in Names
             PROVE  /\ object[n] \in {Absent} \cup {NewObject(s) : s \in Specs}
                    /\ \A v : Holds(n, v) => v = object[n].rev \/ v = NoRevision
  BY SchedulerAssumption
     DEF OneSpecPerGeneration, Absent, NewObject, NoRevision, Exists, Revision, Specs
<1> QED BY DEF Init, Holds, NoPoll, Nothing, Absent, Untracked, NoPass

\* A step of the process: every object is as it was, and whatever revision is
\* held after it was held before it, or is none.
PassesOn ==
    /\ \A n \in Names : object'[n].rev = object[n].rev
    /\ gone' = gone
    /\ \A n \in Names : \A v : Holds(n, v)' => Holds(n, v) \/ v = NoRevision

LEMMA PassingOnKeeps ==
    ASSUME TypeInv, OneSpecPerGeneration, PassesOn
    PROVE  OneSpecPerGeneration'
<1> SUFFICES ASSUME NEW n \in Names \ gone'
             PROVE  /\ \A v, w : Holds(n, v)' /\ Holds(n, w)' /\ v.gen = w.gen => v = w
                    /\ \A v : Holds(n, v)' => v \in Revision
                    /\ \A v : Holds(n, v)' /\ v.gen = 0 => v = NoRevision
                    /\ Exists(object'[n]) => \A v : Holds(n, v)' => v.gen <= object'[n].rev.gen
                    /\ ~Exists(object'[n]) => \A v : Holds(n, v)' => v = NoRevision
  BY DEF OneSpecPerGeneration
<1>1. object'[n].rev = object[n].rev /\ gone' = gone
  BY DEF PassesOn
<1>2. Exists(object'[n]) <=> Exists(object[n])
  BY <1>1 DEF Exists
<1>3. \A v : Holds(n, v)' => Holds(n, v) \/ v = NoRevision
  BY DEF PassesOn
<1>4. NoRevision \in Revision /\ NoRevision.gen = 0
  BY EmptyTypes DEF NoRevision
<1>5. Exists(object[n]) => 0 <= object[n].rev.gen
  BY DEF Exists, TypeInv, TypeOK, Object, Revision
<1> QED BY <1>1, <1>2, <1>3, <1>4, <1>5 DEF OneSpecPerGeneration

LEMMA WritePassesOn ==
    ASSUME TypeInv, NEW m \in Names, NEW status, WriteStatus(m, status)
    PROVE  \A n \in Names : object'[n].rev = object[n].rev
BY DEF WriteStatus, TypeInv, TypeOK, Object

LEMMA ProcessPassesOn ==
    ASSUME TypeInv, PollStep \/ (\E n \in Names : PassStart(n) \/ PassStep(n)) \/ Restart
                    \/ \E n \in Names : BecomeDue(n)
    PROVE  PassesOn
<1>a. /\ state \in [Names -> ClusterState] /\ pass \in [Names -> Pass]
      /\ poll.list \in [Names -> Object]
      /\ poll \in [pc : PollPc, list : [Names -> Object], todo : SUBSET Names,
                   at : SUBSET Names, status : Status]
  BY DEF TypeInv, TypeOK
<1> SUFFICES /\ \A n \in Names : object'[n].rev = object[n].rev
             /\ gone' = gone
             /\ \A n \in Names :
                  /\ poll'.list[n].rev \in {poll.list[n].rev, object[n].rev, NoRevision}
                  /\ state'[n].rev \in {state[n].rev, poll.list[n].rev, NoRevision}
                  /\ pass'[n].rev \in {pass[n].rev, state[n].rev, NoRevision}
                  /\ state'[n].passed \in {state[n].passed, pass[n].rev, NoRevision}
  BY DEF PassesOn, Holds
<1>1. CASE PollTick
  BY <1>1, <1>a DEF PollTick
<1>2. CASE PollList
  BY <1>2, <1>a DEF PollList
<1>3. CASE PollUpdate
  BY <1>3, <1>a DEF PollUpdate, Merged, MergedBase, Missing, ClusterState, Untracked, Nothing, Absent
<1>4. CASE PollDispatch
  BY <1>4, <1>a DEF PollDispatch, ClusterState, NoPass
<1>5. CASE \E n \in Names : PollRestamp(n) \/ PollVerdictWrite(n)
  BY <1>5, <1>a, WritePassesOn DEF PollRestamp, PollVerdictWrite
<1>6. ASSUME NEW n \in Names, PollVerdictStands(n) \/ PollVerdictNeeded(n)
      PROVE  /\ UNCHANGED <<object, gone, pass>> /\ poll'.list = poll.list
             /\ \A m \in Names : state'[m].rev = state[m].rev /\ state'[m].passed = state[m].passed
  <2>1. UNCHANGED <<object, gone, pass>> /\ poll'.list = poll.list
    BY <1>6, <1>a DEF PollVerdictStands, PollVerdictNeeded
  <2>2. \A m \in Names : state'[m].rev = state[m].rev /\ state'[m].passed = state[m].passed
    BY <1>6, <1>a DEF PollVerdictStands, PollVerdictNeeded, ClusterState
  <2> QED BY <2>1, <2>2
<1>7. ASSUME NEW n \in Names, PassAbandon(n) \/ PassBegin(n)
      PROVE  /\ UNCHANGED <<object, gone, poll>>
             /\ \A m \in Names : /\ state'[m].rev = state[m].rev /\ state'[m].passed = state[m].passed
                                 /\ pass'[m].rev \in {pass[m].rev, state[m].rev}
  <2>1. \A m \in Names : state'[m].rev = state[m].rev /\ state'[m].passed = state[m].passed
    BY <1>7, <1>a DEF PassAbandon, PassBegin, ClusterState
  <2>2. \A m \in Names : pass'[m].rev \in {pass[m].rev, state[m].rev}
    BY <1>7, <1>a DEF PassAbandon, PassBegin, Pass
  <2> QED BY <1>7, <2>1, <2>2 DEF PassAbandon, PassBegin
<1>8. ASSUME NEW n \in Names, PassReconcile(n)
      PROVE  /\ UNCHANGED <<object, gone, poll, state>>
             /\ \A m \in Names : pass'[m].rev = pass[m].rev
  BY <1>8, <1>a, ReconcileFacts DEF PassReconcile
<1>9. ASSUME NEW n \in Names, PassWrite(n) \/ PassRewrite(n)
      PROVE  /\ UNCHANGED <<gone, poll, state>>
             /\ \A m \in Names : object'[m].rev = object[m].rev /\ pass'[m].rev = pass[m].rev
  <2>1. \A m \in Names : object'[m].rev = object[m].rev
    BY <1>9, WritePassesOn DEF PassWrite, PassRewrite
  <2>2. \A m \in Names : pass'[m].rev = pass[m].rev
    <3>1. \E pc : pass' = [pass EXCEPT ![n].pc = pc]
      BY <1>9 DEF PassWrite, PassRewrite
    <3> QED BY <3>1, <1>a DEF Pass
  <2> QED BY <1>9, <2>1, <2>2 DEF PassWrite, PassRewrite
<1>10. CASE \E n \in Names : PassRecord(n)
  BY <1>10, <1>a DEF PassRecord, ClusterState, Pass
<1>11. ASSUME NEW n \in Names, PassSettled(n) \/ PassUnsettled(n)
       PROVE  /\ UNCHANGED <<object, gone, poll>>
              /\ \A m \in Names : /\ state'[m].rev = state[m].rev /\ state'[m].passed = state[m].passed
                                  /\ pass'[m].rev = pass[m].rev
  <2>1. \A m \in Names : state'[m].rev = state[m].rev /\ state'[m].passed = state[m].passed
    BY <1>11, <1>a DEF PassSettled, PassUnsettled, ClusterState
  <2>2. \A m \in Names : pass'[m].rev = pass[m].rev
    BY <1>11, <1>a DEF PassSettled, PassUnsettled, Pass
  <2> QED BY <1>11, <2>1, <2>2 DEF PassSettled, PassUnsettled
<1>12. CASE \E n \in Names : PassLeave(n) \/ PassRelease(n)
  BY <1>12, <1>a DEF PassLeave, PassRelease, ClusterState, NoPass
<1>13. CASE Restart
  BY <1>13 DEF Restart, NoPoll, Nothing, Absent, Untracked, NoPass
<1>14. CASE \E n \in Names : BecomeDue(n)
  BY <1>14, <1>a DEF BecomeDue, ClusterState
<1> QED BY <1>1, <1>2, <1>3, <1>4, <1>5, <1>6, <1>7, <1>8, <1>9, <1>10, <1>11, <1>12, <1>13, <1>14
  DEF PollStep, PassStart, PassStep

\* A person changes one object, and what the process holds stays as it was.
LEMMA PeopleKeepOneSpec ==
    ASSUME TypeInv, OneSpecPerGeneration, NEW n \in Names,
           Delete(n) \/ \E spec \in Specs : Create(n, spec) \/ Edit(n, spec)
    PROVE  OneSpecPerGeneration'
<1>a. /\ object \in [Names -> Object] /\ object[n].rev \in Revision /\ gone \subseteq Names
      /\ UNCHANGED <<state, poll, pass>>
  BY DEF TypeInv, TypeOK, Object, Delete, Create, Edit
<1>b. \A m \in Names \ {n} : /\ object'[m] = object[m] /\ (m \in gone' <=> m \in gone)
                             /\ \A v : Holds(m, v)' <=> Holds(m, v)
  BY <1>a DEF Delete, Create, Edit, Holds
<1>c. \A v : Holds(n, v)' => v = object'[n].rev \/ Holds(n, v)
  BY <1>a DEF Holds
<1> SUFFICES ASSUME n \notin gone'
             PROVE  /\ \A v, w : Holds(n, v)' /\ Holds(n, w)' /\ v.gen = w.gen => v = w
                    /\ \A v : Holds(n, v)' => v \in Revision
                    /\ \A v : Holds(n, v)' /\ v.gen = 0 => v = NoRevision
                    /\ Exists(object'[n]) => \A v : Holds(n, v)' => v.gen <= object'[n].rev.gen
                    /\ ~Exists(object'[n]) => \A v : Holds(n, v)' => v = NoRevision
  BY <1>b DEF OneSpecPerGeneration
<1>1. CASE Delete(n)
  BY <1>1, <1>a DEF Delete
<1>2. ASSUME NEW spec \in Specs, Create(n, spec)
      PROVE  OneSpecPerGeneration'
  <2>1. object'[n].rev = [gen |-> 1, spec |-> spec] /\ Exists(object'[n])
    BY <1>2, <1>a DEF Create, NewObject, Exists
  <2>2. \A v : Holds(n, v) => v = NoRevision
    BY <1>2 DEF Create, OneSpecPerGeneration
  <2>3. [gen |-> 1, spec |-> spec] \in Revision
    BY SchedulerAssumption DEF Revision
  <2>4. \A v : Holds(n, v)' => v = [gen |-> 1, spec |-> spec] \/ v = NoRevision
    BY <1>c, <2>1, <2>2
  <2> QED BY <1>b, <2>1, <2>3, <2>4, EmptyTypes DEF OneSpecPerGeneration, NoRevision
<1>3. ASSUME NEW spec \in Specs, Edit(n, spec)
      PROVE  OneSpecPerGeneration'
  <2> DEFINE new == [gen |-> object[n].rev.gen + 1, spec |-> spec]
  <2>0. n \notin gone
    BY <1>3 DEF Edit
  <2>1. object'[n].rev = new /\ Exists(object[n])
    BY <1>3, <1>a DEF Edit, Object
  <2>2. new \in Revision /\ new.gen > object[n].rev.gen /\ new.gen > 0
    BY <1>3, <1>a, SchedulerAssumption DEF Edit, Revision
  <2>3. \A v : Holds(n, v) => v.gen <= object[n].rev.gen /\ v \in Revision /\ v.gen < new.gen
    BY <2>0, <2>1, <2>2, <1>a DEF OneSpecPerGeneration, Revision
  <2>4. \A v : Holds(n, v)' => v = new \/ Holds(n, v)
    BY <1>c, <2>1
  <2>5. Exists(object'[n])
    BY <2>1, <2>2 DEF Exists
  <2> HIDE DEF new
  <2> QED BY <1>b, <2>0, <2>1, <2>2, <2>3, <2>4, <2>5 DEF OneSpecPerGeneration, Revision
<1> QED BY <1>1, <1>2, <1>3 DEF OneSpecPerGeneration

LEMMA NextOneSpec == TypeInv /\ OneSpecPerGeneration /\ [Next]_vars => OneSpecPerGeneration'
<1> SUFFICES ASSUME TypeInv, OneSpecPerGeneration, [Next]_vars PROVE OneSpecPerGeneration'
  OBVIOUS
<1>1. CASE UNCHANGED vars
  BY <1>1 DEF vars, OneSpecPerGeneration, Holds
<1> QED BY <1>1, ProcessPassesOn, PassingOnKeeps, PeopleKeepOneSpec DEF Next, Environment

\* Of a name whose object was never deleted, Synced means that this process
\* reconciled the spec it now knows of.  (Where one is created again under a
\* deleted name it need not: two objects share a generation.)
THEOREM SyncedMeansReconciled == Spec => []SyncedIsReconciled
<1>1. Init => TypeInv /\ OneSpecPerGeneration
  BY InitTypeInv, InitOneSpec
<1>2. (TypeInv /\ OneSpecPerGeneration) /\ [Next]_vars => (TypeInv /\ OneSpecPerGeneration)'
  BY NextTypeInv, NextOneSpec
<1>3. OneSpecPerGeneration => SyncedIsReconciled
  <2>1. \A n \in Names : Holds(n, state[n].rev) /\ Holds(n, state[n].passed)
    BY DEF Holds
  <2> QED BY <2>1 DEF OneSpecPerGeneration, SyncedIsReconciled, Synced
<1> QED BY <1>1, <1>2, <1>3, PTL DEF Spec

-----------------------------------------------------------------------------
(* Accusations.  Every copy of a status, wherever it is, names a conflict    *)
(* only where Ready says so; and what a pass carries names none at all.      *)

Justified(status) == status.accuses => status.ready = "Conflict"

Accusations ==
    /\ \A n \in Names : /\ Justified(object[n].status) /\ Justified(poll.list[n].status)
                        /\ Justified(state[n].status)
                        /\ Justified(pass[n].written) /\ ~pass[n].status.accuses
    /\ Justified(poll.status)

LEMMA EmptyJustified ==
    /\ Justified(NoStatus) /\ Justified(Absent.status) /\ Justified(Untracked.status)
    /\ Justified(NoPass.written) /\ ~NoPass.status.accuses
    /\ \A n \in Names : Justified(Nothing[n].status)
BY DEF Justified, NoStatus, Absent, Untracked, NoPass, Nothing

\* A verdict accuses of what it says; what it is laid over does not matter.
LEMMA OverlayJustified ==
    ASSUME NEW status \in Status, NEW entry \in ClusterState
    PROVE  /\ Justified(Rejected(status, entry))
           /\ ~status.accuses => Justified(Overlaid(status, entry))
BY DEF Justified, Rejected, Overlaid, Status

LEMMA WriteJustified ==
    ASSUME TypeInv, Accusations, NEW m \in Names, NEW status, Justified(status), WriteStatus(m, status)
    PROVE  \A n \in Names : Justified(object'[n].status)
BY DEF WriteStatus, Accusations, TypeInv, TypeOK, Object

LEMMA NextAccusations == TypeInv /\ Accusations /\ [Next]_vars => Accusations'
<1> SUFFICES ASSUME TypeInv, Accusations, [Next]_vars PROVE Accusations'
  OBVIOUS
<1>a. /\ object \in [Names -> Object] /\ poll.list \in [Names -> Object]
      /\ state \in [Names -> ClusterState] /\ pass \in [Names -> Pass]
      /\ poll \in [pc : PollPc, list : [Names -> Object], todo : SUBSET Names,
                   at : SUBSET Names, status : Status]
  BY DEF TypeInv, TypeOK
<1> DEFINE Kept(n) == /\ Justified(object'[n].status) /\ Justified(poll'.list[n].status)
                      /\ Justified(state'[n].status)
                      /\ Justified(pass'[n].written) /\ ~pass'[n].status.accuses
<1> SUFFICES (\A n \in Names : Kept(n)) /\ Justified(poll'.status)
  BY DEF Accusations, Justified
<1>b. /\ \A n \in Names : /\ Justified(object[n].status) /\ Justified(poll.list[n].status)
                          /\ Justified(state[n].status)
                          /\ Justified(pass[n].written) /\ ~pass[n].status.accuses
      /\ Justified(poll.status)
  BY DEF Accusations
<1>1. CASE UNCHANGED vars
  BY <1>1, <1>b DEF vars
<1>2. CASE PollTick \/ PollList \/ \E n \in Names : PollVerdictStands(n)
  BY <1>2, <1>a, <1>b DEF PollTick, PollList, PollVerdictStands
<1>3. CASE PollUpdate
  <2>1. \A n \in Names : state'[n].status \in {state[n].status, poll.list[n].status, NoStatus}
    BY <1>3, <1>a DEF PollUpdate, Merged, MergedBase, Missing, ClusterState, Untracked
  <2> QED BY <1>3, <1>a, <1>b, <2>1, EmptyJustified DEF PollUpdate
<1>4. CASE PollDispatch
  <2>1. \A n \in Names : /\ state'[n].status = state[n].status
                         /\ \/ pass'[n] = pass[n]
                            \/ pass'[n].written = NoPass.written /\ pass'[n].status = NoPass.status
    BY <1>4, <1>a DEF PollDispatch, ClusterState, NoPass
  <2> QED BY <1>4, <1>a, <1>b, <2>1, EmptyJustified DEF PollDispatch
<1>5. ASSUME NEW m \in Names, PollRestamp(m) PROVE (\A n \in Names : Kept(n)) /\ Justified(poll'.status)
  <2>1. \A n \in Names : Justified(object'[n].status)
    BY <1>5, <1>b, WriteJustified DEF PollRestamp
  <2> QED BY <1>5, <1>a, <1>b, <2>1 DEF PollRestamp
<1>6. ASSUME NEW m \in Names, PollVerdictNeeded(m)
      PROVE  (\A n \in Names : Kept(n)) /\ Justified(poll'.status)
  <2>1. state[m] \in ClusterState /\ state[m].status \in Status
    BY <1>a DEF ClusterState
  <2>2. Justified(Rejected(state[m].status, state[m]))
    BY <2>1, OverlayJustified
  <2> QED BY <1>6, <1>a, <1>b, <2>1, <2>2 DEF PollVerdictNeeded, ClusterState
<1>7. ASSUME NEW m \in Names, PollVerdictWrite(m)
      PROVE  (\A n \in Names : Kept(n)) /\ Justified(poll'.status)
  <2>1. \A n \in Names : Justified(object'[n].status)
    BY <1>7, <1>b, WriteJustified DEF PollVerdictWrite
  <2> QED BY <1>7, <1>a, <1>b, <2>1, EmptyJustified DEF PollVerdictWrite
<1>8. ASSUME NEW m \in Names, PassStart(m) \/ PassStep(m)
      PROVE  (\A n \in Names : Kept(n)) /\ Justified(poll'.status)
  <2>a. /\ state[m] \in ClusterState /\ pass[m] \in Pass /\ pass[m].status \in Status
        /\ state[m].status \in Status
    BY <1>a DEF ClusterState, Pass
  <2>b. Justified(Overlaid(pass[m].status, state[m]))
    BY <1>b, <2>a, OverlayJustified
  <2>1. CASE PassAbandon(m)
    BY <2>1, <1>a, <1>b DEF PassAbandon, Pass
  <2>2. CASE PassBegin(m)
    BY <2>2, <2>a, <1>a, <1>b DEF PassBegin, Pass, ClusterState, Status
  <2>3. CASE PassReconcile(m)
    <3>1. PICK ok \in BOOLEAN, ready \in {"Ready", "Failed"},
               credential \in {pass[m].status.credential, minted[m] + 1} :
           LET result == [pass[m].status EXCEPT !.gen = pass[m].rev.gen, !.ready = ready,
                                                !.credential = credential] IN
           pass' = [pass EXCEPT ![m].pc = "writing", ![m].status = result, ![m].ok = ok,
                                ![m].written = Overlaid(result, state[m])]
      BY <2>3, Zenon DEF PassReconcile
    <3> DEFINE result == [pass[m].status EXCEPT !.gen = pass[m].rev.gen, !.ready = ready,
                                                !.credential = credential]
    <3>2. result.accuses = FALSE
      BY <2>a, <1>b DEF Status
    <3>3. Justified(Overlaid(result, state[m]))
      BY <3>2, <2>a DEF Justified, Overlaid, Rejected, Status
    <3>4. /\ pass'[m].status = result /\ pass'[m].written = Overlaid(result, state[m])
          /\ \A n \in Names \ {m} : pass'[n] = pass[n]
      BY <3>1, <1>a DEF Pass
    <3> QED BY <2>3, <1>b, <3>2, <3>3, <3>4 DEF PassReconcile
  <2>4. CASE PassWrite(m)
    <3>1. \A n \in Names : Justified(object'[n].status)
      BY <2>4, <1>b, WriteJustified DEF PassWrite
    <3> QED BY <2>4, <1>a, <1>b, <3>1 DEF PassWrite, Pass
  <2>5. CASE PassRecord(m)
    BY <2>5, <1>a, <1>b DEF PassRecord, Pass, ClusterState
  <2>6. CASE PassSettled(m)
    BY <2>6, <1>a, <1>b DEF PassSettled, Pass
  <2>7. CASE PassUnsettled(m)
    BY <2>7, <1>a, <1>b, <2>b DEF PassUnsettled, Pass, ClusterState
  <2>8. CASE PassRewrite(m)
    <3>1. \A n \in Names : Justified(object'[n].status)
      BY <2>8, <1>b, WriteJustified DEF PassRewrite
    <3> QED BY <2>8, <1>a, <1>b, <3>1 DEF PassRewrite, Pass
  <2>9. CASE PassLeave(m) \/ PassRelease(m)
    <3>1. \A n \in Names : /\ state'[n].status = state[n].status
                           /\ \/ pass'[n] = pass[n]
                              \/ pass'[n].written = NoPass.written /\ pass'[n].status = NoPass.status
      BY <2>9, <1>a DEF PassLeave, PassRelease, ClusterState, NoPass
    <3> QED BY <2>9, <1>b, <3>1, EmptyJustified DEF PassLeave, PassRelease
  <2> QED BY <1>8, <2>1, <2>2, <2>3, <2>4, <2>5, <2>6, <2>7, <2>8, <2>9 DEF PassStart, PassStep
<1>9. CASE Restart
  BY <1>9, <1>b, EmptyJustified DEF Restart, NoPoll
<1>10. CASE \E n \in Names : BecomeDue(n)
  BY <1>10, <1>a, <1>b DEF BecomeDue, ClusterState
<1>11. CASE \E n \in Names : Delete(n) \/ \E spec \in Specs : Create(n, spec) \/ Edit(n, spec)
  <2>1. \A n \in Names : object'[n].status \in {object[n].status, NoStatus}
    BY <1>11, <1>a DEF Delete, Create, Edit, Object, Absent, NewObject
  <2> QED BY <1>11, <1>b, <2>1, EmptyJustified DEF Delete, Create, Edit
<1> QED BY <1>1, <1>2, <1>3, <1>4, <1>5, <1>6, <1>7, <1>8, <1>9, <1>10, <1>11
        DEF Next, PollStep, Environment

\* The Conflict condition on an object never outlives the conflict it names,
\* whichever of poll and pass wrote it, and from however old a copy.
THEOREM ConflictsAreCurrent == Spec => []AccusesOnlyInConflict
<1>1. Init => Accusations
  BY EmptyJustified DEF Init, Accusations, NewObject, Absent, NoPoll, Justified
<1>2. Accusations => AccusesOnlyInConflict
  BY DEF Accusations, Justified, AccusesOnlyInConflict
<1> QED BY <1>1, <1>2, InitTypeInv, NextTypeInv, NextAccusations, PTL DEF Spec

-----------------------------------------------------------------------------
(* Verdicts in memory.  Once the report phase has been past an entry with a  *)
(* verdict, its status says so; or its pass has just put a result there and  *)
(* is about to settle.                                                      *)

Standing(entry) == entry.status = Rejected(entry.status, entry)
Past(n) == poll.pc # "dispatch" /\ (poll.pc \in {"report", "writing"} => n \notin poll.todo)
Remembered ==
    \A n \in Names : state[n].invalid # "None" /\ Past(n) =>
        Standing(state[n]) \/ (pass[n].pc = "settling" /\ state[n].status = pass[n].written)

\* What a verdict is laid over stands, and goes on standing: laid over it once
\* more, it changes nothing.
LEMMA RejectedStands ==
    ASSUME NEW status \in Status, NEW entry \in ClusterState, NEW other \in ClusterState,
           entry.status = Rejected(status, other), other.rev = entry.rev,
           other.invalid = entry.invalid
    PROVE  Standing(entry)
BY DEF Standing, Rejected, Status, ClusterState

\* An entry of which nothing changes but when it is due, and whether it has a pass.
LEMMA StandsOn ==
    ASSUME NEW entry, NEW next, Standing(entry),
           next.status = entry.status, next.rev = entry.rev, next.invalid = entry.invalid
    PROVE  Standing(next)
BY DEF Standing, Rejected

Stands(n) == Standing(state[n]) \/ (pass[n].pc = "settling" /\ state[n].status = pass[n].written)
StandsNext(n) ==
    \/ Standing(state'[n])
    \/ pass'[n].pc = "settling" /\ state'[n].status = pass'[n].written

LEMMA NextRemembered == TypeInv /\ Remembered /\ [Next]_vars => Remembered'
<1> SUFFICES ASSUME TypeInv, Remembered, [Next]_vars PROVE Remembered'
  OBVIOUS
<1>a. /\ state \in [Names -> ClusterState] /\ pass \in [Names -> Pass]
      /\ poll \in [pc : PollPc, list : [Names -> Object], todo : SUBSET Names,
                   at : SUBSET Names, status : Status]
      /\ \A n \in Names : /\ state[n] \in ClusterState /\ state[n].status \in Status
                          /\ pass[n] \in Pass /\ pass[n].status \in Status
  BY DEF TypeInv, TypeOK, ClusterState, Pass
<1> SUFFICES ASSUME NEW n \in Names, state'[n].invalid # "None", Past(n)' PROVE StandsNext(n)
  BY DEF Remembered, StandsNext, Standing
<1>b. state[n].invalid # "None" /\ Past(n) => Stands(n)
  BY DEF Remembered, Stands
<1>c. ASSUME Past(n), state'[n] = state[n], pass'[n] = pass[n] PROVE StandsNext(n)
  BY <1>b, <1>c DEF Stands, StandsNext
<1>1. CASE UNCHANGED vars
  BY <1>1, <1>c DEF vars, Past
<1>2. CASE PollTick \/ PollList \/ (\E m \in Names : PollRestamp(m)) \/ \E m \in Names : PollVerdictWrite(m)
  BY <1>2, <1>c, <1>a DEF PollTick, PollList, PollRestamp, PollVerdictWrite, Past
<1>3. CASE PollUpdate
  BY <1>3, <1>a DEF PollUpdate, Past
<1>4. CASE PollDispatch
  <2>1. state'[n].invalid = state[n].invalid /\ poll'.pc = "report"
        /\ poll'.todo = {m \in Names : state[m].invalid # "None"}
    BY <1>4, <1>a DEF PollDispatch, ClusterState
  <2> QED BY <2>1 DEF Past
<1>5. ASSUME NEW m \in Names, PollVerdictStands(m) PROVE StandsNext(n)
  <2>1. CASE n = m
    BY <1>5, <2>1 DEF PollVerdictStands, StandsNext, Standing
  <2>2. CASE n # m
    BY <1>5, <2>2, <1>a, <1>c DEF PollVerdictStands, Past
  <2> QED BY <2>1, <2>2
<1>6. ASSUME NEW m \in Names, PollVerdictNeeded(m) PROVE StandsNext(n)
  <2>1. CASE n = m
    <3>1. /\ state'[n].status = Rejected(state[n].status, state[n])
          /\ state'[n].rev = state[n].rev /\ state'[n].invalid = state[n].invalid
          /\ state'[n] \in ClusterState
      BY <1>6, <2>1, <1>a, NextTypeInv DEF PollVerdictNeeded, ClusterState, TypeInv, TypeOK
    <3> QED BY <3>1, <1>a, RejectedStands DEF StandsNext
  <2>2. CASE n # m
    BY <1>6, <2>2, <1>a, <1>c DEF PollVerdictNeeded, Past
  <2> QED BY <2>1, <2>2
<1>7. ASSUME NEW m \in Names, PassStart(m) \/ PassStep(m) PROVE StandsNext(n)
  <2>a. Past(n)
    BY <1>7, Zenon
       DEF PassStart, PassStep, PassAbandon, PassBegin, PassReconcile, PassWrite, PassRecord, PassSettled,
           PassUnsettled, PassRewrite, PassLeave, PassRelease, Past
  <2>b. CASE m # n
    <3>1. state'[n] = state[n] /\ pass'[n] = pass[n]
      BY <1>7, <2>b, <1>a, ReconcileFacts
         DEF PassStart, PassStep, PassAbandon, PassBegin, PassReconcile, PassWrite, PassRecord,
             PassSettled, PassUnsettled, PassRewrite, PassLeave, PassRelease
    <3> QED BY <3>1, <2>a, <1>c
  <2>c. ASSUME m = n, pass[n].pc # "settling",
               state'[n].status = state[n].status, state'[n].rev = state[n].rev,
               state'[n].invalid = state[n].invalid
        PROVE  StandsNext(n)
    BY <2>a, <2>c, <1>b, StandsOn DEF Stands, StandsNext
  <2>1. CASE PassAbandon(n) \/ PassBegin(n)
    BY <2>1, <2>c, <2>b, <1>a DEF PassAbandon, PassBegin, ClusterState
  <2>2. CASE PassReconcile(n)
    BY <2>2, <2>c, <2>b DEF PassReconcile
  <2>3. CASE PassWrite(n) \/ PassRewrite(n) \/ PassLeave(n) \/ PassRelease(n)
    BY <2>3, <2>c, <2>b, <1>a DEF PassWrite, PassRewrite, PassLeave, PassRelease, ClusterState
  <2>4. CASE PassRecord(n)
    BY <2>4, <1>a DEF PassRecord, StandsNext, ClusterState, Pass
  <2>5. CASE PassSettled(n)
    <3>1. state'[n] = state[n] /\ state[n].invalid # "None"
      BY <2>5 DEF PassSettled
    <3>2. Rejected(pass[n].status, state[n]) = pass[n].written
      BY <2>5, <3>1 DEF PassSettled, Overlaid
    <3>3. Standing(state[n])
      BY <3>1, <3>2, <2>a, <1>a, <1>b, RejectedStands DEF Stands
    <3> QED BY <3>1, <3>3 DEF StandsNext
  <2>6. CASE PassUnsettled(n)
    <3>1. /\ state'[n].status = Overlaid(pass[n].status, state[n])
          /\ state'[n].rev = state[n].rev /\ state'[n].invalid = state[n].invalid
      BY <2>6, <1>a DEF PassUnsettled, ClusterState
    <3>2. state'[n].status = Rejected(pass[n].status, state[n])
      BY <3>1 DEF Overlaid
    <3>3. state'[n] \in ClusterState
      BY NextTypeInv DEF TypeInv, TypeOK
    <3> QED BY <3>1, <3>2, <3>3, <1>a, RejectedStands DEF StandsNext
  <2> QED BY <1>7, <2>b, <2>1, <2>2, <2>3, <2>4, <2>5, <2>6 DEF PassStart, PassStep
<1>8. CASE Restart
  BY <1>8 DEF Restart, Untracked
<1>9. ASSUME NEW m \in Names, BecomeDue(m) PROVE StandsNext(n)
  <2>1. /\ state'[n].status = state[n].status /\ state'[n].rev = state[n].rev
        /\ state'[n].invalid = state[n].invalid /\ pass'[n] = pass[n] /\ Past(n)
    BY <1>9, <1>a DEF BecomeDue, ClusterState, Past
  <2> QED BY <2>1, <1>b, StandsOn DEF Stands, StandsNext
<1>10. CASE \E m \in Names : Delete(m) \/ \E spec \in Specs : Create(m, spec) \/ Edit(m, spec)
  BY <1>10, <1>c DEF Delete, Create, Edit, Past
<1> QED BY <1>1, <1>2, <1>3, <1>4, <1>5, <1>6, <1>7, <1>8, <1>9, <1>10
        DEF Next, PollStep, Environment

\* Between ticks a verdict is remembered as given, however the results of passes
\* fell between its forming and its writing.
THEOREM VerdictsAreHeld == Spec => []VerdictHeld
<1>1. Init => Remembered
  BY DEF Init, Remembered, Untracked
<1>2. TypeInv /\ OnePassPerCluster /\ Remembered => VerdictHeld
  <2> SUFFICES ASSUME OnePassPerCluster, Remembered, poll.pc = "report", poll.todo = {},
                      NEW n \in Names, state[n].invalid # "None", ~state[n].running
               PROVE  Standing(state[n])
    BY DEF VerdictHeld, Standing
  <2>1. pass[n].pc = "none"
    BY DEF OnePassPerCluster
  <2> QED BY <2>1 DEF Remembered, Past
<1> QED BY <1>1, <1>2, InitTypeInv, NextTypeInv, InitOnePass, NextOnePass, NextRemembered, PTL DEF Spec

-----------------------------------------------------------------------------
(* Verdicts withdrawn.  A verdict on an object whose entry has none is on    *)
(* its way to be replaced: the entry is due, or was told under its pass that *)
(* it will be.  And a pass that is to write a result has none in it.         *)

Judged(status) == status.ready \in Verdicts
Free(entry) == entry.invalid = "None"
Early == {"queued", "reconciling", "writing", "recording"}

Prompt(entry, obj, p) ==
    /\ entry.tracked /\ Free(entry) /\ Judged(obj.status) => entry.due
    /\ p.pc \in Early => entry.due
    /\ p.pc = "writing" /\ Free(entry) /\ Judged(p.written) => entry.rerun
    /\ p.pc = "recording" /\ Free(entry) /\ Judged(obj.status) => entry.rerun
    /\ p.pc \in {"writing", "recording", "settling", "rewriting"} => ~Judged(p.status)
    /\ p.pc = "rewriting" /\ Free(entry) /\ Judged(p.written) => entry.due
    /\ ~Exists(obj) => ~Judged(obj.status)
\* The loop writes verdicts over entries that have one, and nothing over others.
InTurn(entry, n) ==
    /\ poll.pc = "writing" /\ n \in poll.at => ~Free(entry)
    /\ poll.pc = "restamp" => n \notin poll.todo

Quiet == faults = 0 /\ restamps = 0
Promptness ==
    Quiet => \A n \in Names : Prompt(state[n], object[n], pass[n]) /\ InTurn(state[n], n)

LEMMA OverlayJudges ==
    ASSUME NEW status \in Status, NEW entry \in ClusterState
    PROVE  Judged(Overlaid(status, entry)) <=> ~Free(entry) \/ Judged(status)
BY DEF Judged, Overlaid, Rejected, Status, ClusterState, Free, Verdicts

\* A write that is not refused.
LEMMA WriteTaken ==
    ASSUME TypeInv, NEW m \in Names, NEW status, WriteStatus(m, status), faults' = 0,
           ~Exists(object[m]) => ~Judged(object[m].status)
    PROVE  /\ faults = 0
           /\ \A n \in Names \ {m} : object'[n] = object[n]
           /\ object'[m].rev = object[m].rev
           /\ object'[m].status = status \/ ~Judged(object'[m].status)
           /\ ~Exists(object'[m]) => ~Judged(object'[m].status)
<1>1. faults \in Nat /\ object \in [Names -> Object]
  BY SchedulerAssumption DEF TypeInv, TypeOK
<1> QED BY <1>1 DEF WriteStatus, Object, Exists

\* What a merge makes of an entry and its pass.
LEMMA MergePrompt ==
    ASSUME NEW entry \in ClusterState, NEW listed, NEW verdict, NEW obj, NEW p,
           Prompt(entry, obj, p), p.pc # "none" <=> entry.running, entry.running => entry.tracked
    PROVE  Prompt(Merged(entry, listed, verdict), obj, p)
<1> DEFINE next == Merged(entry, listed, verdict)
           resumed == entry.invalid # "None" /\ verdict = "None"
<1>1. next.tracked /\ next.invalid = verdict
  BY DEF Merged, MergedBase, ClusterState
<1>2. /\ next.due <=> entry.due \/ ~entry.tracked \/ Edited(listed) \/ resumed
      /\ next.rerun = IF resumed THEN entry.running ELSE entry.rerun
  <2>1. MergedBase(entry, listed, verdict).due = entry.due
    BY DEF MergedBase, ClusterState
  <2> QED BY <2>1 DEF Merged, MergedBase, ClusterState
<1> SUFFICES Prompt(next, obj, p)
  OBVIOUS
<1> HIDE DEF next
<1>0. /\ entry.running \in BOOLEAN /\ entry.rerun \in BOOLEAN
      /\ entry.due \in BOOLEAN /\ entry.tracked \in BOOLEAN
  BY DEF ClusterState
<1>3. CASE verdict = "None" /\ entry.invalid # "None"
  BY <1>0, <1>1, <1>2, <1>3 DEF Prompt, Free, Early
<1>4. CASE verdict # "None"
  BY <1>0, <1>1, <1>2, <1>4 DEF Prompt, Free, Early
<1>5. CASE verdict = "None" /\ entry.invalid = "None"
  BY <1>0, <1>1, <1>2, <1>5 DEF Prompt, Free, Early
<1> QED BY <1>3, <1>4, <1>5

LEMMA NextPromptness == TypeInv /\ OnePassPerCluster /\ Promptness /\ [Next]_vars => Promptness'
<1> SUFFICES ASSUME TypeInv, OnePassPerCluster, Promptness, [Next]_vars, faults' = 0, restamps' = 0,
                    NEW n \in Names
             PROVE  Prompt(state'[n], object'[n], pass'[n]) /\ InTurn(state[n], n)'
  BY DEF Promptness, Quiet, Prompt, InTurn, Exists, Judged, Free
<1> DEFINE Goal == Prompt(state'[n], object'[n], pass'[n]) /\ InTurn(state[n], n)'
<1>a. /\ state \in [Names -> ClusterState] /\ pass \in [Names -> Pass]
      /\ object \in [Names -> Object] /\ faults \in Nat /\ restamps \in Nat
      /\ poll \in [pc : PollPc, list : [Names -> Object], todo : SUBSET Names,
                   at : SUBSET Names, status : Status]
      /\ \A m \in Names : /\ state[m] \in ClusterState /\ state[m].status \in Status
                          /\ pass[m] \in Pass /\ pass[m].status \in Status
      /\ pass[n].pc # "none" <=> state[n].running
      /\ state[n].running => state[n].tracked
  BY SchedulerAssumption DEF TypeInv, TypeOK, ClusterState, Pass, OnePassPerCluster
<1>b. Quiet => \A m \in Names : Prompt(state[m], object[m], pass[m]) /\ InTurn(state[m], m)
  BY DEF Promptness
<1>1. CASE UNCHANGED vars
  BY <1>1, <1>b DEF vars, Quiet, InTurn
<1>2. CASE PollTick
  BY <1>2, <1>a, <1>b DEF PollTick, Quiet, InTurn
<1>3. CASE PollList
  BY <1>3, <1>a, <1>b DEF PollList, Quiet, InTurn
<1>4. CASE PollUpdate
  <2>1. state'[n] \in {Merged(state[n], poll.list[n], VerdictIn(poll.list, n)), Missing(state[n])}
        /\ Quiet /\ poll'.pc = "dispatch" /\ UNCHANGED <<object, pass>>
    BY <1>4, <1>a DEF PollUpdate, Quiet
  <2>2. Prompt(state[n], object[n], pass[n])
    BY <1>b, <2>1
  <2>3. Prompt(Merged(state[n], poll.list[n], VerdictIn(poll.list, n)), object[n], pass[n])
    BY <1>a, <2>2, MergePrompt
  <2>4. Prompt(Missing(state[n]), object[n], pass[n])
    BY <1>a, <2>2 DEF Missing, Prompt, Free, Untracked, ClusterState, Early
  <2> QED BY <2>1, <2>3, <2>4 DEF InTurn
<1>5. CASE PollDispatch
  <2>1. Quiet /\ Prompt(state[n], object[n], pass[n]) /\ poll'.pc = "report" /\ UNCHANGED object
    BY <1>5, <1>b DEF PollDispatch, Quiet
  <2>2. CASE Due(n)
    <3>1. /\ pass'[n].pc = "queued" /\ state'[n] = [state[n] EXCEPT !.running = TRUE]
      BY <1>5, <2>2, <1>a DEF PollDispatch, NoPass
    <3> QED BY <2>1, <2>2, <3>1, <1>a DEF Due, Prompt, InTurn, Free, ClusterState
  <2>3. CASE ~Due(n)
    BY <1>5, <2>1, <2>3, <1>a DEF PollDispatch, InTurn
  <2> QED BY <2>2, <2>3
<1>6. ASSUME NEW m \in Names, PollRestamp(m) PROVE Goal
  <2>1. Quiet
    BY <1>6, <1>a DEF PollRestamp, Quiet, WriteStatus
  <2> QED BY <1>6, <1>b, <2>1 DEF PollRestamp, InTurn
<1>7. ASSUME NEW m \in Names, PollVerdictStands(m) PROVE Goal
  BY <1>7, <1>a, <1>b DEF PollVerdictStands, Quiet, InTurn
<1>8. ASSUME NEW m \in Names, PollVerdictNeeded(m) PROVE Goal
  <2>1. Quiet /\ Prompt(state[n], object[n], pass[n]) /\ ~Free(state[m]) /\ UNCHANGED <<object, pass>>
    BY <1>8, <1>b DEF PollVerdictNeeded, Quiet, TypeInv, TodoBlocked, Free
  <2>2. /\ state'[n].tracked = state[n].tracked /\ state'[n].invalid = state[n].invalid
        /\ state'[n].due = state[n].due /\ state'[n].rerun = state[n].rerun
        /\ poll'.pc = "writing" /\ poll'.at = {m}
    BY <1>8, <1>a DEF PollVerdictNeeded, ClusterState
  <2> QED BY <2>1, <2>2 DEF Prompt, InTurn, Free
<1>9. ASSUME NEW m \in Names, PollVerdictWrite(m) PROVE Goal
  <2>1. faults = 0 /\ restamps = 0
    BY <1>9, <1>a DEF PollVerdictWrite, WriteStatus
  <2>2. /\ Prompt(state[n], object[n], pass[n]) /\ Prompt(state[m], object[m], pass[m])
        /\ ~Free(state[m]) /\ UNCHANGED <<state, pass>> /\ poll'.pc = "report"
    BY <1>9, <1>a, <1>b, <2>1 DEF PollVerdictWrite, Quiet, InTurn
  <2>3. CASE m = n
    <3>1. ~Exists(object'[n]) => ~Judged(object'[n].status)
      BY <1>9, <2>2, <2>3, WriteTaken DEF PollVerdictWrite, Prompt
    <3> QED BY <2>2, <2>3, <3>1 DEF Prompt, InTurn
  <2>4. CASE m # n
    <3>1. object'[n] = object[n]
      BY <1>9, <2>2, <2>4, WriteTaken DEF PollVerdictWrite, Prompt
    <3> QED BY <2>2, <3>1 DEF InTurn
  <2> QED BY <2>3, <2>4
<1>10. ASSUME NEW m \in Names, PassStart(m) \/ PassStep(m) PROVE Goal
  <2>a. faults = 0 /\ restamps = 0
    <3>1. restamps' = restamps /\ (faults' = faults \/ faults' = faults + 1)
      BY <1>10
         DEF PassStart, PassStep, PassAbandon, PassBegin, PassReconcile, PassWrite, PassRecord,
             PassSettled, PassUnsettled, PassRewrite, PassLeave, PassRelease, WriteStatus
    <3> QED BY <3>1, <1>a
  <2>b. Prompt(state[n], object[n], pass[n]) /\ InTurn(state[n], n) /\ Prompt(state[m], object[m], pass[m])
    BY <1>b, <2>a DEF Quiet
  <2>c. UNCHANGED poll
    BY <1>10
       DEF PassStart, PassStep, PassAbandon, PassBegin, PassReconcile, PassWrite, PassRecord, PassSettled,
           PassUnsettled, PassRewrite, PassLeave, PassRelease
  <2>d. CASE m # n
    <3>1. state'[n] = state[n] /\ pass'[n] = pass[n]
      BY <1>10, <2>d, <1>a, ReconcileFacts
         DEF PassStart, PassStep, PassAbandon, PassBegin, PassReconcile, PassWrite, PassRecord,
             PassSettled, PassUnsettled, PassRewrite, PassLeave, PassRelease
    <3>2. object'[n] = object[n]
      BY <1>10, <2>d, <1>a
         DEF PassStart, PassStep, PassAbandon, PassBegin, PassReconcile, PassWrite, PassRecord,
             PassSettled, PassUnsettled, PassRewrite, PassLeave, PassRelease, WriteStatus
    <3> QED BY <2>b, <2>c, <3>1, <3>2 DEF InTurn
  <2> DEFINE Entry(e) == /\ e.tracked = state[n].tracked /\ e.invalid = state[n].invalid
                         /\ e.due = state[n].due
  <2>e. ASSUME m = n, Entry(state'[n]) PROVE InTurn(state[n], n)'
    BY <2>b, <2>c, <2>e DEF InTurn, Free
  <2>1. CASE PassAbandon(n)
    BY <2>1, <2>b, <2>c, <1>a DEF PassAbandon, Prompt, InTurn, Pass, Early
  <2>2. CASE PassBegin(n)
    BY <2>2, <2>b, <2>c, <1>a DEF PassBegin, Prompt, InTurn, Pass, Early, ClusterState, Free
  <2>3. CASE PassReconcile(n)
    <3>1. PICK ok \in BOOLEAN, ready \in {"Ready", "Failed"},
               credential \in {pass[n].status.credential, minted[n] + 1} :
           LET result == [pass[n].status EXCEPT !.gen = pass[n].rev.gen, !.ready = ready,
                                                !.credential = credential] IN
           pass' = [pass EXCEPT ![n].pc = "writing", ![n].status = result, ![n].ok = ok,
                                ![n].written = Overlaid(result, state[n])]
      BY <2>3, Zenon DEF PassReconcile
    <3> DEFINE result == [pass[n].status EXCEPT !.gen = pass[n].rev.gen, !.ready = ready,
                                                !.credential = credential]
    <3>2. ~Judged(result)
      BY <1>a DEF Judged, Status, Verdicts
    <3>3. Free(state[n]) => ~Judged(Overlaid(result, state[n]))
      BY <3>2 DEF Overlaid, Free
    <3>4. /\ pass'[n].status = result /\ pass'[n].written = Overlaid(result, state[n])
          /\ pass'[n].pc = "writing" /\ pass[n].pc = "reconciling"
          /\ UNCHANGED <<state, object>>
      BY <2>3, <3>1, <1>a DEF Pass, PassReconcile
    <3> HIDE DEF result
    <3> QED BY <2>b, <2>c, <3>2, <3>3, <3>4 DEF Prompt, InTurn, Early
  <2>4. CASE PassWrite(n)
    <3>1. /\ object'[n].status = pass[n].written \/ ~Judged(object'[n].status)
          /\ ~Exists(object'[n]) => ~Judged(object'[n].status)
      BY <2>4, <2>b, WriteTaken DEF PassWrite, Prompt
    <3>2. /\ pass[n].pc = "writing" /\ pass'[n].pc = "recording" /\ pass'[n].status = pass[n].status
          /\ UNCHANGED state
      BY <2>4, <1>a DEF PassWrite, Pass
    <3> QED BY <2>b, <2>c, <3>1, <3>2 DEF Prompt, InTurn, Early
  <2>5. CASE PassRecord(n)
    <3>1. /\ state'[n].tracked = state[n].tracked /\ state'[n].invalid = state[n].invalid
          /\ state'[n].due = state[n].rerun
          /\ pass[n].pc = "recording" /\ pass'[n].pc = "settling" /\ pass'[n].status = pass[n].status
          /\ UNCHANGED object
      BY <2>5, <1>a DEF PassRecord, Pass, ClusterState
    <3> QED BY <2>b, <2>c, <3>1 DEF Prompt, InTurn, Early, Free
  <2>6. CASE PassSettled(n)
    BY <2>6, <2>b, <2>c, <1>a DEF PassSettled, Prompt, InTurn, Early, Pass
  <2>7. CASE PassUnsettled(n)
    <3>1. /\ Entry(state'[n]) /\ pass'[n].written = Overlaid(pass[n].status, state[n])
          /\ pass[n].pc = "settling" /\ pass'[n].pc = "rewriting" /\ pass'[n].status = pass[n].status
          /\ UNCHANGED object
      BY <2>7, <1>a DEF PassUnsettled, Pass, ClusterState
    <3>2. Free(state[n]) => ~Judged(pass'[n].written)
      BY <2>b, <3>1 DEF Overlaid, Free, Prompt
    <3> QED BY <2>b, <2>c, <3>1, <3>2 DEF Prompt, InTurn, Early, Free
  <2>8. CASE PassRewrite(n)
    <3>1. /\ object'[n].status = pass[n].written \/ ~Judged(object'[n].status)
          /\ ~Exists(object'[n]) => ~Judged(object'[n].status)
      BY <2>8, <2>b, WriteTaken DEF PassRewrite, Prompt
    <3>2. /\ pass[n].pc = "rewriting" /\ pass'[n].pc = "leaving" /\ UNCHANGED state
      BY <2>8, <1>a DEF PassRewrite, Pass
    <3> QED BY <2>b, <2>c, <3>1, <3>2 DEF Prompt, InTurn, Early
  <2>9. CASE PassLeave(n) \/ PassRelease(n)
    <3>1. /\ Entry(state'[n]) /\ pass'[n].pc \in {"releasing", "none"} /\ UNCHANGED object
      BY <2>9, <1>a DEF PassLeave, PassRelease, NoPass, ClusterState
    <3> QED BY <2>b, <2>c, <3>1 DEF Prompt, InTurn, Early, Free
  <2> QED BY <1>10, <2>d, <2>1, <2>2, <2>3, <2>4, <2>5, <2>6, <2>7, <2>8, <2>9 DEF PassStart, PassStep
<1>11. CASE Restart
  <2>1. Quiet /\ Prompt(state[n], object[n], pass[n])
    BY <1>11, <1>b DEF Restart, Quiet
  <2> QED BY <1>11, <2>1 DEF Restart, Prompt, InTurn, Untracked, NoPass, NoPoll, Early
<1>12. ASSUME NEW m \in Names, BecomeDue(m) PROVE Goal
  <2>1. Quiet /\ Prompt(state[n], object[n], pass[n]) /\ InTurn(state[n], n)
    BY <1>12, <1>b DEF BecomeDue, Quiet
  <2>2. /\ state'[n].tracked = state[n].tracked /\ state'[n].invalid = state[n].invalid
        /\ state[n].due => state'[n].due
        /\ state'[n].rerun = state[n].rerun /\ UNCHANGED <<object, pass, poll>>
    BY <1>12, <1>a DEF BecomeDue, ClusterState
  <2> QED BY <2>1, <2>2 DEF Prompt, InTurn, Free
<1>13. CASE \E m \in Names : Delete(m) \/ \E spec \in Specs : Create(m, spec) \/ Edit(m, spec)
  <2>1. Quiet /\ Prompt(state[n], object[n], pass[n]) /\ InTurn(state[n], n)
    BY <1>13, <1>b DEF Delete, Create, Edit, Quiet
  <2>2. /\ object'[n] \in {object[n], Absent} \cup {NewObject(spec) : spec \in Specs}
           \/ /\ object'[n].status = object[n].status
              /\ Exists(object[n]) /\ Exists(object'[n])
        /\ UNCHANGED <<state, pass, poll>>
    <3>1. ASSUME NEW m \in Names, NEW spec \in Specs, Edit(m, spec), m = n
          PROVE  /\ object'[n].status = object[n].status
                 /\ Exists(object[n]) /\ Exists(object'[n])
      BY <3>1, <1>a DEF Edit, Object, Revision, Exists
    <3> QED BY <1>13, <1>a, <3>1 DEF Delete, Create, Edit
  <2>3. ~Judged(Absent.status) /\ \A spec \in Specs : ~Judged(NewObject(spec).status)
    BY DEF Judged, Absent, NewObject, NoStatus, Verdicts
  <2>4. CASE object'[n] = object[n]
    BY <2>1, <2>2, <2>4 DEF InTurn
  <2>5. CASE ~Judged(object'[n].status)
    BY <2>1, <2>2, <2>5 DEF Prompt, InTurn
  <2>6. CASE /\ object'[n].status = object[n].status
             /\ Exists(object[n]) /\ Exists(object'[n])
    BY <2>1, <2>2, <2>6 DEF Prompt, InTurn
  <2> QED BY <2>2, <2>3, <2>4, <2>5, <2>6
<1> QED BY <1>1, <1>2, <1>3, <1>4, <1>5, <1>6, <1>7, <1>8, <1>9, <1>10, <1>11, <1>12, <1>13
        DEF Next, PollStep, Environment

\* A verdict that was withdrawn is not left on its object for the cadence to
\* remove, wherever a pass stood when the poll withdrew it.
THEOREM WithdrawalIsPrompt == Spec => []PromptResume
<1>1. Init => Promptness
  BY DEF Init, Promptness, Prompt, InTurn, Untracked, NoPass, NoPoll, Early, Free, Judged, Absent,
         NewObject, NoStatus, Verdicts
<1>2. Promptness => PromptResume
  BY DEF Promptness, Prompt, PromptResume, Quiet, Judged, Free, Blocked
<1> QED BY <1>1, <1>2, InitTypeInv, NextTypeInv, InitOnePass, NextOnePass, NextPromptness, PTL DEF Spec
-----------------------------------------------------------------------------
(* What is right and stays right.  Everything that could yet write a status  *)
(* of a cluster is about its spec and its verdict as they stand: the memory, *)
(* a list that is not merged, the loop's write, and a pass with what it      *)
(* holds.  That is the half of EditTakesEffect and of VerdictShown that is   *)
(* no liveness.                                                              *)

Judgements == {"None"} \cup Verdicts
Tells(v, ready) == IF v = "None" THEN ready \in {"Ready", "Failed"} ELSE ready = v
Telling(n, v, status) ==
    /\ status.gen = object[n].rev.gen
    /\ Tells(v, status.ready)

InMemory(n, v) ==
    /\ state[n].invalid = IF state[n].tracked THEN v ELSE "None"
    /\ state[n].tracked => state[n].rev = object[n].rev /\ Telling(n, v, state[n].status)
InList(n, v) ==
    poll.pc = "listed" => /\ poll.list[n].rev = object[n].rev /\ Telling(n, v, poll.list[n].status)
                          /\ VerdictIn(poll.list, n) = v
InPoll(n, v) ==
    /\ n \in poll.at => Telling(n, v, poll.status)
    /\ poll.pc = "restamp" /\ n \in poll.todo => state[n].tracked
InPass(n, v) ==
    /\ v = "None" /\ pass[n].pc = "reconciling" => pass[n].rev = object[n].rev
    /\ pass[n].pc \in {"writing", "recording", "settling", "rewriting"} =>
           Telling(n, v, pass[n].written) /\ (v = "None" => Telling(n, v, pass[n].status))

Ruled(n, v) == Exists(object[n]) /\ VerdictIn(object, n) = v
Current(n, v) ==
    /\ Ruled(n, v) /\ Telling(n, v, object[n].status)
    /\ InMemory(n, v) /\ InList(n, v) /\ InPoll(n, v) /\ InPass(n, v)

\* People leave n as it is, and in the standing it has among the others.
Left(n, v) == Ruled(n, v)' /\ object'[n].rev = object[n].rev

\* A status write to n of what tells of it; to others, nothing of n's.
LEMMA WriteTells ==
    ASSUME TypeOK, NEW n \in Names, NEW v \in Judgements, NEW m \in Names, NEW status, WriteStatus(m, status),
           Telling(n, v, object[n].status), m = n => Telling(n, v, status)
    PROVE  /\ object'[n].rev = object[n].rev
           /\ object'[n].status.gen = object[n].rev.gen
           /\ Tells(v, object'[n].status.ready)
BY DEF TypeOK, WriteStatus, Telling, Object

\* What a poll makes of an entry that its list has in order.
LEMMA MergeTells ==
    ASSUME NEW entry \in ClusterState, NEW obj \in Object, NEW v \in Judgements
    PROVE  /\ Merged(entry, obj, v).rev = obj.rev /\ Merged(entry, obj, v).invalid = v
           /\ Merged(entry, obj, v).status = obj.status /\ Merged(entry, obj, v).tracked
BY DEF Merged, MergedBase, ClusterState

\* A verdict laid over a status of the spec that is remembered tells of it.
LEMMA OverlayTells ==
    ASSUME NEW n \in Names, NEW v \in Judgements, NEW status \in Status, state[n] \in ClusterState,
           state[n].rev = object[n].rev, state[n].invalid = v, v = "None" => Telling(n, v, status)
    PROVE  /\ Telling(n, v, Overlaid(status, state[n]))
           /\ v # "None" => Telling(n, v, Rejected(status, state[n]))
BY DEF Overlaid, Rejected, Telling, Tells, Status, ClusterState, Judgements, Verdicts

\* A pass's own step, of a cluster in order.
LEMMA PassTells ==
    ASSUME TypeInv, OnePassPerCluster, NEW n \in Names, NEW v \in Judgements, Current(n, v),
           PassStart(n) \/ PassStep(n)
    PROVE  /\ object'[n].rev = object[n].rev /\ Telling(n, v, object[n].status)'
           /\ InMemory(n, v)' /\ InPass(n, v)' /\ state'[n].tracked = state[n].tracked
<1>a. /\ state \in [Names -> ClusterState] /\ pass \in [Names -> Pass] /\ object \in [Names -> Object]
      /\ state[n] \in ClusterState /\ pass[n] \in Pass /\ state[n].status \in Status
      /\ pass[n].status \in Status /\ pass[n].written \in Status
  BY DEF TypeInv, TypeOK, ClusterState, Pass
<1>b. /\ pass[n].pc # "none" => state[n].running /\ state[n].tracked
      /\ state[n].invalid = IF state[n].tracked THEN v ELSE "None"
      /\ state[n].tracked => state[n].rev = object[n].rev /\ Telling(n, v, state[n].status)
      /\ Telling(n, v, object[n].status) /\ InPass(n, v)
  BY DEF OnePassPerCluster, Current, InMemory
<1>c. ASSUME object' = object, state'[n].tracked = state[n].tracked, state'[n].rev = state[n].rev,
             state'[n].invalid = state[n].invalid,
             state'[n].status = state[n].status \/ Telling(n, v, state'[n].status)
      PROVE  object'[n].rev = object[n].rev /\ Telling(n, v, object[n].status)' /\ InMemory(n, v)'
  BY <1>b, <1>c DEF InMemory, Telling
<1>1. CASE PassAbandon(n) \/ PassLeave(n)
  <2>1. UNCHANGED <<object, state>> /\ pass'[n].pc \in {"leaving", "releasing"}
    BY <1>1, <1>a DEF PassAbandon, PassLeave, Pass, NoPass
  <2> QED BY <1>c, <2>1 DEF InPass
<1>2. CASE PassBegin(n)
  <2>1. /\ UNCHANGED object /\ pass'[n].pc = "reconciling" /\ pass'[n].rev = state[n].rev
        /\ pass[n].pc = "queued"
        /\ state' = [state EXCEPT ![n].rerun = FALSE]
    BY <1>2, <1>a DEF PassBegin, Pass
  <2>2. /\ state'[n].tracked = state[n].tracked /\ state'[n].rev = state[n].rev
        /\ state'[n].invalid = state[n].invalid /\ state'[n].status = state[n].status
    BY <1>a, <2>1 DEF ClusterState
  <2>3. v = "None"
    BY <1>2, <1>b, <2>1 DEF PassBegin, Blocked
  <2> QED BY <1>b, <1>c, <2>1, <2>2, <2>3 DEF InPass
<1>3. CASE PassReconcile(n)
  <2>1. UNCHANGED <<object, state>> /\ pass[n].pc = "reconciling"
    BY <1>3 DEF PassReconcile
  <2>2. PICK ok \in BOOLEAN, ready \in {"Ready", "Failed"},
            credential \in {pass[n].status.credential, minted[n] + 1} :
            pass' = [pass EXCEPT ![n].pc = "writing",
                       ![n].status = [pass[n].status EXCEPT !.gen = pass[n].rev.gen, !.ready = ready,
                                                            !.credential = credential],
                       ![n].ok = ok,
                       ![n].written = Overlaid([pass[n].status EXCEPT !.gen = pass[n].rev.gen,
                                                !.ready = ready, !.credential = credential], state[n])]
    BY <1>3 DEF PassReconcile
  <2> DEFINE result == [pass[n].status EXCEPT !.gen = pass[n].rev.gen, !.ready = ready,
                                              !.credential = credential]
         written == Overlaid(result, state[n])
  <2>3. /\ result.gen = pass[n].rev.gen /\ result.ready = ready
        /\ pass'[n].pc = "writing" /\ pass'[n].status = result /\ pass'[n].written = written
    <3>1. result.gen = pass[n].rev.gen /\ result.ready = ready
      BY <1>a DEF Status
    <3> HIDE DEF result, written
    <3>2. pass' = [pass EXCEPT ![n].pc = "writing", ![n].status = result, ![n].ok = ok,
                               ![n].written = written]
      BY <2>2 DEF result, written
    <3> QED BY <1>a, <3>1, <3>2 DEF Pass
  <2>4. v = "None" => Telling(n, v, result)
    BY <1>b, <2>1, <2>3 DEF InPass, Telling, Tells
  <2>5. Telling(n, v, written)
    <3> HIDE DEF result
    <3>1. CASE v = "None"
      BY <1>b, <2>1, <2>4, <3>1 DEF Overlaid
    <3>2. CASE v # "None"
      <4>1. written = [result EXCEPT !.gen = state[n].rev.gen, !.ready = v,
                                     !.accuses = (v = "Conflict")]
        BY <1>b, <2>1, <3>2 DEF Overlaid, Rejected
      <4>2. result = [pass[n].status EXCEPT !.gen = pass[n].rev.gen, !.ready = ready,
                                            !.credential = credential]
        BY DEF result
      <4>3. written.gen = state[n].rev.gen /\ written.ready = v
        BY <1>a, <4>1, <4>2 DEF Status
      <4> QED BY <1>b, <2>1, <3>2, <4>3 DEF Telling, Tells
    <3> QED BY <3>1, <3>2
  <2> QED BY <1>c, <2>1, <2>3, <2>4, <2>5 DEF InPass, Telling
<1>4. CASE PassWrite(n) \/ PassRewrite(n)
  <2>1. /\ WriteStatus(n, pass[n].written) /\ UNCHANGED state
        /\ pass'[n].status = pass[n].status /\ pass'[n].written = pass[n].written
        /\ \/ pass[n].pc = "writing" /\ pass'[n].pc = "recording"
           \/ pass[n].pc = "rewriting" /\ pass'[n].pc = "leaving"
    BY <1>4, <1>a DEF PassWrite, PassRewrite, Pass
  <2>2. Telling(n, v, pass[n].written)
    BY <1>b, <2>1 DEF InPass
  <2>3. /\ object'[n].rev = object[n].rev
        /\ object'[n].status.gen = object[n].rev.gen
        /\ Tells(v, object'[n].status.ready)
    BY <1>b, <2>1, <2>2, WriteTells DEF TypeInv
  <2> QED BY <1>b, <2>1, <2>3 DEF InMemory, InPass, Telling
<1>5. CASE PassRecord(n)
  <2>1. /\ UNCHANGED object /\ pass[n].pc = "recording" /\ pass'[n].pc = "settling"
        /\ pass'[n].status = pass[n].status /\ pass'[n].written = pass[n].written
        /\ state'[n].tracked = state[n].tracked /\ state'[n].rev = state[n].rev
        /\ state'[n].invalid = state[n].invalid /\ state'[n].status = pass[n].written
    BY <1>5, <1>a DEF PassRecord, Pass, ClusterState
  <2> QED BY <1>b, <1>c, <2>1 DEF InPass, Telling
<1>6. CASE PassSettled(n)
  <2>1. UNCHANGED <<object, state>> /\ pass'[n].pc = "leaving"
    BY <1>6, <1>a DEF PassSettled, Pass
  <2> QED BY <1>c, <2>1 DEF InPass
<1>7. CASE PassUnsettled(n)
  <2> DEFINE desired == Overlaid(pass[n].status, state[n])
  <2>1. pass[n].pc = "settling" /\ Telling(n, v, desired)
    BY <1>7, <1>a, <1>b, OverlayTells DEF PassUnsettled, InPass
  <2>2. /\ UNCHANGED object /\ pass'[n].pc = "rewriting"
        /\ pass'[n].status = pass[n].status /\ pass'[n].written = desired
        /\ state'[n].tracked = state[n].tracked /\ state'[n].rev = state[n].rev
        /\ state'[n].invalid = state[n].invalid /\ state'[n].status = desired
    BY <1>7, <1>a, <2>1 DEF PassUnsettled, Pass, ClusterState
  <2> QED BY <1>b, <1>c, <2>1, <2>2 DEF InPass, Telling
<1>8. CASE PassRelease(n)
  <2>1. /\ UNCHANGED object /\ pass'[n].pc = "none"
        /\ state'[n].tracked = state[n].tracked /\ state'[n].rev = state[n].rev
        /\ state'[n].invalid = state[n].invalid /\ state'[n].status = state[n].status
    BY <1>8, <1>a DEF PassRelease, NoPass, ClusterState
  <2> QED BY <1>c, <2>1 DEF InPass
<1> QED BY <1>1, <1>2, <1>3, <1>4, <1>5, <1>6, <1>7, <1>8 DEF PassStart, PassStep

\* Steps that touch nothing of n but the status of its object.
LEMMA ElsewhereTells ==
    ASSUME NEW n \in Names, NEW v \in Judgements, Current(n, v), Left(n, v),
           state'[n] = state[n], pass'[n] = pass[n],
           object'[n].status.gen = object[n].rev.gen, Tells(v, object'[n].status.ready),
           InList(n, v)', InPoll(n, v)'
    PROVE  Current(n, v)'
BY DEF Current, Left, Ruled, Telling, InMemory, InPass

LEMMA StaysCurrent ==
    ASSUME TypeInv, OnePassPerCluster, [Next]_vars, NEW n \in Names, NEW v \in Judgements,
           Current(n, v), Left(n, v)
    PROVE  Current(n, v)'
<1>a. /\ state \in [Names -> ClusterState] /\ pass \in [Names -> Pass] /\ object \in [Names -> Object]
      /\ poll \in [pc : PollPc, list : [Names -> Object], todo : SUBSET Names,
                   at : SUBSET Names, status : Status]
      /\ state[n] \in ClusterState /\ object[n] \in Object /\ poll.list[n] \in Object
  BY DEF TypeInv, TypeOK
<1>b. /\ Ruled(n, v) /\ Telling(n, v, object[n].status)
      /\ InMemory(n, v) /\ InList(n, v) /\ InPoll(n, v) /\ InPass(n, v)
  BY DEF Current
<1>k. ASSUME UNCHANGED poll, object'[n].rev = object[n].rev, state'[n].tracked = state[n].tracked
      PROVE  InList(n, v)' /\ InPoll(n, v)'
  BY <1>b, <1>k DEF InList, InPoll, Telling
<1>t. Telling(n, v, object[n].status) /\ object'[n].rev = object[n].rev
  BY <1>b DEF Left
<1>1. CASE UNCHANGED vars
  BY <1>1, <1>k, <1>t, ElsewhereTells DEF vars, Telling
<1>2. CASE PollTick
  <2>1. /\ UNCHANGED <<object, state, pass>> /\ poll'.pc = "restamp"
        /\ poll'.at = poll.at /\ poll'.status = poll.status
        /\ poll'.todo = poll.todo \/ poll'.todo = {m \in Names : state[m].tracked /\ ~state[m].running}
        /\ poll.todo = {}
    BY <1>2, <1>a DEF PollTick
  <2>2. InList(n, v)' /\ InPoll(n, v)'
    BY <1>b, <2>1 DEF InList, InPoll, Telling
  <2> QED BY <1>t, <2>1, <2>2, ElsewhereTells DEF Telling
<1>3. ASSUME NEW m \in Names, PollRestamp(m) PROVE Current(n, v)'
  <2>1. /\ WriteStatus(m, state[m].status) /\ UNCHANGED <<state, pass>> /\ poll.pc = "restamp"
        /\ m \in poll.todo /\ poll'.pc = poll.pc /\ poll'.todo \subseteq poll.todo
        /\ poll'.at = poll.at /\ poll'.status = poll.status
    BY <1>3, <1>a DEF PollRestamp
  <2>2. m = n => Telling(n, v, state[n].status)
    BY <1>b, <2>1 DEF InPoll, InMemory
  <2>3. /\ object'[n].status.gen = object[n].rev.gen
        /\ Tells(v, object'[n].status.ready)
    BY <1>t, <2>1, <2>2, WriteTells DEF TypeInv
  <2>4. InList(n, v)' /\ InPoll(n, v)'
    BY <1>b, <1>t, <2>1 DEF InList, InPoll, Telling
  <2> QED BY <2>1, <2>3, <2>4, ElsewhereTells
<1>4. CASE PollList
  <2>1. /\ UNCHANGED <<object, state, pass>> /\ poll'.pc = "listed" /\ poll'.list = object
        /\ poll'.at = poll.at /\ poll'.status = poll.status
    BY <1>4, <1>a DEF PollList
  <2>2. InList(n, v)' /\ InPoll(n, v)'
    BY <1>b, <2>1 DEF InList, InPoll, Ruled, Telling
  <2> QED BY <1>t, <2>1, <2>2, ElsewhereTells DEF Telling
<1>5. CASE PollUpdate
  <2>1. /\ UNCHANGED <<object, pass>> /\ poll.pc = "listed" /\ poll'.pc = "dispatch"
        /\ poll'.at = poll.at /\ poll'.status = poll.status
    BY <1>5, <1>a DEF PollUpdate
  <2>2. Exists(poll.list[n]) /\ VerdictIn(poll.list, n) = v
    BY <1>b, <2>1 DEF InList, Ruled, Exists
  <2>3. state'[n] = Merged(state[n], poll.list[n], v)
    BY <1>5, <2>2 DEF PollUpdate
  <2>4. InMemory(n, v)'
    BY <1>a, <1>b, <2>1, <2>3, MergeTells DEF InMemory, InList, Telling
  <2>5. InList(n, v)' /\ InPoll(n, v)' /\ InPass(n, v)'
    BY <1>b, <2>1 DEF InList, InPoll, InPass, Telling
  <2> QED BY <1>t, <2>1, <2>4, <2>5 DEF Current, Left, Telling
<1>6. CASE PollDispatch
  <2>1. /\ UNCHANGED object /\ poll'.pc = "report" /\ poll'.at = poll.at /\ poll'.status = poll.status
        /\ state'[n].tracked = state[n].tracked /\ state'[n].rev = state[n].rev
        /\ state'[n].invalid = state[n].invalid /\ state'[n].status = state[n].status
        /\ pass'[n] = pass[n] \/ pass'[n].pc = "queued"
    BY <1>6, <1>a DEF PollDispatch, ClusterState, NoPass
  <2>2. InMemory(n, v)' /\ InList(n, v)' /\ InPoll(n, v)' /\ InPass(n, v)'
    BY <1>b, <2>1 DEF InMemory, InList, InPoll, InPass, Telling
  <2> QED BY <1>t, <2>1, <2>2 DEF Current, Left, Telling
<1>7. ASSUME NEW m \in Names, PollVerdictStands(m) PROVE Current(n, v)'
  <2>1. /\ UNCHANGED <<object, state, pass>> /\ poll'.pc = poll.pc
        /\ poll'.at = poll.at /\ poll'.status = poll.status
        /\ poll'.list = poll.list /\ poll.pc = "report"
    BY <1>7, <1>a DEF PollVerdictStands
  <2>2. InList(n, v)' /\ InPoll(n, v)'
    BY <1>b, <2>1 DEF InList, InPoll, Telling
  <2> QED BY <1>t, <2>1, <2>2, ElsewhereTells DEF Telling
<1>8. ASSUME NEW m \in Names, PollVerdictNeeded(m) PROVE Current(n, v)'
  <2>1. CASE m # n
    <3>1. /\ UNCHANGED <<object, pass>> /\ state'[n] = state[n]
          /\ poll'.pc = "writing" /\ poll'.at = {m}
      BY <1>8, <1>a, <2>1 DEF PollVerdictNeeded
    <3>2. InList(n, v)' /\ InPoll(n, v)'
      BY <1>b, <2>1, <3>1 DEF InList, InPoll, Telling
    <3> QED BY <1>t, <3>1, <3>2, ElsewhereTells DEF Telling
  <2>2. CASE m = n
    <3> DEFINE desired == Rejected(state[n].status, state[n])
    <3>1. state[n].invalid # "None"
      BY <1>8, <2>2 DEF PollVerdictNeeded, TypeInv, TodoBlocked
    <3>2. state[n].tracked /\ state[n].invalid = v /\ v # "None" /\ state[n].rev = object[n].rev
      BY <1>b, <3>1 DEF InMemory
    <3>3. Telling(n, v, desired)
      <4>1. state[n].status \in Status
        BY <1>a DEF ClusterState
      <4> QED BY <1>a, <3>2, <4>1, OverlayTells
    <3>4. /\ UNCHANGED <<object, pass>>
          /\ poll'.pc = "writing" /\ poll'.status = desired
          /\ state'[n].tracked = state[n].tracked /\ state'[n].rev = state[n].rev
          /\ state'[n].invalid = state[n].invalid /\ state'[n].status = desired
      BY <1>8, <1>a, <2>2 DEF PollVerdictNeeded, ClusterState
    <3>5. InMemory(n, v)' /\ InList(n, v)' /\ InPoll(n, v)' /\ InPass(n, v)'
      BY <1>b, <3>2, <3>3, <3>4 DEF InMemory, InList, InPoll, InPass, Telling
    <3> QED BY <1>t, <3>4, <3>5 DEF Current, Left, Telling
  <2> QED BY <2>1, <2>2
<1>9. ASSUME NEW m \in Names, PollVerdictWrite(m) PROVE Current(n, v)'
  <2>1. /\ WriteStatus(m, poll.status) /\ UNCHANGED <<state, pass>> /\ m \in poll.at
        /\ poll'.pc = "report" /\ poll'.at = {}
    BY <1>9, <1>a DEF PollVerdictWrite
  <2>2. m = n => Telling(n, v, poll.status)
    BY <1>b, <2>1 DEF InPoll
  <2>3. /\ object'[n].status.gen = object[n].rev.gen
        /\ Tells(v, object'[n].status.ready)
    BY <1>t, <2>1, <2>2, WriteTells DEF TypeInv
  <2>4. InList(n, v)' /\ InPoll(n, v)'
    BY <2>1 DEF InList, InPoll, Telling
  <2> QED BY <2>1, <2>3, <2>4, ElsewhereTells
<1>10. ASSUME NEW m \in Names, PassStart(m) \/ PassStep(m) PROVE Current(n, v)'
  <2>1. UNCHANGED poll
    BY <1>10, Zenon
       DEF PassStart, PassStep, PassAbandon, PassBegin, PassReconcile, PassWrite, PassRecord, PassSettled,
           PassUnsettled, PassRewrite, PassLeave, PassRelease
  <2>2. CASE m = n
    <3>1. /\ object'[n].rev = object[n].rev /\ Telling(n, v, object[n].status)'
          /\ InMemory(n, v)' /\ InPass(n, v)' /\ state'[n].tracked = state[n].tracked
      BY <1>10, <2>2, PassTells
    <3>2. InList(n, v)' /\ InPoll(n, v)'
      BY <1>k, <2>1, <3>1
    <3> QED BY <3>1, <3>2 DEF Current, Left
  <2>3. CASE m # n
    <3>1. state'[n] = state[n] /\ pass'[n] = pass[n]
      BY <1>10, <2>3, <1>a, ReconcileFacts
         DEF PassStart, PassStep, PassAbandon, PassBegin, PassReconcile, PassWrite, PassRecord,
             PassSettled, PassUnsettled, PassRewrite, PassLeave, PassRelease
    <3>2. object' = object \/ \E status : WriteStatus(m, status)
      BY <1>10
         DEF PassStart, PassStep, PassAbandon, PassBegin, PassReconcile, PassWrite, PassRecord,
             PassSettled, PassUnsettled, PassRewrite, PassLeave, PassRelease
    <3>3. /\ object'[n].status.gen = object[n].rev.gen
          /\ Tells(v, object'[n].status.ready)
      BY <1>t, <2>3, <3>2, WriteTells DEF TypeInv, Telling
    <3>4. InList(n, v)' /\ InPoll(n, v)'
      BY <1>k, <1>t, <2>1, <3>1
    <3> QED BY <3>1, <3>3, <3>4, ElsewhereTells
  <2> QED BY <2>2, <2>3
<1>11. CASE Restart
  <2>1. /\ UNCHANGED object /\ state'[n] = Untracked /\ pass'[n] = NoPass /\ poll' = NoPoll
    BY <1>11 DEF Restart
  <2>2. InMemory(n, v)' /\ InList(n, v)' /\ InPoll(n, v)' /\ InPass(n, v)'
    BY <2>1 DEF InMemory, InList, InPoll, InPass, Untracked, NoPass, NoPoll
  <2> QED BY <1>t, <2>1, <2>2 DEF Current, Left, Telling
<1>12. ASSUME NEW m \in Names, BecomeDue(m) PROVE Current(n, v)'
  <2>1. /\ UNCHANGED <<object, poll, pass>>
        /\ state'[n].tracked = state[n].tracked /\ state'[n].rev = state[n].rev
        /\ state'[n].invalid = state[n].invalid /\ state'[n].status = state[n].status
    BY <1>12, <1>a DEF BecomeDue, ClusterState
  <2>2. InMemory(n, v)' /\ InList(n, v)' /\ InPoll(n, v)' /\ InPass(n, v)'
    BY <1>b, <1>k, <2>1 DEF InMemory, InPass, Telling
  <2> QED BY <1>t, <2>1, <2>2 DEF Current, Left, Telling
<1>13. ASSUME NEW m \in Names, Delete(m) \/ \E spec \in Specs : Create(m, spec) \/ Edit(m, spec)
       PROVE Current(n, v)'
  <2>1. UNCHANGED <<state, pass, poll>>
    BY <1>13 DEF Delete, Create, Edit
  <2>2. m # n => object'[n] = object[n]
    BY <1>13, <1>a DEF Delete, Create, Edit
  <2>3. m # n
    <3>1. SUFFICES ASSUME m = n PROVE FALSE
      OBVIOUS
    <3>2. Exists(object[n]) /\ object[n].rev.gen \in Nat
      BY <1>a, <1>b DEF Ruled, Object, Revision
    <3>3. CASE Delete(n)
      BY <1>a, <1>t, <3>2, <3>3 DEF Delete, Absent, NoRevision, Exists
    <3>4. ASSUME NEW spec \in Specs, Edit(n, spec) PROVE FALSE
      BY <1>a, <1>t, <3>2, <3>4 DEF Edit, Object, Revision
    <3>5. ASSUME NEW spec \in Specs, Create(n, spec) PROVE FALSE
      BY <3>2, <3>5 DEF Create
    <3> QED BY <1>13, <3>1, <3>3, <3>4, <3>5
  <2>4. InList(n, v)' /\ InPoll(n, v)'
    BY <1>k, <1>t, <2>1
  <2> QED BY <1>t, <2>1, <2>2, <2>3, <2>4, ElsewhereTells DEF Telling
<1> QED BY <1>1, <1>2, <1>3, <1>4, <1>5, <1>6, <1>7, <1>8, <1>9, <1>10, <1>11, <1>12, <1>13
        DEF Next, PollStep, Environment

\* What the object of a cluster says of it, and rightly, the report of a pass or a
\* verdict, it goes on saying as long as people leave the cluster as it is and in
\* the standing it has among the others, whatever becomes of those, of status
\* writes and of the process: nothing in flight or remembered can put an older
\* report back, or a verdict that was withdrawn (settleVerdict, reportRejected).
THEOREM WhatIsSaidStays ==
    Spec => [][\A n \in Names, v \in Judgements : Current(n, v) /\ Left(n, v) => Current(n, v)']_vars
<1>1. TypeInv /\ OnePassPerCluster /\ [Next]_vars
      => [\A n \in Names, v \in Judgements : Current(n, v) /\ Left(n, v) => Current(n, v)']_vars
  BY StaysCurrent
<1>2. Init => TypeInv /\ OnePassPerCluster
  BY InitTypeInv, InitOnePass
<1>3. (TypeInv /\ OnePassPerCluster) /\ [Next]_vars => (TypeInv /\ OnePassPerCluster)'
  BY NextTypeInv, NextOnePass
<1> QED BY <1>1, <1>2, <1>3, PTL DEF Spec
=============================================================================
