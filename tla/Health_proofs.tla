---------------------------- MODULE Health_proofs ----------------------------
(***************************************************************************)
(* What holds of liveness and readiness for any inventory, any number of    *)
(* slots and any durations that fit one another.                            *)
(***************************************************************************)
EXTENDS Health, FiniteSetTheorems, TLAPS

N == Cardinality(Clusters)
Phases == {"wait", "dispatch", "record"} \cup Calls

\* How long `k` calls of `t` each take, one after another.
InTurn(k, t) == k * t

-----------------------------------------------------------------------------
(* Arithmetic and sizes.                                                   *)

LEMMA TurnsAdd ==
    ASSUME NEW k \in Nat, NEW t \in Nat
    PROVE  /\ InTurn(k, t) \in Nat
           /\ \A n \in Nat : k <= n => InTurn(k, t) <= InTurn(n, t)
           /\ k > 0 => InTurn(k - 1, t) \in Nat /\ InTurn(k, t) = InTurn(k - 1, t) + t
<1>1. InTurn(k, t) \in Nat
    BY DEF InTurn
<1>2. ASSUME NEW n \in Nat, k <= n PROVE InTurn(k, t) <= InTurn(n, t)
    <2>1. n - k \in Nat /\ (n - k) * t \in Nat
        BY <1>2
    <2>2. n * t = k * t + (n - k) * t
        OBVIOUS
    <2>3. QED
        BY <2>1, <2>2 DEF InTurn
<1>3. ASSUME k > 0 PROVE InTurn(k - 1, t) \in Nat /\ InTurn(k, t) = InTurn(k - 1, t) + t
    <2>1. k - 1 \in Nat
        BY <1>3
    <2>2. (k - 1) * t \in Nat /\ k * t = (k - 1) * t + t
        BY <2>1
    <2>3. QED
        BY <2>2 DEF InTurn
<1>4. QED
    BY <1>1, <1>2, <1>3

LEMMA Sizes == /\ N \in Nat
               /\ \A S \in SUBSET Clusters : Cardinality(S) \in 0..N
<1>1. IsFiniteSet(Clusters)
    BY HealthAssumption DEF HealthAssumption
<1>2. N \in Nat
    BY <1>1, FS_CardinalityType DEF N
<1>3. ASSUME NEW S \in SUBSET Clusters PROVE Cardinality(S) \in 0..N
    <2>1. IsFiniteSet(S) /\ Cardinality(S) <= N
        BY <1>1, FS_Subset DEF N
    <2>2. Cardinality(S) \in Nat
        BY <2>1, FS_CardinalityType
    <2>3. QED
        BY <1>2, <2>1, <2>2
<1>4. QED
    BY <1>2, <1>3

-----------------------------------------------------------------------------
(* Types.                                                                  *)

LEMMA InitType == Init => TypeOK
<1> SUFFICES ASSUME Init PROVE TypeOK
    OBVIOUS
<1> USE HealthAssumption DEF HealthAssumption
<1>1. /\ at = "wait" /\ left = 0 /\ todo = 0 /\ hung = FALSE /\ sinceTick = 0 /\ pending = TRUE
      /\ sinceSchema = SchemaInterval /\ stale = FALSE
      /\ known = {} /\ blocked = {} /\ synced = {} /\ pass = [c \in Clusters |-> NoPass]
      /\ sincePoll = 0 /\ ready = FALSE /\ failed = FALSE
      /\ changes \in 0..MaxChanges /\ hangs \in 0..MaxHangs
    BY DEF Init, Fresh
<1>2. NoPass \in Pass
    BY DEF NoPass, Pass
<1>3. pass \in [Clusters -> Pass]
    BY <1>1, <1>2
<1>4. todo \in 0..N /\ sinceTick \in 0..(PollInterval - 1) /\ sincePoll \in 0..(MaxProgressAge + 1)
    BY <1>1, Sizes
<1>5. /\ hung \in BOOLEAN /\ pending \in BOOLEAN /\ stale \in BOOLEAN
      /\ ready \in BOOLEAN /\ failed \in BOOLEAN
    BY <1>1
<1>6. at \in Phases /\ left \in Nat /\ sinceSchema \in 0..SchemaInterval
    BY <1>1 DEF Phases
<1>7. known \subseteq Clusters /\ blocked \subseteq Clusters /\ synced \subseteq Clusters
    BY <1>1
<1>8. changes \in 0..MaxChanges /\ hangs \in 0..MaxHangs
    BY <1>1
<1> HIDE HealthAssumption
<1>9. QED
    BY <1>3, <1>4, <1>5, <1>6, <1>7, <1>8 DEF TypeOK, N, Phases

\* The poll: what it is at and how many of its calls are left.
LEMMA LoopType ==
    ASSUME TypeOK, LoopStep
    PROVE  /\ at' \in Phases /\ left' \in Nat /\ todo' \in 0..N
           /\ hung' = hung /\ sinceTick' = sinceTick /\ hangs' = hangs
<1> USE HealthAssumption, Sizes DEF HealthAssumption, Phases, Calls, Calling, Then
<1>1. /\ left \in Nat /\ todo \in 0..N /\ todo - 1 \in Int
    BY DEF TypeOK, N
<1>2. CASE TakeTick
    BY <1>2 DEF TakeTick
<1>3. CASE SchemaRead
    <2>1. Restamped \in 0..N
        BY DEF Restamped, TypeOK
    <2>2. QED
        BY <1>3, <2>1 DEF SchemaRead, Returns, clock
<1>4. CASE Restamp
    BY <1>1, <1>4 DEF Restamp, Returns, clock
<1>5. CASE List
    <2>1. blocked \ blocked' \in SUBSET Clusters
        BY DEF TypeOK
    <2>2. QED
        BY <1>5, <2>1 DEF List, Returns, clock
<1>6. CASE ListFails \/ Event \/ Rejected
    BY <1>1, <1>6 DEF ListFails, Event, Rejected, Returns, clock
<1>7. CASE Dispatch \/ Record
    BY <1>7 DEF Dispatch, Record, clock
<1>8. QED
    BY <1>2, <1>3, <1>4, <1>5, <1>6, <1>7 DEF LoopStep

\* The rest of what a poll changes.
LEMMA LoopRest ==
    ASSUME TypeOK, LoopStep
    PROVE  /\ sinceSchema' \in 0..SchemaInterval
           /\ known' \subseteq Clusters /\ blocked' \subseteq Clusters /\ synced' \subseteq Clusters
           /\ sincePoll' \in 0..(MaxProgressAge + 1) /\ changes' \in 0..MaxChanges
<1> USE HealthAssumption DEF HealthAssumption
<1>1. CASE TakeTick \/ SchemaRead
    BY <1>1 DEF TakeTick, SchemaRead, Returns, clock, state, health, TypeOK
<1>2. CASE Restamp \/ ListFails \/ Event \/ Rejected
    BY <1>2 DEF Restamp, ListFails, Event, Rejected, Returns, schema, clock, state, health, TypeOK
<1>3. CASE List
    BY <1>3 DEF List, Returns, schema, health, TypeOK
<1>4. CASE Dispatch \/ Record
    BY <1>4 DEF Dispatch, Record, schema, clock, state, health, TypeOK
<1>5. QED
    BY <1>1, <1>2, <1>3, <1>4 DEF LoopStep

LEMMA LoopBooleans ==
    ASSUME TypeOK, LoopStep
    PROVE  /\ pending' \in BOOLEAN /\ stale' \in BOOLEAN /\ ready' \in BOOLEAN /\ failed' \in BOOLEAN
<1>1. CASE TakeTick
    BY <1>1 DEF TakeTick, health, TypeOK
<1>2. CASE SchemaRead
    <2>1. /\ UNCHANGED <<pending, ready, failed>>
          /\ \E verdict : stale' = (verdict = "stale")
        BY <1>2 DEF SchemaRead, Returns, clock, health
    <2>2. stale' \in BOOLEAN
        BY <2>1, Zenon
    <2>3. QED
        BY <2>1, <2>2 DEF TypeOK
<1>3. CASE Restamp \/ List \/ Event \/ Rejected
    BY <1>3 DEF Restamp, List, Event, Rejected, Returns, schema, clock, health, TypeOK
<1>4. CASE ListFails
    BY <1>4 DEF ListFails, Returns, schema, clock, health, TypeOK
<1>5. CASE Dispatch
    BY <1>5 DEF Dispatch, schema, clock, health, TypeOK
<1>6. CASE Record
    <2>1. /\ UNCHANGED <<pending, stale>> /\ ready' = AllSynced /\ failed' = FALSE
        BY <1>6 DEF Record, schema, clock
    <2>2. ready' \in BOOLEAN
        BY <2>1, Zenon DEF AllSynced
    <2>3. QED
        BY <2>1, <2>2 DEF TypeOK
<1>7. QED
    BY <1>1, <1>2, <1>3, <1>4, <1>5, <1>6 DEF LoopStep

\* A poll starts passes, and marks those that an edit overtakes.
LEMMA LoopPasses ==
    ASSUME TypeOK, LoopStep
    PROVE  /\ pass' \in [Clusters -> Pass]
           /\ \A c \in Clusters :
                  \/ pass'[c] = [NoPass EXCEPT !.pc = "queued"]
                  \/ \E old \in BOOLEAN : pass'[c] = [pass[c] EXCEPT !.old = old]
<1>1. pass \in [Clusters -> Pass] /\ [NoPass EXCEPT !.pc = "queued"] \in Pass
    <2>1. NoPass \in Pass
        BY HealthAssumption DEF HealthAssumption, NoPass, Pass
    <2>2. QED
        BY <2>1 DEF TypeOK, Pass
<1>2. \A c \in Clusters : pass[c] = [pass[c] EXCEPT !.old = pass[c].old] /\ pass[c].old \in BOOLEAN
    BY <1>1 DEF Pass
<1>3. \A c \in Clusters, old \in BOOLEAN : [pass[c] EXCEPT !.old = old] \in Pass
    BY <1>1 DEF Pass
<1>4. CASE Dispatch
    <2>1. PICK due \in SUBSET {c \in known \ blocked : ~Running(c)} :
              pass' = [c \in Clusters |-> IF c \in due THEN [NoPass EXCEPT !.pc = "queued"] ELSE pass[c]]
        BY <1>4 DEF Dispatch
    <2>2. QED
        BY <1>1, <1>2, <2>1
<1>5. CASE List
    <2>1. CASE pass' = pass
        BY <1>1, <1>2, <2>1
    <2>2. CASE \E c \in Clusters : pass' = [pass EXCEPT ![c].old = Running(c)]
        <3>1. PICK c \in Clusters : pass' = [pass EXCEPT ![c].old = Running(c)]
            BY <2>2
        <3>2. Running(c) \in BOOLEAN
            BY Zenon DEF Running
        <3>3. pass' = [pass EXCEPT ![c] = [pass[c] EXCEPT !.old = Running(c)]]
            BY <1>1, <3>1
        <3>4. QED
            BY <1>1, <1>2, <1>3, <3>2, <3>3
    <2>3. QED
        BY <1>5, <2>1, <2>2 DEF List
<1>6. CASE pass' = pass
    BY <1>1, <1>2, <1>6
<1>7. QED
    BY <1>4, <1>5, <1>6
       DEF LoopStep, TakeTick, SchemaRead, Restamp, ListFails, Event, Rejected, Record

\* A pass in flight moves on, and no other with it.
Moved(c, p) == pass' = [pass EXCEPT ![c] = p] /\ p \in Pass

LEMMA PassMoves ==
    ASSUME TypeOK, NEW c \in Clusters, PassStep(c)
    PROVE  /\ UNCHANGED <<loop, clock, schema, known, blocked, health, failed, changes, hangs>>
           /\ synced' \subseteq Clusters
           /\ \/ /\ pass[c].pc = "queued" /\ synced' = synced
                 /\ \/ Moved(c, [pass[c] EXCEPT !.pc = "publish"])
                    \/ Moved(c, [pass[c] EXCEPT !.pc = "cluster", !.left = ClusterTimeout])
              \/ /\ pass[c].pc = "cluster" /\ ~pass[c].hung /\ synced' = synced
                 /\ Moved(c, [pass[c] EXCEPT !.pc = "write", !.left = CallTimeout])
              \/ /\ pass[c].pc = "write" /\ ~pass[c].hung
                 /\ \/ Moved(c, [pass[c] EXCEPT !.pc = "settle", !.left = CallTimeout])
                    \/ Moved(c, [pass[c] EXCEPT !.pc = "publish"])
              \/ /\ pass[c].pc = "settle" /\ ~pass[c].hung
                 /\ Moved(c, [pass[c] EXCEPT !.pc = "publish"])
<1> USE HealthAssumption DEF HealthAssumption
<1>1. pass[c] \in Pass
    BY DEF TypeOK
<1>2. \A pc \in {"publish"} \cup PassCalls, limit \in Nat :
          /\ [pass[c] EXCEPT !.pc = pc] \in Pass
          /\ [pass[c] EXCEPT !.pc = pc, !.left = limit] \in Pass
    BY <1>1 DEF Pass, PassCalls
<1>3. UNCHANGED <<loop, clock, schema, known, blocked, health, failed, changes, hangs>>
    BY DEF PassStep
<1>4. CASE TakeSlot(c)
    BY <1>2, <1>3, <1>4 DEF TakeSlot, Step, Enters, Moved, PassCalls, TypeOK
<1>5. CASE Reconciled(c)
    BY <1>2, <1>3, <1>5 DEF Reconciled, PassReturns, Enters, Step, Moved, PassCalls, TypeOK
<1>6. CASE StatusWritten(c)
    BY <1>2, <1>3, <1>6 DEF StatusWritten, PassReturns, Enters, Step, Moved, PassCalls, TypeOK
<1>7. CASE Settled(c)
    BY <1>2, <1>3, <1>7 DEF Settled, PassReturns, Step, Moved, PassCalls, TypeOK
<1>8. QED
    BY <1>4, <1>5, <1>6, <1>7 DEF PassStep

LEMMA PassType ==
    ASSUME TypeOK, NEW c \in Clusters, PassStep(c) \/ Publish(c)
    PROVE  TypeOK'
<1>1. CASE PassStep(c)
    <2>1. pass' \in [Clusters -> Pass]
        BY <1>1, PassMoves DEF TypeOK, Moved
    <2>2. QED
        BY <1>1, <2>1, PassMoves DEF TypeOK, loop, clock, schema, health
<1>2. CASE Publish(c)
    <2>1. NoPass \in Pass
        BY HealthAssumption DEF HealthAssumption, NoPass, Pass
    <2>2. pass' \in [Clusters -> Pass]
        BY <1>2, <2>1 DEF Publish, Step, TypeOK
    <2>3. ready' \in BOOLEAN
        <3>1. ready' = AllSynced
            BY <1>2 DEF Publish
        <3>2. QED
            BY <3>1, Zenon DEF AllSynced
    <2>4. QED
        BY <1>2, <2>2, <2>3 DEF Publish, TypeOK, loop, clock, schema, state
<1>3. QED
    BY <1>1, <1>2

\* Time passes for a pass whose clock runs.
LEMMA AgedType ==
    ASSUME NEW p \in Pass
    PROVE  /\ Aged(p) \in Pass /\ Aged(p).pc = p.pc /\ Aged(p).hung = p.hung
           /\ ~Counts(p) => Aged(p) = p
           /\ Counts(p) => /\ Aged(p).age <= p.age + 1
                           /\ p.left > 0 => Aged(p).left = p.left - 1
<1> USE HealthAssumption DEF HealthAssumption
<1>1. CASE ~Counts(p)
    BY <1>1 DEF Aged
<1>2. CASE Counts(p)
    <2> DEFINE age == UpTo(p.age, ClusterTimeout + PassGrace + 1)
               rest == Less(p.left)
    <2>1. p.age \in 0..(ClusterTimeout + PassGrace + 1) /\ p.left \in Nat
        BY DEF Pass
    <2>2. /\ age \in 0..(ClusterTimeout + PassGrace + 1) /\ age <= p.age + 1
          /\ rest \in Nat /\ (p.left > 0 => rest = p.left - 1)
        BY <2>1 DEF UpTo, Less
    <2>3. Aged(p) = [p EXCEPT !.age = age, !.left = rest]
        BY <1>2 DEF Aged
    <2> HIDE DEF age, rest
    <2>4. Aged(p) \in Pass /\ Aged(p).pc = p.pc /\ Aged(p).hung = p.hung
        BY <2>2, <2>3 DEF Pass
    <2>5. Aged(p).age = age /\ Aged(p).left = rest
        BY <2>3 DEF Pass
    <2>6. QED
        BY <1>2, <2>2, <2>4, <2>5
<1>3. QED
    BY <1>1, <1>2

LEMMA TickType == TypeOK /\ Tick => TypeOK'
<1> SUFFICES ASSUME TypeOK, Tick PROVE TypeOK'
    OBVIOUS
<1> USE HealthAssumption DEF HealthAssumption
<1>1. pass' \in [Clusters -> Pass]
    BY AgedType DEF Tick, TypeOK
<1>2. left' \in Nat
    BY DEF Tick, TypeOK, Less
<1>3. sinceTick' \in 0..(PollInterval - 1)
    BY DEF Tick, TypeOK
<1>4. sinceSchema' \in 0..SchemaInterval
    BY DEF Tick, TypeOK, UpTo
<1>5. sincePoll' \in 0..(MaxProgressAge + 1)
    BY DEF Tick, TypeOK, UpTo
<1>6. pending' \in BOOLEAN
    <2>1. pending' = (pending \/ sinceTick + 1 = PollInterval)
        BY DEF Tick
    <2>2. QED
        BY <2>1, Zenon
<1>7. UNCHANGED <<at, todo, hung, stale, state, ready, failed, changes, hangs>>
    BY DEF Tick
<1>8. QED
    BY <1>1, <1>2, <1>3, <1>4, <1>5, <1>6, <1>7 DEF TypeOK, state

LEMMA HangType == TypeOK /\ Hang => TypeOK'
<1> SUFFICES ASSUME TypeOK, Hang PROVE TypeOK'
    OBVIOUS
<1>1. pass' \in [Clusters -> Pass]
    <2>1. CASE pass' = pass
        BY <2>1 DEF TypeOK
    <2>2. CASE \E c \in Clusters : pass' = [pass EXCEPT ![c].hung = TRUE]
        BY <2>2 DEF TypeOK, Pass
    <2>3. QED
        BY <2>1, <2>2 DEF Hang
<1>2. hung' \in BOOLEAN
    BY DEF Hang, TypeOK
<1>3. hangs' \in 0..MaxHangs
    BY HealthAssumption DEF Hang, TypeOK, HealthAssumption
<1>4. QED
    BY <1>1, <1>2, <1>3 DEF Hang, TypeOK, clock, schema, state, health

LEMMA RestartIsFresh == Restart => Fresh' /\ UNCHANGED <<changes, hangs>>
BY DEF Restart, Fresh

LEMMA RestartType == TypeOK /\ Restart => TypeOK'
<1> SUFFICES ASSUME TypeOK, Restart PROVE TypeOK'
    OBVIOUS
<1> USE HealthAssumption DEF HealthAssumption
<1>1. /\ at' = "wait" /\ left' = 0 /\ todo' = 0 /\ hung' = FALSE /\ sinceTick' = 0
      /\ pending' = TRUE /\ sinceSchema' = SchemaInterval /\ stale' = FALSE
      /\ known' = {} /\ blocked' = {} /\ synced' = {} /\ pass' = [c \in Clusters |-> NoPass]
      /\ sincePoll' = 0 /\ ready' = FALSE /\ failed' = FALSE /\ UNCHANGED <<changes, hangs>>
    BY DEF Restart
<1>2. NoPass \in Pass
    BY DEF NoPass, Pass
<1>3. pass' \in [Clusters -> Pass]
    BY <1>1, <1>2
<1>4. /\ todo' \in 0..N /\ sinceTick' \in 0..(PollInterval - 1)
      /\ sincePoll' \in 0..(MaxProgressAge + 1)
    BY <1>1, Sizes
<1>5. /\ hung' \in BOOLEAN /\ pending' \in BOOLEAN /\ stale' \in BOOLEAN
      /\ ready' \in BOOLEAN /\ failed' \in BOOLEAN
    BY <1>1
<1>6. at' \in Phases /\ left' \in Nat /\ sinceSchema' \in 0..SchemaInterval
    BY <1>1 DEF Phases
<1>7. known' \subseteq Clusters /\ blocked' \subseteq Clusters /\ synced' \subseteq Clusters
    BY <1>1
<1>8. changes' \in 0..MaxChanges /\ hangs' \in 0..MaxHangs
    BY <1>1 DEF TypeOK
<1> HIDE HealthAssumption
<1>9. QED
    BY <1>3, <1>4, <1>5, <1>6, <1>7, <1>8 DEF TypeOK, N, Phases

LEMMA NextType == TypeOK /\ [Next]_vars => TypeOK'
<1> SUFFICES ASSUME TypeOK, [Next]_vars PROVE TypeOK'
    OBVIOUS
<1>1. CASE UNCHANGED vars
    BY <1>1 DEF vars, loop, clock, schema, state, health, TypeOK
<1>2. CASE LoopStep
    <2>1. /\ at' \in Phases /\ left' \in Nat /\ todo' \in 0..N
          /\ hung' = hung /\ sinceTick' = sinceTick /\ hangs' = hangs
        BY <1>2, LoopType
    <2>2. pass' \in [Clusters -> Pass]
        BY <1>2, LoopPasses
    <2>3. QED
        BY <1>2, <2>1, <2>2, LoopRest, LoopBooleans DEF TypeOK, N, Phases
<1>3. QED
    BY <1>1, <1>2, PassType, TickType, HangType, RestartType DEF Next

\* Every variable keeps its type.
THEOREM HealthTypeCorrect == Spec => []TypeOK
BY InitType, NextType, PTL DEF Spec

-----------------------------------------------------------------------------
(* What a poll and a pass may take yet.                                    *)

AfterList == InTurn(N, EventTimeout) + CallTimeout
AfterRestamp == CallTimeout + AfterList
Whole == CallTimeout + InTurn(N, CallTimeout) + AfterRestamp

\* The time to the end of the next poll that gets its inventory.
Yet == IF at = "wait" THEN (IF pending THEN 0 ELSE PollInterval - sinceTick) + Whole
       ELSE IF at = "schema" THEN left + InTurn(N, CallTimeout) + AfterRestamp
       ELSE IF at = "restamp" THEN left + InTurn(todo - 1, CallTimeout) + AfterRestamp
       ELSE IF at = "list" THEN left + AfterList
       ELSE IF at = "events" THEN left + InTurn(todo - 1, EventTimeout) + CallTimeout
       ELSE IF at = "dispatch" THEN CallTimeout
       ELSE IF at = "reject" THEN left ELSE 0

Counted == at \in {"restamp", "events"} => todo > 0
LoopInv == /\ Counted
           /\ ~hung /\ ~failed => sincePoll + Yet <= MaxProgressAge

\* The time to the end of a pass that has its slot.
PassYet(p) == IF p.pc = "cluster" THEN p.left + CallTimeout + CallTimeout
              ELSE IF p.pc = "write" THEN p.left + CallTimeout ELSE p.left

OnTime(p) == /\ p.pc = "queued" => p.age = 0
             /\ Counts(p) /\ ~p.hung => p.age + PassYet(p) <= ClusterTimeout + PassGrace

AliveInv == TypeOK /\ LoopInv /\ \A c \in Clusters : OnTime(pass[c])

LEMMA Budget ==
    /\ N \in Nat /\ CallTimeout \in Nat /\ EventTimeout \in Nat
    /\ InTurn(N, CallTimeout) \in Nat /\ InTurn(N, EventTimeout) \in Nat
    /\ AfterList \in Nat /\ AfterList = InTurn(N, EventTimeout) + CallTimeout
    /\ AfterRestamp \in Nat /\ AfterRestamp = CallTimeout + AfterList
    /\ Whole \in Nat /\ Whole = CallTimeout + InTurn(N, CallTimeout) + AfterRestamp
    /\ WithinBudget => PollInterval + Whole <= MaxProgressAge
<1>1. N \in Nat /\ CallTimeout \in Nat /\ EventTimeout \in Nat
    BY Sizes, HealthAssumption DEF HealthAssumption
<1>2. InTurn(N, CallTimeout) \in Nat /\ InTurn(N, EventTimeout) \in Nat
    BY <1>1, TurnsAdd
<1>3. N * (CallTimeout + EventTimeout) = InTurn(N, CallTimeout) + InTurn(N, EventTimeout)
    BY <1>1 DEF InTurn
<1>4. WithinBudget => PollInterval + 3 * CallTimeout
                          + (InTurn(N, CallTimeout) + InTurn(N, EventTimeout)) <= MaxProgressAge
    BY <1>3 DEF WithinBudget, N
<1>5. PollInterval \in Nat /\ MaxProgressAge \in Nat
    BY HealthAssumption DEF HealthAssumption
<1>6. QED
    BY <1>1, <1>2, <1>4, <1>5 DEF AfterList, AfterRestamp, Whole

\* One of `k` calls begins, of at most N.
LEMMA OneOf ==
    ASSUME NEW k \in 1..N
    PROVE  /\ InTurn(k - 1, CallTimeout) \in Nat /\ InTurn(k - 1, EventTimeout) \in Nat
           /\ CallTimeout + InTurn(k - 1, CallTimeout) <= InTurn(N, CallTimeout)
           /\ EventTimeout + InTurn(k - 1, EventTimeout) <= InTurn(N, EventTimeout)
<1>1. k \in Nat /\ k > 0 /\ k <= N /\ N \in Nat
    BY Budget
<1>2. ASSUME NEW t \in Nat
      PROVE  InTurn(k - 1, t) \in Nat /\ t + InTurn(k - 1, t) <= InTurn(N, t)
    <2>1. InTurn(k, t) <= InTurn(N, t)
        BY <1>1, TurnsAdd
    <2>2. InTurn(k - 1, t) \in Nat /\ InTurn(k, t) = InTurn(k - 1, t) + t
        BY <1>1, TurnsAdd
    <2>3. QED
        BY <2>1, <2>2
<1>3. QED
    BY <1>2, Budget

\* And the next one.
LEMMA NextOf ==
    ASSUME NEW k \in 1..N, NEW t \in Nat, k > 1
    PROVE  /\ InTurn(k - 1, t) \in Nat /\ InTurn((k - 1) - 1, t) \in Nat
           /\ t + InTurn((k - 1) - 1, t) = InTurn(k - 1, t)
<1>1. \A j \in Nat : j > 0 => /\ InTurn(j, t) \in Nat /\ InTurn(j - 1, t) \in Nat
                              /\ InTurn(j, t) = InTurn(j - 1, t) + t
    BY TurnsAdd
<1>2. k - 1 \in Nat /\ k - 1 > 0
    BY Budget
<1> DEFINE j == k - 1
<1>3. /\ InTurn(j, t) \in Nat /\ InTurn(j - 1, t) \in Nat
      /\ InTurn(j, t) = InTurn(j - 1, t) + t
    BY <1>1, <1>2
<1>4. QED
    BY <1>3

LEMMA YetType == TypeOK /\ Counted => Yet \in Nat
<1> SUFFICES ASSUME TypeOK, Counted PROVE Yet \in Nat
    OBVIOUS
<1>1. /\ left \in Nat /\ todo \in 0..N /\ sincePoll \in Nat
      /\ PollInterval - sinceTick \in Nat
    BY HealthAssumption DEF TypeOK, N, HealthAssumption
<1>2. CASE at \in {"restamp", "events"}
    <2>1. todo \in 1..N
        BY <1>1, <1>2, Budget DEF Counted
    <2>2. InTurn(todo - 1, CallTimeout) \in Nat /\ InTurn(todo - 1, EventTimeout) \in Nat
        BY <2>1, OneOf
    <2>3. \/ Yet = left + InTurn(todo - 1, CallTimeout) + AfterRestamp
          \/ Yet = left + InTurn(todo - 1, EventTimeout) + CallTimeout
        BY <1>2 DEF Yet
    <2>4. QED
        BY <1>1, <2>2, <2>3, Budget
<1>3. CASE at \notin {"restamp", "events"}
    BY <1>1, <1>3, Budget DEF Yet
<1>4. QED
    BY <1>2, <1>3

LEMMA YetTypeNext == (TypeOK /\ Counted => Yet \in Nat)'
BY YetType, PTL

\* A poll that goes on has no more before it than it had.
LEMMA LoopGoesOn ==
    ASSUME TypeOK, LoopInv, LoopStep, WithinBudget
    PROVE  /\ Counted'
           /\ \/ sincePoll' = 0 /\ Yet' <= MaxProgressAge
              \/ sincePoll' = sincePoll /\ failed' = failed /\ Yet' <= Yet
              \/ failed' = TRUE
<1> USE DEF Counted
<1>1. /\ left \in Nat /\ todo \in 0..N /\ Yet \in Nat /\ sinceTick \in Nat
      /\ PollInterval \in Nat
    BY YetType, HealthAssumption DEF LoopInv, TypeOK, N, HealthAssumption
<1>2. CASE TakeTick
    <2>1. at = "wait" /\ pending /\ sincePoll' = sincePoll /\ failed' = failed
        BY <1>2 DEF TakeTick, health
    <2>2. Yet = Whole
        BY <2>1, Budget DEF Yet
    <2>3. at' \in {"schema", "list"} /\ left' = CallTimeout
        BY <1>2 DEF TakeTick, Calling
    <2>4. QED
        BY <2>1, <2>2, <2>3, Budget DEF Yet
<1>3. CASE SchemaRead
    <2>1. at = "schema" /\ sincePoll' = sincePoll /\ failed' = failed
        BY <1>3 DEF SchemaRead, Returns, health
    <2>2. Yet = left + InTurn(N, CallTimeout) + AfterRestamp
        BY <2>1 DEF Yet
    <2>3. \/ Restamped > 0 /\ Calling("restamp", Restamped, CallTimeout)
          \/ Calling("list", 0, CallTimeout)
        BY <1>3 DEF SchemaRead
    <2>4. CASE Restamped > 0 /\ Calling("restamp", Restamped, CallTimeout)
        <3>1. Restamped \in 1..N
            BY <2>4, Sizes DEF Restamped, TypeOK
        <3>2. at' = "restamp" /\ todo' = Restamped /\ left' = CallTimeout
            BY <2>4 DEF Calling
        <3>3. Yet' = CallTimeout + InTurn(Restamped - 1, CallTimeout) + AfterRestamp
            BY <3>2 DEF Yet
        <3>4. /\ InTurn(Restamped - 1, CallTimeout) \in Nat
              /\ CallTimeout + InTurn(Restamped - 1, CallTimeout) <= InTurn(N, CallTimeout)
            BY <3>1, OneOf
        <3>5. QED
            BY <1>1, <2>1, <2>2, <2>4, <3>2, <3>3, <3>4, Budget
    <2>5. CASE Calling("list", 0, CallTimeout)
        <3>1. at' = "list" /\ left' = CallTimeout
            BY <2>5 DEF Calling
        <3>2. Yet' = CallTimeout + AfterList
            BY <3>1 DEF Yet
        <3>3. QED
            BY <1>1, <2>1, <2>2, <3>1, <3>2, Budget
    <2>6. QED
        BY <2>3, <2>4, <2>5
<1>4. CASE Restamp
    <2>1. at = "restamp" /\ sincePoll' = sincePoll /\ failed' = failed
        BY <1>4 DEF Restamp, Returns, health
    <2>2. todo \in 1..N
        BY <1>1, <2>1, Budget DEF LoopInv, Counted
    <2>3. Yet = left + InTurn(todo - 1, CallTimeout) + AfterRestamp
        BY <2>1 DEF Yet
    <2>4. CASE todo > 1
        <3>1. at' = "restamp" /\ todo' = todo - 1 /\ left' = CallTimeout
            BY <1>4, <2>4 DEF Restamp, Calling
        <3>2. Yet' = CallTimeout + InTurn((todo - 1) - 1, CallTimeout) + AfterRestamp
            BY <3>1 DEF Yet
        <3>3. /\ InTurn(todo - 1, CallTimeout) \in Nat /\ InTurn((todo - 1) - 1, CallTimeout) \in Nat
              /\ CallTimeout + InTurn((todo - 1) - 1, CallTimeout) = InTurn(todo - 1, CallTimeout)
            BY <2>2, <2>4, NextOf, Budget
        <3>4. QED
            BY <1>1, <2>1, <2>3, <2>4, <3>1, <3>2, <3>3, Budget
    <2>5. CASE ~(todo > 1)
        <3>1. at' = "list" /\ left' = CallTimeout
            BY <1>4, <2>5 DEF Restamp, Calling
        <3>2. Yet' = CallTimeout + AfterList
            BY <3>1 DEF Yet
        <3>3. InTurn(todo - 1, CallTimeout) \in Nat
            BY <2>2, OneOf
        <3>4. QED
            BY <1>1, <2>1, <2>3, <3>1, <3>2, <3>3, Budget
    <2>6. QED
        BY <2>4, <2>5
<1>5. CASE List
    <2>1. at = "list" /\ sincePoll' = sincePoll /\ failed' = failed
        BY <1>5 DEF List, Returns, health
    <2>2. Yet = left + AfterList
        BY <2>1 DEF Yet
    <2> DEFINE resumed == Cardinality(blocked \ blocked')
    <2>3. resumed \in 0..N
        <3>1. blocked \ blocked' \in SUBSET Clusters
            BY DEF TypeOK
        <3>2. QED
            BY <3>1, Sizes
    <2>4. IF resumed > 0 THEN Calling("events", resumed, EventTimeout) ELSE Then("dispatch")
        BY <1>5 DEF List
    <2> HIDE DEF resumed
    <2>5. CASE resumed > 0
        <3>1. at' = "events" /\ todo' = resumed /\ left' = EventTimeout
            BY <2>4, <2>5 DEF Calling
        <3>2. Yet' = EventTimeout + InTurn(resumed - 1, EventTimeout) + CallTimeout
            BY <3>1 DEF Yet
        <3>3. resumed \in 1..N
            BY <2>3, <2>5, Budget
        <3>4. /\ InTurn(resumed - 1, EventTimeout) \in Nat
              /\ EventTimeout + InTurn(resumed - 1, EventTimeout) <= InTurn(N, EventTimeout)
            BY <3>3, OneOf
        <3>5. QED
            BY <1>1, <2>1, <2>2, <2>5, <3>1, <3>2, <3>4, Budget
    <2>6. CASE ~(resumed > 0)
        <3>1. at' = "dispatch"
            BY <2>4, <2>6 DEF Then
        <3>2. Yet' = CallTimeout
            BY <3>1 DEF Yet
        <3>3. QED
            BY <1>1, <2>1, <2>2, <3>1, <3>2, Budget
    <2>7. QED
        BY <2>5, <2>6
<1>6. CASE Event
    <2>1. at = "events" /\ sincePoll' = sincePoll /\ failed' = failed
        BY <1>6 DEF Event, Returns, health
    <2>2. todo \in 1..N
        BY <1>1, <2>1, Budget DEF LoopInv, Counted
    <2>3. Yet = left + InTurn(todo - 1, EventTimeout) + CallTimeout
        BY <2>1 DEF Yet
    <2>4. CASE todo > 1
        <3>1. at' = "events" /\ todo' = todo - 1 /\ left' = EventTimeout
            BY <1>6, <2>4 DEF Event, Calling
        <3>2. Yet' = EventTimeout + InTurn((todo - 1) - 1, EventTimeout) + CallTimeout
            BY <3>1 DEF Yet
        <3>3. /\ InTurn(todo - 1, EventTimeout) \in Nat /\ InTurn((todo - 1) - 1, EventTimeout) \in Nat
              /\ EventTimeout + InTurn((todo - 1) - 1, EventTimeout) = InTurn(todo - 1, EventTimeout)
            BY <2>2, <2>4, NextOf, Budget
        <3>4. QED
            BY <1>1, <2>1, <2>3, <2>4, <3>1, <3>2, <3>3, Budget
    <2>5. CASE ~(todo > 1)
        <3>1. at' = "dispatch"
            BY <1>6, <2>5 DEF Event, Then
        <3>2. Yet' = CallTimeout
            BY <3>1 DEF Yet
        <3>3. InTurn(todo - 1, EventTimeout) \in Nat
            BY <2>2, OneOf
        <3>4. QED
            BY <1>1, <2>1, <2>3, <3>1, <3>2, <3>3, Budget
    <2>6. QED
        BY <2>4, <2>5
<1>7. CASE Dispatch
    <2>1. at = "dispatch" /\ sincePoll' = sincePoll /\ failed' = failed
        BY <1>7 DEF Dispatch, health
    <2>2. (at' = "reject" /\ left' = CallTimeout) \/ at' = "record"
        BY <1>7 DEF Dispatch, Calling, Then
    <2>3. QED
        BY <2>1, <2>2, Budget DEF Yet
<1>8. CASE Rejected
    <2>1. at = "reject" /\ at' = "record" /\ sincePoll' = sincePoll /\ failed' = failed
        BY <1>8 DEF Rejected, Returns, Then, health
    <2>2. QED
        BY <1>1, <2>1 DEF Yet
<1>9. CASE Record
    <2>1. at' = "wait" /\ sincePoll' = 0 /\ sinceTick' = sinceTick
        BY <1>9 DEF Record, Then, clock
    <2>2. Yet' <= PollInterval + Whole
        BY <1>1, <2>1, Budget DEF Yet
    <2>3. Yet' \in Int
        BY <1>1, <2>1, Budget DEF Yet
    <2>4. QED
        BY <1>1, <2>1, <2>2, <2>3, Budget, HealthAssumption DEF HealthAssumption
<1>10. QED
    <2>1. CASE ListFails
        BY <2>1 DEF ListFails, Then
    <2>2. QED
        BY <1>2, <1>3, <1>4, <1>5, <1>6, <1>7, <1>8, <1>9, <2>1 DEF LoopStep

\* Time that passes is spent by what the poll is at.
LEMMA LoopWaits ==
    ASSUME TypeOK, LoopInv, Tick
    PROVE  LoopInv'
<1> USE DEF Counted
<1>1. /\ left \in Nat /\ sinceTick \in 0..(PollInterval - 1) /\ sincePoll \in Nat /\ Yet \in Nat
      /\ todo \in 0..N /\ PollInterval \in Nat /\ MaxProgressAge \in Nat
    BY YetType, HealthAssumption DEF LoopInv, TypeOK, N, HealthAssumption
<1>2. UNCHANGED <<at, todo, hung, failed>>
    BY DEF Tick
<1>3. sincePoll' = UpTo(sincePoll, MaxProgressAge + 1)
    BY DEF Tick
<1>4. ASSUME ~hung, ~failed
      PROVE  sincePoll' + Yet' <= MaxProgressAge
    <2>1. sincePoll + Yet <= MaxProgressAge
        BY <1>4 DEF LoopInv
    <2>2. sincePoll' = sincePoll + 1
        BY <1>1, <1>3, <2>1 DEF UpTo
    <2>3. CASE at = "wait" /\ ~pending
        <3>1. Yet = PollInterval - sinceTick + Whole
            BY <2>3 DEF Yet
        <3>2. CASE sinceTick + 1 = PollInterval
            <4>1. pending'
                BY <3>2 DEF Tick
            <4>2. Yet' = 0 + Whole
                BY <1>2, <2>3, <4>1 DEF Yet
            <4>3. QED
                BY <1>1, <2>1, <2>2, <3>1, <3>2, <4>2, Budget
        <3>3. CASE sinceTick + 1 # PollInterval
            <4>1. sinceTick' = sinceTick + 1
                BY <3>3 DEF Tick
            <4>2. pending' = FALSE
                BY <2>3, <3>3 DEF Tick
            <4>3. Yet' = PollInterval - sinceTick' + Whole
                BY <1>2, <2>3, <4>2 DEF Yet
            <4>4. QED
                BY <1>1, <2>1, <2>2, <3>1, <4>1, <4>3, Budget
        <3>4. QED
            BY <3>2, <3>3
    <2>4. CASE at \in Calls /\ left > 0
        <3>1. left' = left - 1
            BY <1>1, <2>4 DEF Tick, Less
        <3>2. CASE at \in {"restamp", "events"}
            <4>1. todo \in 1..N
                BY <1>1, <3>2, Budget DEF LoopInv, Counted
            <4>2. InTurn(todo - 1, CallTimeout) \in Nat /\ InTurn(todo - 1, EventTimeout) \in Nat
                BY <4>1, OneOf
            <4>3. \/ /\ Yet = left + InTurn(todo - 1, CallTimeout) + AfterRestamp
                     /\ Yet' = left' + InTurn(todo - 1, CallTimeout) + AfterRestamp
                  \/ /\ Yet = left + InTurn(todo - 1, EventTimeout) + CallTimeout
                     /\ Yet' = left' + InTurn(todo - 1, EventTimeout) + CallTimeout
                BY <1>2, <3>2 DEF Yet
            <4>4. QED
                BY <1>1, <2>1, <2>2, <3>1, <4>2, <4>3, Budget
        <3>3. CASE at \in {"schema", "list", "reject"}
            BY <1>1, <1>2, <2>1, <2>2, <3>1, <3>3, Budget DEF Yet
        <3>4. QED
            BY <2>4, <3>2, <3>3 DEF Calls
    <2>5. QED
        BY <1>4, <2>3, <2>4 DEF Tick, MayWait
<1>5. Counted'
    BY <1>2 DEF LoopInv, Counted
<1>6. QED
    BY <1>2, <1>4, <1>5 DEF LoopInv

LEMMA LoopAlive ==
    ASSUME WithinBudget, AliveInv, [Next]_vars
    PROVE  LoopInv'
<1>1. CASE LoopStep
    <2>1. TypeOK /\ LoopInv /\ hung' = hung /\ Yet \in Nat /\ sincePoll \in Nat
        BY <1>1, LoopType, YetType DEF AliveInv, LoopInv, TypeOK
    <2>2. Counted'
        BY <1>1, <2>1, LoopGoesOn
    <2>3. ASSUME ~hung', ~failed' PROVE sincePoll' + Yet' <= MaxProgressAge
        <3>1. \/ sincePoll' = 0 /\ Yet' <= MaxProgressAge
              \/ sincePoll' = sincePoll /\ failed' = failed /\ Yet' <= Yet
            BY <1>1, <2>1, <2>3, LoopGoesOn
        <3>2. PICK yet \in Nat : yet = Yet'
            BY <2>1, <2>2, NextType, YetTypeNext
        <3>3. MaxProgressAge \in Nat
            BY HealthAssumption DEF HealthAssumption
        <3>4. sincePoll + Yet <= MaxProgressAge \/ failed # failed'
            BY <2>1, <2>3 DEF LoopInv
        <3>5. sincePoll' + yet <= MaxProgressAge
            BY <2>1, <3>1, <3>2, <3>3, <3>4
        <3>6. QED
            BY <3>2, <3>5
    <2>4. QED
        BY <2>2, <2>3 DEF LoopInv
<1>2. CASE UNCHANGED <<loop, clock, sincePoll, failed>>
    BY <1>2 DEF AliveInv, LoopInv, Counted, Yet, loop, clock
<1>3. CASE Tick
    BY <1>3, LoopWaits DEF AliveInv
<1>4. CASE Hang
    BY <1>4 DEF Hang, AliveInv, LoopInv, Counted, Yet, clock, health
<1>5. CASE Restart
    <2>1. at' = "wait" /\ pending' = TRUE /\ sincePoll' = 0
        BY <1>5 DEF Restart
    <2>2. Yet' = 0 + Whole
        BY <2>1 DEF Yet
    <2>3. QED
        BY <2>1, <2>2, Budget, HealthAssumption DEF LoopInv, Counted, HealthAssumption
<1>6. CASE \E c \in Clusters : PassStep(c) \/ Publish(c)
    BY <1>2, <1>6 DEF PassStep, Publish, health
<1>7. QED
    BY <1>1, <1>2, <1>3, <1>4, <1>5, <1>6 DEF Next, vars, health

\* A pass has its time from its slot on, each of its calls within its own deadline.
LEMMA PassGoesOn ==
    ASSUME WithinBudget, TypeOK, NEW c \in Clusters, OnTime(pass[c]),
           PassStep(c) \/ Publish(c)
    PROVE  OnTime(pass'[c]) /\ \A d \in Clusters \ {c} : pass'[d] = pass[d]
<1>1. /\ pass \in [Clusters -> Pass] /\ pass[c] \in Pass
      /\ pass[c].age \in Nat /\ pass[c].left \in Nat
    BY HealthAssumption DEF TypeOK, Pass, HealthAssumption
<1>2. /\ ClusterTimeout \in Nat /\ CallTimeout \in Nat /\ PassGrace \in Nat
      /\ CallTimeout + CallTimeout <= PassGrace
    BY HealthAssumption DEF HealthAssumption, WithinBudget
<1>3. CASE Publish(c)
    <2>1. pass' = [pass EXCEPT ![c] = NoPass]
        BY <1>3 DEF Publish, Step
    <2>2. NoPass.pc = "none" /\ NoPass.age = 0
        BY DEF NoPass
    <2>3. QED
        BY <1>1, <2>1, <2>2 DEF OnTime, Counts, PassCalls
<1>4. CASE PassStep(c)
    <2>1. ASSUME NEW pc, pc \in {"publish"} \cup PassCalls,
                 Moved(c, [pass[c] EXCEPT !.pc = pc])
          PROVE  /\ pass'[c].pc = pc /\ pass'[c].age = pass[c].age /\ pass'[c].left = pass[c].left
                 /\ pass'[c].hung = pass[c].hung
                 /\ \A d \in Clusters \ {c} : pass'[d] = pass[d]
        BY <1>1, <2>1 DEF Moved, Pass
    <2>2. ASSUME NEW pc, pc \in PassCalls, NEW limit \in Nat,
                 Moved(c, [pass[c] EXCEPT !.pc = pc, !.left = limit])
          PROVE  /\ pass'[c].pc = pc /\ pass'[c].age = pass[c].age /\ pass'[c].left = limit
                 /\ pass'[c].hung = pass[c].hung
                 /\ \A d \in Clusters \ {c} : pass'[d] = pass[d]
        BY <1>1, <2>2 DEF Moved, Pass
    <2>3. CASE \E pc \in {"publish"} : Moved(c, [pass[c] EXCEPT !.pc = pc])
        BY <2>1, <2>3 DEF OnTime, Counts, PassCalls
    <2>4. CASE pass[c].pc = "queued"
               /\ Moved(c, [pass[c] EXCEPT !.pc = "cluster", !.left = ClusterTimeout])
        <3>1. /\ pass'[c].pc = "cluster" /\ pass'[c].age = 0 /\ pass'[c].left = ClusterTimeout
              /\ \A d \in Clusters \ {c} : pass'[d] = pass[d]
            BY <1>2, <2>2, <2>4 DEF PassCalls, OnTime
        <3>2. QED
            BY <1>2, <3>1 DEF OnTime, PassYet
    <2>5. CASE pass[c].pc = "cluster" /\ ~pass[c].hung
               /\ Moved(c, [pass[c] EXCEPT !.pc = "write", !.left = CallTimeout])
        <3>1. /\ pass'[c].pc = "write" /\ pass'[c].age = pass[c].age /\ pass'[c].left = CallTimeout
              /\ \A d \in Clusters \ {c} : pass'[d] = pass[d]
            BY <1>2, <2>2, <2>5 DEF PassCalls
        <3>2. pass[c].age + (pass[c].left + CallTimeout + CallTimeout) <= ClusterTimeout + PassGrace
            BY <2>5 DEF OnTime, PassYet, Counts, PassCalls
        <3>3. QED
            BY <1>1, <1>2, <3>1, <3>2 DEF OnTime, PassYet
    <2>6. CASE pass[c].pc = "write" /\ ~pass[c].hung
               /\ Moved(c, [pass[c] EXCEPT !.pc = "settle", !.left = CallTimeout])
        <3>1. /\ pass'[c].pc = "settle" /\ pass'[c].age = pass[c].age /\ pass'[c].left = CallTimeout
              /\ \A d \in Clusters \ {c} : pass'[d] = pass[d]
            BY <1>2, <2>2, <2>6 DEF PassCalls
        <3>2. pass[c].age + (pass[c].left + CallTimeout) <= ClusterTimeout + PassGrace
            BY <2>6 DEF OnTime, PassYet, Counts, PassCalls
        <3>3. QED
            BY <1>1, <1>2, <3>1, <3>2 DEF OnTime, PassYet
    <2>7. QED
        BY <1>4, <2>3, <2>4, <2>5, <2>6, PassMoves
<1>5. QED
    BY <1>3, <1>4

LEMMA PassesAlive ==
    ASSUME WithinBudget, AliveInv, [Next]_vars, NEW c \in Clusters
    PROVE  OnTime(pass'[c])
<1>1. /\ TypeOK /\ pass \in [Clusters -> Pass] /\ pass[c] \in Pass /\ OnTime(pass[c])
      /\ pass[c].age \in Nat /\ pass[c].left \in Nat /\ CallTimeout \in Nat
    BY HealthAssumption DEF AliveInv, TypeOK, Pass, HealthAssumption
<1>2. ClusterTimeout \in Nat /\ PassGrace \in Nat
    BY HealthAssumption DEF HealthAssumption
<1>3. CASE pass'[c] = pass[c]
    BY <1>1, <1>3
<1>4. CASE \E old \in BOOLEAN : pass'[c] = [pass[c] EXCEPT !.old = old]
    <2>1. /\ pass'[c].pc = pass[c].pc /\ pass'[c].age = pass[c].age
          /\ pass'[c].left = pass[c].left /\ pass'[c].hung = pass[c].hung
        BY <1>1, <1>4 DEF Pass
    <2>2. QED
        BY <1>1, <2>1 DEF OnTime, PassYet, Counts
<1>5. CASE pass'[c] = [NoPass EXCEPT !.pc = "queued"]
    <2>1. NoPass \in Pass /\ NoPass.age = 0
        BY HealthAssumption DEF HealthAssumption, NoPass, Pass
    <2>2. pass'[c].pc = "queued" /\ pass'[c].age = 0
        BY <1>5, <2>1 DEF Pass
    <2>3. QED
        BY <2>2 DEF OnTime, Counts, PassCalls
<1>6. CASE \E d \in Clusters : PassStep(d) \/ Publish(d)
    <2>1. PICK d \in Clusters : PassStep(d) \/ Publish(d)
        BY <1>6
    <2>2. OnTime(pass'[d]) /\ \A e \in Clusters \ {d} : pass'[e] = pass[e]
        BY <1>1, <2>1, PassGoesOn DEF AliveInv
    <2>3. QED
        BY <1>1, <2>2
<1>7. CASE Tick
    <2>1. pass'[c] = Aged(pass[c])
        BY <1>7 DEF Tick
    <2>2. CASE ~Counts(pass[c])
        BY <1>1, <2>1, <2>2, AgedType
    <2>3. CASE Counts(pass[c])
        <3>1. /\ pass'[c].pc = pass[c].pc /\ pass'[c].hung = pass[c].hung
              /\ pass'[c].age <= pass[c].age + 1 /\ pass'[c] \in Pass
              /\ pass[c].left > 0 => pass'[c].left = pass[c].left - 1
            BY <1>1, <2>1, <2>3, AgedType
        <3>2. pass[c].left > 0 \/ pass[c].hung
            BY <1>7, <2>3 DEF Tick, MayWait, Counts
        <3>3. pass'[c].age \in Nat /\ pass'[c].left \in Nat
            BY <3>1, HealthAssumption DEF Pass, HealthAssumption
        <3>4. pass'[c].pc # "queued"
            BY <2>3, <3>1 DEF Counts, PassCalls
        <3>5. ASSUME ~pass[c].hung
              PROVE  pass'[c].age + PassYet(pass'[c]) <= ClusterTimeout + PassGrace
            <4>1. pass[c].age + PassYet(pass[c]) <= ClusterTimeout + PassGrace
                BY <1>1, <2>3, <3>5 DEF OnTime
            <4>2. pass'[c].left = pass[c].left - 1
                BY <3>1, <3>2, <3>5
            <4>3. QED
                BY <1>1, <1>2, <3>1, <3>3, <4>1, <4>2 DEF PassYet
        <3>6. QED
            BY <3>1, <3>4, <3>5 DEF OnTime
    <2>4. QED
        BY <2>2, <2>3
<1>8. CASE Hang
    <2>1. CASE \E d \in Clusters : /\ pass[d].pc \in PassCalls
                                   /\ pass' = [pass EXCEPT ![d].hung = TRUE]
        <3>1. PICK d \in Clusters : /\ pass[d].pc \in PassCalls
                                    /\ pass' = [pass EXCEPT ![d].hung = TRUE]
            BY <2>1
        <3>2. CASE c = d
            <4>1. pass'[c].hung /\ pass'[c].pc = pass[c].pc
                BY <1>1, <3>1, <3>2 DEF Pass
            <4>2. QED
                BY <3>1, <3>2, <4>1 DEF OnTime, PassCalls
        <3>3. CASE c # d
            BY <1>1, <1>3, <3>1, <3>3
        <3>4. QED
            BY <3>2, <3>3
    <2>2. QED
        BY <1>3, <1>8, <2>1 DEF Hang
<1>9. CASE Restart
    <2>1. pass'[c] = NoPass /\ NoPass.pc = "none"
        BY <1>9 DEF Restart, NoPass
    <2>2. QED
        BY <2>1 DEF OnTime, Counts, PassCalls
<1>10. CASE LoopStep
    BY <1>1, <1>4, <1>5, <1>10, LoopPasses
<1>11. QED
    BY <1>3, <1>6, <1>7, <1>8, <1>9, <1>10 DEF Next, vars

\* A process is killed by its liveness probe only if a call of it hangs or the
\* API server has refused it an inventory, where the time its calls may take fits
\* the budget: for any inventory, however slow every call of it is.
THEOREM NeverKilledForSlowness == WithinBudget => (Spec => []SlowIsAlive)
<1> SUFFICES ASSUME WithinBudget PROVE Spec => []SlowIsAlive
    OBVIOUS
<1>1. Init => AliveInv
    <2> SUFFICES ASSUME Init PROVE AliveInv
        OBVIOUS
    <2>1. at = "wait" /\ pending = TRUE /\ sincePoll = 0 /\ pass = [c \in Clusters |-> NoPass]
        BY DEF Init, Fresh
    <2>2. LoopInv
        BY <2>1, Budget, HealthAssumption DEF LoopInv, Counted, Yet, HealthAssumption
    <2>3. NoPass.pc = "none"
        BY DEF NoPass
    <2>4. \A c \in Clusters : OnTime(pass[c])
        BY <2>1, <2>3 DEF OnTime, Counts, PassCalls
    <2>5. QED
        BY <2>2, <2>4, InitType DEF AliveInv
<1>2. AliveInv /\ [Next]_vars => AliveInv'
    BY NextType, LoopAlive, PassesAlive DEF AliveInv
<1>3. AliveInv => SlowIsAlive
    <2> SUFFICES ASSUME AliveInv, ~Hung, ~failed PROVE Live
        BY DEF SlowIsAlive
    <2>1. sincePoll <= MaxProgressAge
        <3>1. /\ Yet \in Nat /\ sincePoll \in Nat /\ MaxProgressAge \in Nat
              /\ sincePoll + Yet <= MaxProgressAge
            BY YetType, HealthAssumption DEF AliveInv, LoopInv, Hung, TypeOK, HealthAssumption
        <3>2. QED
            BY <3>1
    <2>2. ASSUME NEW c \in Clusters, Started(c)
          PROVE  pass[c].age <= ClusterTimeout + PassGrace
        <3>1. pass[c].age + PassYet(pass[c]) <= ClusterTimeout + PassGrace
            BY <2>2 DEF AliveInv, OnTime, Started, Hung
        <3>2. /\ pass[c].age \in Nat /\ pass[c].left \in Nat
              /\ CallTimeout \in Nat /\ ClusterTimeout \in Nat /\ PassGrace \in Nat
            BY HealthAssumption DEF AliveInv, TypeOK, Pass, HealthAssumption
        <3>3. QED
            BY <3>1, <3>2 DEF PassYet
    <2>3. QED
        BY <2>1, <2>2 DEF Live
<1>4. QED
    BY <1>1, <1>2, <1>3, PTL DEF Spec

-----------------------------------------------------------------------------
(* Readiness.                                                              *)

\* What readiness is taken from, and the publications that are due.
LEMMA ReadyStep ==
    ASSUME TypeOK, ReadyIsTrue, [Next]_vars
    PROVE  ReadyIsTrue'
<1>1. pass \in [Clusters -> Pass]
    BY DEF TypeOK
<1>2. ASSUME UNCHANGED <<state, ready>>, Owed => Owed'
      PROVE  ReadyIsTrue'
    BY <1>2 DEF ReadyIsTrue, AllSynced, state
<1>3. ASSUME ready' = AllSynced, UNCHANGED state
      PROVE  ReadyIsTrue'
    <2>1. AllSynced' = AllSynced
        BY <1>3 DEF AllSynced, state
    <2>2. QED
        BY <1>3, <2>1 DEF ReadyIsTrue
<1>4. CASE UNCHANGED vars
    BY <1>2, <1>4 DEF vars, loop, health, Owed
<1>5. CASE LoopStep
    <2>1. CASE TakeTick \/ SchemaRead \/ Restamp \/ ListFails
        <3>1. /\ UNCHANGED <<state, ready, pass>>
              /\ at \in {"wait", "schema", "restamp", "list"}
            BY <2>1 DEF TakeTick, SchemaRead, Restamp, ListFails, Returns, health, state
        <3>2. QED
            BY <1>2, <3>1 DEF Owed
    <2>2. CASE List \/ Event \/ Dispatch \/ Rejected
        <3>1. at' \in {"events", "dispatch", "reject", "record"}
            BY <2>2 DEF List, Event, Dispatch, Rejected, Calling, Then
        <3>2. QED
            BY <3>1 DEF Owed, ReadyIsTrue
    <2>3. CASE Record
        BY <1>3, <2>3 DEF Record
    <2>4. QED
        BY <1>5, <2>1, <2>2, <2>3 DEF LoopStep
<1>6. ASSUME NEW c \in Clusters, PassStep(c)
      PROVE  ReadyIsTrue'
    <2>1. CASE pass'[c].pc \in {"settle", "publish"}
        BY <2>1 DEF Owed, ReadyIsTrue
    <2>2. CASE pass'[c].pc \notin {"settle", "publish"}
        <3>1. /\ UNCHANGED <<at, known, blocked, ready>> /\ synced' = synced
              /\ pass[c].pc \in {"queued", "cluster"}
              /\ \A d \in Clusters \ {c} : pass'[d] = pass[d]
            <4>1. \A p \in Pass : Moved(c, p) => /\ pass'[c] = p
                                                 /\ \A d \in Clusters \ {c} : pass'[d] = pass[d]
                BY <1>1 DEF Moved
            <4>2. UNCHANGED <<at, known, blocked, ready>>
                BY <1>6, PassMoves DEF loop, health
            <4>3. \A limit \in Nat :
                      /\ [pass[c] EXCEPT !.pc = "publish"].pc = "publish"
                      /\ [pass[c] EXCEPT !.pc = "settle", !.left = limit].pc = "settle"
                BY <1>1 DEF Pass
            <4>4. CallTimeout \in Nat
                BY Budget
            <4>5. \A p : Moved(c, p) => p \in Pass
                BY DEF Moved
            <4>6. QED
                BY <1>6, <2>2, <4>1, <4>2, <4>3, <4>4, <4>5, PassMoves
        <3>2. Owed => Owed'
            BY <3>1 DEF Owed
        <3>3. QED
            BY <1>2, <3>1, <3>2 DEF state
    <2>3. QED
        BY <2>1, <2>2
<1>7. ASSUME NEW c \in Clusters, Publish(c)
      PROVE  ReadyIsTrue'
    BY <1>3, <1>7 DEF Publish
<1>8. CASE Tick
    <2>1. UNCHANGED <<at, state, ready>> /\ pass' = [c \in Clusters |-> Aged(pass[c])]
        BY <1>8 DEF Tick
    <2>2. \A c \in Clusters : pass'[c].pc = pass[c].pc
        BY <1>1, <2>1, AgedType
    <2>3. QED
        BY <1>2, <2>1, <2>2 DEF Owed
<1>9. CASE Hang
    <2>1. UNCHANGED <<at, state, ready>>
        BY <1>9 DEF Hang, health
    <2>2. \A c \in Clusters : pass'[c].pc = pass[c].pc
        <3>1. CASE \E d \in Clusters : pass' = [pass EXCEPT ![d].hung = TRUE]
            BY <1>1, <3>1 DEF Pass
        <3>2. QED
            BY <1>9, <3>1 DEF Hang
    <2>3. QED
        BY <1>2, <2>1, <2>2 DEF Owed
<1>10. CASE Restart
    BY <1>10 DEF Restart, ReadyIsTrue
<1>11. QED
    BY <1>4, <1>5, <1>6, <1>7, <1>8, <1>9, <1>10 DEF Next

\* Readiness never lies for longer than a publication takes.
THEOREM ReadyIsTold == Spec => []ReadyIsTrue
<1>1. Init => ReadyIsTrue
    BY DEF Init, Fresh, ReadyIsTrue
<1>2. QED
    BY <1>1, InitType, NextType, ReadyStep, PTL DEF Spec
-----------------------------------------------------------------------------
(* What hangs.  The half of HungIsRestarted that is no liveness.            *)

\* What hangs is a call: of the loop, or of a pass whose clock runs.
StuckInv == /\ hung => at \in Calls
            /\ \A c \in Clusters : pass[c].hung => Started(c)

\* While it does, the age that liveness looks at only grows, by every tick of time.
LoopRunsOut == /\ hung' /\ sincePoll' >= sincePoll
               /\ Tick => sincePoll' = UpTo(sincePoll, MaxProgressAge + 1)
PassRunsOut(c) == /\ pass'[c].hung /\ pass'[c].age >= pass[c].age
                  /\ Tick => pass'[c].age = UpTo(pass[c].age, ClusterTimeout + PassGrace + 1)
RunsOut == /\ hung => LoopRunsOut
           /\ \A c \in Clusters : pass[c].hung => PassRunsOut(c)

LEMMA StuckFirst == Init => StuckInv
BY DEF Init, Fresh, StuckInv, NoPass

LEMMA StuckStays ==
    ASSUME TypeOK, StuckInv, Next
    PROVE  StuckInv' /\ (RunsOut \/ Restart)
<1> USE HealthAssumption DEF HealthAssumption
<1>a. /\ sincePoll \in 0..(MaxProgressAge + 1) /\ pass \in [Clusters -> Pass]
      /\ \A c \in Clusters : pass[c] \in Pass /\ pass[c].age \in 0..(ClusterTimeout + PassGrace + 1)
                             /\ pass[c].hung \in BOOLEAN
    BY DEF TypeOK, Pass
<1>b. ASSUME NEW c \in Clusters,
             pass'[c].pc = pass[c].pc, pass'[c].hung = pass[c].hung, pass'[c].age = pass[c].age
      PROVE  (pass'[c].hung => Started(c)') /\ (pass[c].hung /\ ~Tick => PassRunsOut(c))
    BY <1>a, <1>b DEF StuckInv, Started, Counts, PassRunsOut
<1>c. ASSUME UNCHANGED <<at, hung, sincePoll>>
      PROVE  (hung' => at' \in Calls) /\ (hung /\ ~Tick => LoopRunsOut)
    BY <1>a, <1>c DEF StuckInv, LoopRunsOut
<1>1. CASE Tick
    <2>1. /\ UNCHANGED <<at, hung>> /\ sincePoll' = UpTo(sincePoll, MaxProgressAge + 1)
          /\ pass' = [c \in Clusters |-> Aged(pass[c])]
        BY <1>1 DEF Tick
    <2>2. LoopRunsOut \/ ~hung
        BY <1>a, <2>1 DEF LoopRunsOut, UpTo
    <2>3. ASSUME NEW c \in Clusters
          PROVE  (pass'[c].hung => Started(c)') /\ (pass[c].hung => PassRunsOut(c))
        <3>1. pass'[c].pc = pass[c].pc /\ pass'[c].hung = pass[c].hung
            BY <1>a, <2>1, AgedType
        <3>2. pass[c].hung =>
                  pass'[c] = [pass[c] EXCEPT !.age = UpTo(@, ClusterTimeout + PassGrace + 1),
                                             !.left = Less(@)]
            BY <2>1 DEF StuckInv, Started, Aged
        <3>3. pass[c].hung => pass'[c].age = UpTo(pass[c].age, ClusterTimeout + PassGrace + 1)
            BY <1>a, <3>2 DEF Pass
        <3>4. QED
            BY <1>a, <3>1, <3>3 DEF StuckInv, Started, Counts, PassRunsOut, UpTo
    <2>4. QED
        BY <2>1, <2>2, <2>3 DEF StuckInv, RunsOut
<1>2. CASE LoopStep /\ ~Tick
    <2>1. ~hung /\ ~hung'
        BY <1>2 DEF LoopStep, TakeTick, SchemaRead, Restamp, List, ListFails, Event, Dispatch, Rejected,
                    Record, Returns, StuckInv, Calls
    <2>2. ASSUME NEW c \in Clusters
          PROVE  (pass'[c].hung => Started(c)') /\ (pass[c].hung => PassRunsOut(c))
        <3>1. \/ pass'[c] = [NoPass EXCEPT !.pc = "queued"]
              \/ /\ pass'[c].pc = pass[c].pc /\ pass'[c].hung = pass[c].hung
                 /\ pass'[c].age = pass[c].age
            <4>1. \/ pass'[c] = [NoPass EXCEPT !.pc = "queued"]
                  \/ \E old \in BOOLEAN : pass'[c] = [pass[c] EXCEPT !.old = old]
                BY <1>2, LoopPasses
            <4>2. QED
                BY <1>a, <4>1 DEF Pass
        <3>2. CASE pass'[c] = [NoPass EXCEPT !.pc = "queued"]
            <4>1. ~pass'[c].hung
                BY <3>2 DEF NoPass
            <4>2. Running(c) => pass'[c] = pass[c] \/ \E old : pass'[c] = [pass[c] EXCEPT !.old = old]
                BY <1>a, <1>2
                   DEF LoopStep, TakeTick, SchemaRead, Restamp, List, ListFails, Event, Dispatch, Rejected,
                       Record
            <4>3. Running(c) => pass'[c].hung = pass[c].hung
                BY <1>a, <4>2 DEF Pass
            <4>4. QED
                BY <4>1, <4>3 DEF StuckInv, Started, Counts, PassCalls, Running
        <3>3. QED
            BY <1>2, <1>b, <3>1, <3>2
    <2>3. QED
        BY <2>1, <2>2 DEF StuckInv, RunsOut
<1>3. ASSUME NEW d \in Clusters, PassStep(d) \/ Publish(d), ~Tick PROVE StuckInv' /\ RunsOut
    <2>1. UNCHANGED <<at, hung, sincePoll>>
        BY <1>3 DEF PassStep, Publish, loop, health
    <2>2. \A c \in Clusters \ {d} : pass'[c] = pass[c]
        BY <1>a, <1>3
           DEF PassStep, Publish, TakeSlot, Reconciled, StatusWritten, Settled, Enters, Step
    <2>3. ~pass[d].hung
        BY <1>3
           DEF PassStep, Publish, TakeSlot, Reconciled, StatusWritten, Settled, PassReturns, StuckInv,
               Started, Counts, PassCalls
    <2>4. ~pass'[d].hung
        <3>1. CASE Publish(d)
            <4>1. pass'[d] = NoPass
                BY <1>a, <3>1 DEF Publish, Step
            <4>2. QED
                BY <4>1 DEF NoPass
        <3>2. CASE PassStep(d)
            <4>1. \E p : p.hung = FALSE /\ Moved(d, p)
                BY <1>a, <2>3, <3>2, PassMoves DEF Pass
            <4>2. QED
                BY <1>a, <4>1 DEF Moved
        <3>3. QED
            BY <1>3, <3>1, <3>2
    <2>5. QED
        BY <1>3, <1>b, <1>c, <2>1, <2>2, <2>3, <2>4 DEF StuckInv, RunsOut
<1>4. CASE Hang /\ ~Tick
    <2>1. UNCHANGED <<at, sincePoll>> /\ (hung => hung') /\ (hung' => at \in Calls)
        BY <1>4 DEF Hang, StuckInv, health
    <2>2. \A c \in Clusters : \/ pass'[c] = pass[c]
                              \/ /\ pass'[c] = [pass[c] EXCEPT !.hung = TRUE]
                                 /\ Counts(pass[c]) /\ ~pass[c].hung
        BY <1>4, <1>a DEF Hang, Counts
    <2>3. ASSUME NEW c \in Clusters
          PROVE  (pass'[c].hung => Started(c)') /\ (pass[c].hung => PassRunsOut(c))
        BY <1>4, <1>a, <1>b, <2>2 DEF Started, Counts, Pass
    <2>4. hung => LoopRunsOut
        BY <1>a, <1>4, <2>1 DEF LoopRunsOut
    <2>5. QED
        BY <2>1, <2>3, <2>4 DEF StuckInv, RunsOut
<1>5. CASE Restart
    BY <1>5 DEF Restart, StuckInv, NoPass
<1>6. QED
    BY <1>1, <1>2, <1>3, <1>4, <1>5 DEF Next

\* What never returns is there until the process is restarted, and grows older until
\* then: the age of the last poll, or of the pass, goes up with every tick of time to
\* the one at which liveness fails, whatever else the process does (isLive).
THEOREM WhatHangsRunsOut == Spec => [][RunsOut \/ Restart]_vars
<1>1. TypeOK /\ StuckInv /\ [Next]_vars => StuckInv'
    <2>1. TypeOK /\ StuckInv /\ UNCHANGED vars => StuckInv'
        BY DEF vars, loop, StuckInv, Started, Counts
    <2>2. QED
        BY <2>1, StuckStays
<1>2. TypeOK /\ StuckInv /\ [Next]_vars => [RunsOut \/ Restart]_vars
    BY StuckStays
<1>3. QED
    BY <1>1, <1>2, StuckFirst, HealthTypeCorrect, PTL DEF Spec
=============================================================================
