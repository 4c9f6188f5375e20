------------------------------- MODULE Remove -------------------------------
(***************************************************************************)
(* `k2a-token-sync remove` (executeRemoval), one call to an API server at a *)
(* time, beside a daemon in the middle of a pass over what is being removed *)
(* (the pass is Reconcile's) or about to put another connection in service. *)
(* The command can fail in part, be killed, and be run again.              *)
(***************************************************************************)
EXTENDS Sequences, FiniteSetsExt

CONSTANTS
    MaxTokens,    \* bound: tokens told apart at one time
    MaxFaults,    \* bound: calls that fail, answers lost and commands killed
    MaxRuns,      \* bound: times the command is run
    MaxPasses     \* bound: passes of the daemon over this cluster

ASSUME RemoveAssumption ==
    /\ MaxTokens \in Nat /\ MaxTokens >= 4    \* as Reconcile has it
    /\ MaxFaults \in Nat /\ MaxRuns \in Nat /\ MaxPasses \in Nat

VARIABLES
    account, created, binding, bound, stored, secret, status, pass, faults,  \* Reconcile's
    identity,     \* downstream: incarnation of this tool's own ServiceAccount, 0 if absent
    grants,       \* downstream: which of its role and binding there are
    connection,   \* the ClusterConnection; "broken" if its spec resolves to nothing
    listed,       \* whether the daemon's last List had it, resolved
    rival,        \* what another connection claims that this one claims too
    far,          \* the downstream cluster: it "answers", is "silent", or is to be "skipped"
    unmanaged,    \* objects without this tool's label
    theirs,       \* Secrets that name another cluster as their owner
    removal,      \* the command
    runs, passes, \* how much of each bound is used
    late,         \* history: objects written since the command last read them
    forecast      \* history: what the last preview said, while nothing has changed

local == <<stored, secret, connection>>
downstream == <<account, binding, identity, grants>>
labels == <<unmanaged, theirs>>
history == <<late, forecast>>
vars == <<local, downstream, created, bound, status, pass, faults, listed, rival, far, labels,
          removal, runs, passes, history>>

OwnGrants == {"ownRole", "ownBinding"}

\* The own credential is worth what is left of the identity behind it.  A pass
\* creates one account at most, which bounds the incarnations.
Owner == IF grants = OwnGrants THEN identity ELSE 0

R == INSTANCE Reconcile WITH
         owner <- Owner, want <- 1, seen <- {}, events <- 0, restarts <- 0,
         Events <- {}, MaxWants <- 1, MaxEvents <- MaxPasses, MaxRestarts <- 0

-----------------------------------------------------------------------------
(* What there is to remove.                                                *)

\* The order of the five steps; the last is the registration once more.
Order == <<"connection", "registration", "credential", "binding", "account", "ownBinding",
           "ownRole", "ownAccount", "recheck">>
Downstream == {"binding", "account", "ownBinding", "ownRole", "ownAccount"}
Objects == {"connection", "registration", "credential"} \cup Downstream

Present(x) ==
    CASE x = "connection" -> connection # "absent"
      [] x = "registration" -> secret # R!NoSecret
      [] x = "credential" -> stored # 0
      [] x = "binding" -> binding # "absent"
      [] x = "account" -> account # 0
      [] x = "ownAccount" -> identity # 0
      [] x \in OwnGrants -> x \in grants

Erase(x) ==
    /\ connection' = IF x = "connection" THEN "absent" ELSE connection
    /\ secret' = IF x = "registration" THEN R!NoSecret ELSE secret
    /\ stored' = IF x = "credential" THEN 0 ELSE stored
    /\ binding' = IF x = "binding" THEN "absent" ELSE binding
    /\ account' = IF x = "account" THEN 0 ELSE account
    /\ identity' = IF x = "ownAccount" THEN 0 ELSE identity
    /\ grants' = grants \ {x}
    /\ unmanaged' = unmanaged \ {x} /\ theirs' = theirs \ {x}

\* The command: whether it is a preview, what it found out before it deletes
\* anything, the object it is at and whether it has found it there, and what
\* failed.  `quiet` is history: no call has failed and nobody else has written
\* anything since it began.
NoRemoval ==
    [pc |-> "idle", dry |-> FALSE, fallback |-> FALSE, misnamed |-> FALSE, collides |-> FALSE,
     refused |-> {}, step |-> 1, found |-> FALSE, failed |-> {}, quiet |-> TRUE]
NoForecast == [misnamed |-> FALSE, said |-> {"nothing"}]

\* A cluster in service, or bootstrapped and not yet published; what was deleted
\* by hand, found broken or never this tool's; and a connection at odds with it.
Init ==
    /\ account = 1 /\ identity = 2 /\ created = 2
    /\ binding = "ok" /\ grants = OwnGrants
    /\ stored = identity
    /\ bound = [t \in R!Tokens |-> IF t = 1 THEN account ELSE 0]
    /\ \/ /\ secret = [credential |-> 1, labelled |-> TRUE, want |-> 1]
          /\ status = [credential |-> 1, want |-> 1, aged |-> FALSE, ready |-> "Ready"]
       \/ secret = R!NoSecret /\ status = R!NoStatus
    /\ pass = R!NoPass /\ faults = 0
    /\ connection \in {"valid", "broken", "absent"} /\ listed \in BOOLEAN
    /\ connection = "valid" => listed
    /\ rival \in {"none", "endpoint", "secret"}
    /\ far \in {"answers", "silent", "skipped"}
    /\ unmanaged \in {{}} \cup {{x} : x \in {y \in Objects \ {"connection"} : Present(y)}}
    /\ theirs \in {{}} \cup {{x} : x \in {y \in {"registration", "credential"} : Present(y)}}
    /\ unmanaged \cap theirs = {}
    /\ removal = NoRemoval /\ runs = 0 /\ passes \in 0..MaxPasses
    /\ late = {} /\ forecast = NoForecast

-----------------------------------------------------------------------------
(* The command.                                                            *)

\* With --dry-run, or with --confirm.
Start ==
    /\ removal.pc \in {"idle", "done"} /\ runs < MaxRuns
    /\ runs' = runs + 1
    /\ \E dry \in BOOLEAN : removal' = [NoRemoval EXCEPT !.pc = "resolve", !.dry = dry]
    /\ forecast' = IF removal.dry THEN forecast ELSE NoForecast
    /\ UNCHANGED <<local, downstream, created, bound, status, pass, faults, listed, rival, far, labels,
                   passes, late>>

\* Interrupted; or one of the first two reads failed, which ends it too.
Killed ==
    /\ removal.pc \notin {"idle", "done"}
    /\ R!Fault /\ removal' = NoRemoval
    /\ UNCHANGED <<local, downstream, created, bound, status, pass, listed, rival, far, labels,
                   runs, passes, history>>

\* resolveRemovalCluster: the names come from the ClusterConnection, or from
\* flags and defaults, which need not be the names there were.
ResolveWithoutEndpoint ==      \* mutant: the guard is asked whatever was read
    /\ removal.pc = "resolve"
    /\ \E misnamed \in BOOLEAN :
           /\ misnamed => connection # "valid"
           /\ removal' = [removal EXCEPT !.fallback = connection # "valid", !.misnamed = misnamed,
                              !.pc = IF far = "skipped" THEN "registration" ELSE "collide"]
    /\ UNCHANGED <<local, downstream, created, bound, status, pass, faults, listed, rival, far,
                   labels, runs, passes, history>>
Resolve ==
    /\ removal.pc = "resolve"
    /\ \E misnamed \in BOOLEAN :
           /\ misnamed => connection # "valid"
           /\ removal' = [removal EXCEPT !.fallback = connection # "valid", !.misnamed = misnamed,
                              !.pc = IF far = "skipped" \/ connection # "valid" THEN "registration"
                                     ELSE "collide"]
    /\ UNCHANGED <<local, downstream, created, bound, status, pass, faults, listed, rival, far, labels,
                   runs, passes, history>>

\* endpointCollision.  Both connections are held back as contested; that is no
\* reason to overlook either.
CollisionAmongSound ==      \* mutant: what List marked invalid is passed over
    rival = "endpoint" /\ connection # "valid"
Collision == rival = "endpoint"

Collide ==
    /\ removal.pc = "collide"
    /\ removal' = [removal EXCEPT !.collides = Collision, !.pc = "registration"]
    /\ UNCHANGED <<local, downstream, created, bound, status, pass, faults, listed, rival, far, labels,
                   runs, passes, history>>

\* What the command finds under the names it has.
Addressed(x) == Present(x) /\ (removal.misnamed => x \in {"connection", "credential"})

Failing(x) == [removal EXCEPT !.failed = @ \cup {x}]
Unquiet(r) == [r EXCEPT !.quiet = FALSE]

\* The guards on the two Secrets, read before anything is deleted: one that is
\* not this tool's, that another cluster owns or that cannot be read is refused.
Inspected(x, refuse) ==
    [removal EXCEPT !.refused = IF refuse THEN @ \cup {x} ELSE @,
                    !.pc = IF x = "registration" THEN "credential" ELSE "teardown"]
Inspect(x) ==
    /\ removal.pc = x
    /\ \/ removal' = Inspected(x, Addressed(x) /\ x \in unmanaged \cup theirs) /\ UNCHANGED faults
       \/ R!Fault /\ removal' = Unquiet(Inspected(x, TRUE))
    /\ UNCHANGED <<local, downstream, created, bound, status, pass, listed, rival, far, labels,
                   runs, passes, history>>

\* What a teardown does not get to: refused objects, the downstream half if it is
\* shared or to be left, and the last look at a registration it left alone or
\* only previewed.
PassedOverUnguarded(r) ==      \* mutant: the last look is at any registration
    r.refused \cup (IF far = "skipped" \/ r.collides THEN Downstream ELSE {})
              \cup (IF r.dry THEN {"recheck"} ELSE {})
PassedOver(r) ==
    r.refused \cup (IF far = "skipped" \/ r.collides THEN Downstream ELSE {})
              \cup (IF r.dry \/ "registration" \in r.refused THEN {"recheck"} ELSE {})

Onward(r) ==
    LET ahead == {i \in r.step + 1 .. Len(Order) : Order[i] \notin PassedOver(r)}
    IN  IF ahead = {} THEN [r EXCEPT !.pc = "done", !.found = FALSE]
        ELSE [r EXCEPT !.step = Min(ahead), !.found = FALSE]

\* What is listed at the end.  Empty, and the command says it is done.
Remaining(r) == r.refused \cup r.failed \cup (IF r.collides THEN {"downstream"} ELSE {})

Target == IF Order[removal.step] = "recheck" THEN "registration" ELSE Order[removal.step]

\* The first half of each Remove function, and what comes of it.  The last look
\* has no case for an object without the label.
FoundPreviewFirst(x) ==      \* mutant: a preview asks no further than that it is there
    IF ~Addressed(x) \/ removal.dry THEN Onward(removal)
    ELSE IF x \notin unmanaged THEN [removal EXCEPT !.found = TRUE]
    ELSE IF Order[removal.step] = "recheck" THEN Onward(removal)
    ELSE Onward(Failing(x))
FoundUnownedIsFine(x) ==      \* mutant: what lacks the label is not listed
    IF ~Addressed(x) \/ removal.dry \/ x \in unmanaged THEN Onward(removal)
    ELSE [removal EXCEPT !.found = TRUE]
Found(x) ==
    IF ~Addressed(x) THEN Onward(removal)
    ELSE IF x \in unmanaged
         THEN Onward(IF Order[removal.step] = "recheck" THEN removal ELSE Failing(x))
    ELSE IF removal.dry THEN Onward(removal)
    ELSE [removal EXCEPT !.found = TRUE]

Look ==
    /\ removal.pc = "teardown" /\ ~removal.found
    /\ \/ /\ Target \in Downstream => far = "answers"
          /\ removal' = Found(Target)
          /\ late' = late \ {Target}
          /\ UNCHANGED faults
       \/ /\ Target \in Downstream /\ far # "answers"
          /\ removal' = Onward(Failing(Target))
          /\ UNCHANGED <<faults, late>>
       \/ /\ R!Fault
          /\ removal' = Unquiet(Onward(Failing(Target)))
          /\ UNCHANGED late
    /\ forecast' = IF removal'.pc = "done" /\ removal'.dry /\ removal'.quiet
                   THEN [misnamed |-> removal.misnamed, said |-> Remaining(removal')]
                   ELSE forecast
    /\ UNCHANGED <<local, downstream, created, bound, status, pass, listed, rival, far, labels,
                   runs, passes>>

\* The second half: by name, whatever is there by then.
Delete ==
    /\ removal.pc = "teardown" /\ removal.found
    /\ \/ Erase(Target) /\ removal' = Onward(removal) /\ UNCHANGED faults
       \/ Erase(Target) /\ R!Fault /\ removal' = Unquiet(Onward(Failing(Target)))
       \/ UNCHANGED <<local, downstream, labels>> /\ R!Fault
          /\ removal' = Unquiet(Onward(Failing(Target)))
    /\ UNCHANGED <<created, bound, status, pass, listed, rival, far, runs, passes, history>>

-----------------------------------------------------------------------------
(* The daemon.                                                             *)

Poll ==
    /\ listed # (connection = "valid")
    /\ listed' = (connection = "valid")
    /\ UNCHANGED <<local, downstream, created, bound, status, pass, faults, rival, far, labels, removal,
                   runs, passes, history>>

\* A pass may begin until a List has shown that the connection is gone, and one
\* that has begun goes on.
PassReads ==
    /\ UNCHANGED <<connection, identity, grants, listed, rival, far, labels, removal, runs, history>>
    /\ \/ listed /\ rival = "none" /\ R!Begin /\ passes < MaxPasses /\ passes' = passes + 1
       \/ /\ \/ R!Access \/ R!ReadCA \/ R!SelfMint \/ R!SelfVerify \/ R!GetAccount
             \/ R!GetBinding \/ R!Probe \/ R!Mint \/ R!Verify \/ R!Report
             \/ R!CallFails \/ R!RenewalFails
          /\ UNCHANGED passes

\* Somebody other than the command has written x.
Written(x) ==
    /\ late' = late \cup {x}
    /\ removal' = Unquiet(removal)
    /\ forecast' = NoForecast
\* ... with this tool's label, and this cluster's name.
Marked(x) == unmanaged' = unmanaged \ {x} /\ theirs' = theirs \ {x}

\* The registration carries label and owner, a Secret made by the credential's
\* apply has neither; what exists downstream is not written at all.
PassWrites ==
    /\ UNCHANGED <<connection, identity, grants, listed, rival, far, runs, passes>>
    /\ \/ (R!Register \/ R!Publish) /\ Written("registration") /\ Marked("registration")
       \/ /\ R!ApplyCredential /\ Written("registration")
          /\ unmanaged' = IF secret = R!NoSecret THEN unmanaged \cup {"registration"} ELSE unmanaged
          /\ UNCHANGED theirs
       \/ R!SelfStore /\ Written("credential") /\ Marked("credential")
       \/ /\ R!CreateAccount \/ R!CreateBinding
          /\ IF account' # account THEN Written("account")
             ELSE IF binding' # binding THEN Written("binding")
             ELSE UNCHANGED <<removal, history>>
          /\ UNCHANGED labels

\* The other connection's pass, once the daemon no longer sees this one's claim:
\* it is published in the Secret both of them named.
RivalPublishes ==
    /\ rival = "secret" /\ ~listed
    /\ secret' = [credential |-> R!Foreign, labelled |-> TRUE, want |-> 1]
    /\ secret' # secret \/ "registration" \notin theirs
    /\ Written("registration")
    /\ unmanaged' = unmanaged \ {"registration"} /\ theirs' = theirs \cup {"registration"}
    /\ UNCHANGED <<stored, connection, downstream, created, bound, status, pass, faults, listed,
                   rival, far, runs, passes>>

-----------------------------------------------------------------------------

Command ==
    \/ Start \/ Killed \/ Resolve \/ Collide \/ Inspect("registration") \/ Inspect("credential")
    \/ Look \/ Delete

Next == Command \/ Poll \/ PassReads \/ PassWrites \/ RivalPublishes

Spec == Init /\ [][Next]_vars

-----------------------------------------------------------------------------
(* Properties.                                                             *)

Removals ==
    [pc : {"idle", "resolve", "collide", "registration", "credential", "teardown", "done"},
     dry : BOOLEAN, fallback : BOOLEAN, misnamed : BOOLEAN, collides : BOOLEAN,
     refused : SUBSET {"registration", "credential"}, step : 1..Len(Order), found : BOOLEAN,
     failed : SUBSET Objects, quiet : BOOLEAN]

\* The state is well formed: only what exists has labels, one verdict per label;
\* endpoints are only compared where one was read; and the part that is
\* Reconcile's is well formed as that module has it.
TypeOK ==
    /\ R!TypeOK
    /\ identity \in 0..2 /\ grants \subseteq OwnGrants
    /\ connection \in {"valid", "broken", "absent"} /\ listed \in BOOLEAN
    /\ rival \in {"none", "endpoint", "secret"} /\ far \in {"answers", "silent", "skipped"}
    /\ \A x \in unmanaged \cup theirs : x \in Objects /\ Present(x)
    /\ unmanaged \cap theirs = {}
    /\ removal \in Removals
    /\ removal.collides => ~removal.fallback /\ far # "skipped"
    /\ runs \in 0..MaxRuns /\ passes \in 0..MaxPasses /\ late \subseteq Objects

Done == removal.pc = "done" /\ ~removal.dry /\ Remaining(removal) = {}

\* When the command says it is done, under names that were the right ones, each
\* object it was to remove is gone, or somebody wrote it after the command last
\* read it; but for a registration that lacks the label when it is looked at for
\* the last time.
DoneMeansGone ==
    Done /\ ~removal.misnamed =>
        \A x \in Objects \ late :
            \/ ~Present(x)
            \/ x \in Downstream /\ far = "skipped"
            \/ x = "registration" /\ x \in unmanaged

\* "Will this work": a command run as it was previewed, with nothing changed
\* in between and no call failing, leaves what the preview said it would.
PreviewTold ==
    /\ removal.pc = "done" /\ ~removal.dry /\ removal.quiet
    /\ forecast # NoForecast /\ forecast.misnamed = removal.misnamed
    => Remaining(removal) = forecast.said

Removes(x) == Present(x) /\ ~Present(x)'

\* A refused object survives the run, through the last look too, and nothing is
\* deleted that lacks the label, whatever passes write meanwhile.
SparesRefused ==
    [][\A x \in Objects : Removes(x) => x \notin removal.refused \cup unmanaged]_vars

\* The downstream identities of a cluster that another connection registers too
\* survive, unless the connection's own record of its endpoint is gone.
SparesShared ==
    [][\A x \in Downstream : Removes(x) => rival # "endpoint" \/ removal.fallback]_vars

-----------------------------------------------------------------------------
(* What the documentation and the output say and the code does not do.     *)

\* README: anything left behind is listed at the end.
LeftIsListed ==
    Done /\ ~removal.misnamed =>
        \A x \in Objects \ late : ~Present(x) \/ (x \in Downstream /\ far = "skipped")

\* README: a Secret whose recorded owner names a different cluster is left alone.
\* The command does not go on to delete what it has just read as another's.
SparesNeighbours == [][~removal.found /\ removal'.found => Target \notin theirs]_vars

\* README and the command's advice: identities that another connection's cluster
\* shares are left in place, and the command can be run again once one connection
\* remains.
SparesSharedAgain == [][\A x \in Downstream : Removes(x) => rival # "endpoint"]_vars
=============================================================================
