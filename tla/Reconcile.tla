------------------------------ MODULE Reconcile ------------------------------
(***************************************************************************)
(* One cluster's reconciliation (internal/reconcile), pass after pass: what *)
(* a pass reads, mints, proves and writes, one call to an API server at a   *)
(* time, while people change the same objects, calls fail, answers are lost *)
(* and the process dies.                                                    *)
(*                                                                         *)
(* A token is bound to the incarnation of the ServiceAccount it was issued  *)
(* for: it authenticates while that incarnation is there.  One that the     *)
(* endpoint never accepts is bound to incarnation zero, which none is.      *)
(***************************************************************************)
EXTENDS Naturals

CONSTANTS
    Events,       \* what people may do (see Environment)
    MaxTokens,    \* bound: tokens told apart at one time
    MaxWants,     \* bound: versions of what is to be published
    MaxEvents,    \* bound: things people do
    MaxFaults,    \* bound: calls that fail, answers lost, tokens that do not work
    MaxRestarts   \* bound: restarts of the process

ASSUME ReconcileAssumption ==
    /\ MaxTokens \in Nat /\ MaxTokens >= 4    \* secret, status, and two in a pass
    /\ MaxWants \in Nat \ {0}
    /\ MaxEvents \in Nat /\ MaxFaults \in Nat /\ MaxRestarts \in Nat

VARIABLES
    account,   \* downstream: incarnation of ArgoCD's ServiceAccount, 0 if absent
    owner,     \* downstream: incarnation of this tool's own, 0 if absent
    created,   \* how many incarnations there have been
    binding,   \* downstream: ArgoCD's ClusterRoleBinding
    bound,     \* per token issued for ArgoCD: the incarnation it is bound to
    stored,    \* <name>-credentials: incarnation its token is bound to, 0 if none
    secret,    \* cluster-<name>, the Secret ArgoCD reads
    want,      \* version of what is to be published, as a fingerprint records it
    status,    \* the ClusterConnection's status
    pass,      \* the pass under way
    seen,      \* history: what people have done
    events, faults, restarts   \* how much of each bound is used

vars == <<account, owner, created, binding, bound, stored, secret, want, status, pass,
          seen, events, faults, restarts>>

cluster == <<account, owner, created, binding>>
used == <<seen, events, restarts>>

-----------------------------------------------------------------------------

Tokens == 1..MaxTokens
NoToken == 0
Foreign == MaxTokens + 1       \* a credential somebody else wrote
Incarnations == 0..(2 + MaxEvents)      \* each event does away with one at most

\* The Secret: its credential half, and the registration half that makes it a
\* cluster to ArgoCD.
Secret == [credential : Tokens \cup {NoToken, Foreign}, labelled : BOOLEAN, want : 0..MaxWants]
NoSecret == [credential |-> NoToken, labelled |-> FALSE, want |-> 0]

\* The fingerprint, recorded whole or not at all (all zero), whether its token is
\* past half its lifetime, and the Ready condition.
Status == {s \in [credential : Tokens \cup {NoToken, Foreign}, want : 0..MaxWants,
                  aged : BOOLEAN, ready : {"Unset", "Ready", "Failed"}] :
               s.credential = NoToken <=> s.want = 0}
NoStatus == [credential |-> NoToken, want |-> 0, aged |-> FALSE, ready |-> "Unset"]

\* A pass: the call it is about to make, the configuration it was given, the
\* own credential it uses and the one it would replace it with, whether it
\* recreated the ServiceAccount, the token it minted, the status it carries,
\* whether renewing its own credential failed, and how it went.  `quiet` is
\* history: nobody else has changed anything since it began.
Calls == {"access", "ca", "selfMint", "selfVerify", "selfStore", "getAccount", "createAccount",
          "getBinding", "createBinding", "probe", "register", "mint", "verify", "credential",
          "publish"}
Pass == [pc : Calls \cup {"idle", "report"}, want : 0..MaxWants, own : Incarnations,
         fresh : Incarnations, repaired : BOOLEAN, token : Tokens \cup {NoToken},
         work : Status, failing : BOOLEAN, ok : BOOLEAN, quiet : BOOLEAN]
NoPass == [pc |-> "idle", want |-> 0, own |-> 0, fresh |-> 0, repaired |-> FALSE,
           token |-> NoToken, work |-> NoStatus, failing |-> FALSE, ok |-> FALSE, quiet |-> FALSE]

TypeOK ==
    /\ account \in Incarnations /\ owner \in Incarnations /\ created \in Incarnations
    /\ binding \in {"ok", "absent", "other"}
    /\ bound \in [Tokens -> Incarnations]
    /\ stored \in Incarnations
    /\ secret \in Secret
    /\ want \in 1..MaxWants
    /\ status \in Status
    /\ pass \in Pass
    /\ seen \subseteq Events
    /\ events \in 0..MaxEvents /\ faults \in 0..MaxFaults /\ restarts \in 0..MaxRestarts

\* Bootstrap has run, and nothing else has.
Init ==
    /\ account = 1 /\ owner = 2 /\ created = 2
    /\ binding = "ok"
    /\ bound = [t \in Tokens |-> 0]
    /\ stored = owner
    /\ secret = NoSecret
    /\ want = 1
    /\ status = NoStatus
    /\ pass = NoPass
    /\ seen = {} /\ events = 0 /\ faults = 0 /\ restarts = 0

\* Does a credential of this tool's own authenticate?  Does one of ArgoCD's?
Works(own) == own # 0 /\ own = owner
Live(token) == token \in Tokens /\ bound[token] # 0 /\ bound[token] = account

InUse == {secret.credential, status.credential, pass.work.credential, pass.token}
NewToken == CHOOSE t \in Tokens \ InUse : \A u \in Tokens \ InUse : t <= u

-----------------------------------------------------------------------------
(* A call and its answer.                                                  *)

Failed == [pass EXCEPT !.pc = "report", !.ok = FALSE]

\* Renewing the own credential is not what the pass is for: it goes on.
Unrenewed == [pass EXCEPT !.pc = "getAccount", !.failing = TRUE]

Fault == faults < MaxFaults /\ faults' = faults + 1

\* The call was carried out; its answer arrives, or is lost.
Answer(next) ==
    \/ pass' = next /\ UNCHANGED faults
    \/ Fault /\ pass' = Failed

\* The call was not carried out.
CallFails ==
    /\ pass.pc \in Calls \ {"selfMint", "selfVerify", "selfStore"}
    /\ Fault /\ pass' = Failed
    /\ UNCHANGED <<cluster, bound, stored, secret, want, status, used>>

RenewalFails ==
    /\ pass.pc \in {"selfMint", "selfVerify", "selfStore"}
    /\ Fault /\ pass' = Unrenewed
    /\ UNCHANGED <<cluster, bound, stored, secret, want, status, used>>

-----------------------------------------------------------------------------
(* The pass.                                                               *)

Begin ==
    /\ pass.pc = "idle"
    /\ pass' = [NoPass EXCEPT !.pc = "access", !.want = want, !.work = status, !.quiet = TRUE]
    /\ UNCHANGED <<cluster, bound, stored, secret, want, status, faults, used>>

\* The stored credential, if there is one.
Access ==
    /\ pass.pc = "access"
    /\ pass' = IF stored = 0 THEN Failed ELSE [pass EXCEPT !.pc = "ca", !.own = stored]
    /\ UNCHANGED <<cluster, bound, stored, secret, want, status, faults, used>>

\* The cluster's CA, the first call made with it; and whether it is itself due
\* for renewal.
ReadCA ==
    /\ pass.pc = "ca"
    /\ \E next \in {"getAccount", "selfMint"} :
           pass' = IF Works(pass.own) THEN [pass EXCEPT !.pc = next] ELSE Failed
    /\ UNCHANGED <<cluster, bound, stored, secret, want, status, faults, used>>

SelfMint ==
    /\ pass.pc = "selfMint"
    /\ \/ /\ Works(pass.own)
          /\ pass' = [pass EXCEPT !.pc = "selfVerify", !.fresh = owner]
          /\ UNCHANGED faults
       \/ /\ Works(pass.own)
          /\ Fault /\ pass' = [pass EXCEPT !.pc = "selfVerify", !.fresh = 0]
       \/ /\ ~Works(pass.own)
          /\ pass' = Unrenewed
          /\ UNCHANGED faults
    /\ UNCHANGED <<cluster, bound, stored, secret, want, status, used>>

SelfVerifySkipped ==      \* mutant: the replacement is stored untried
    /\ pass.pc = "selfVerify"
    /\ pass' = [pass EXCEPT !.pc = "selfStore"]
    /\ UNCHANGED <<cluster, bound, stored, secret, want, status, faults, used>>
SelfVerify ==
    /\ pass.pc = "selfVerify"
    /\ pass' = IF Works(pass.fresh) THEN [pass EXCEPT !.pc = "selfStore"] ELSE Unrenewed
    /\ UNCHANGED <<cluster, bound, stored, secret, want, status, faults, used>>

SelfStore ==
    /\ pass.pc = "selfStore"
    /\ stored' = pass.fresh
    /\ \/ pass' = [pass EXCEPT !.pc = "getAccount"] /\ UNCHANGED faults
       \/ Fault /\ pass' = Unrenewed
    /\ UNCHANGED <<cluster, bound, secret, want, status, used>>

\* EnsureServiceAccount: read it ...
GetAccount ==
    /\ pass.pc = "getAccount"
    /\ pass' = IF ~Works(pass.own) THEN Failed
               ELSE IF account = 0 THEN [pass EXCEPT !.pc = "createAccount"]
               ELSE [pass EXCEPT !.pc = "getBinding"]
    /\ UNCHANGED <<cluster, bound, stored, secret, want, status, faults, used>>

\* ... and create it: a new incarnation, unless somebody was quicker.
CreateAccount ==
    /\ pass.pc = "createAccount"
    /\ IF ~Works(pass.own) THEN pass' = Failed /\ UNCHANGED <<account, created, faults>>
       ELSE IF account # 0
            THEN pass' = [pass EXCEPT !.pc = "getBinding"] /\ UNCHANGED <<account, created, faults>>
            ELSE /\ account' = created + 1 /\ created' = created + 1
                 /\ Answer([pass EXCEPT !.pc = "getBinding", !.repaired = TRUE])
    /\ UNCHANGED <<owner, binding, bound, stored, secret, want, status, used>>

\* EnsureClusterRoleBinding: one that points elsewhere is left to people.
GetBinding ==
    /\ pass.pc = "getBinding"
    /\ pass' = IF ~Works(pass.own) \/ binding = "other" THEN Failed
               ELSE IF binding = "absent" THEN [pass EXCEPT !.pc = "createBinding"]
               ELSE [pass EXCEPT !.pc = "probe"]
    /\ UNCHANGED <<cluster, bound, stored, secret, want, status, faults, used>>

CreateBinding ==
    /\ pass.pc = "createBinding"
    /\ IF ~Works(pass.own) THEN pass' = Failed /\ UNCHANGED <<binding, faults>>
       ELSE /\ binding' = IF binding = "absent" THEN "ok" ELSE binding
            /\ Answer([pass EXCEPT !.pc = "probe"])
    /\ UNCHANGED <<account, owner, created, bound, stored, secret, want, status, used>>

\* The serving certificate will do (one that will not is a call that fails).
\* A first publication must not begin with the label.
First == pass.work.credential = NoToken /\ pass.work.want = 0

ProbeAlwaysRegisters ==      \* mutant: the label goes on first
    /\ pass.pc = "probe"
    /\ pass' = [pass EXCEPT !.pc = "register"]
    /\ UNCHANGED <<cluster, bound, stored, secret, want, status, faults, used>>
Probe ==
    /\ pass.pc = "probe"
    /\ pass' = [pass EXCEPT !.pc = IF First THEN "mint" ELSE "register"]
    /\ UNCHANGED <<cluster, bound, stored, secret, want, status, faults, used>>

\* NeedsRefresh, and the one reason that outranks what it compares.
CurrentWhateverTheIdentity(published) ==      \* mutant: a new identity is no reason
    /\ published = pass.work.credential /\ published # NoToken
    /\ pass.work.want = pass.want /\ ~pass.work.aged
CurrentIfAny(published) ==      \* mutant: any credential will do
    /\ published # NoToken
    /\ pass.work.want = pass.want /\ ~pass.work.aged /\ ~pass.repaired
CurrentHoweverOld(published) ==      \* mutant: age is no reason
    /\ published # NoToken
    /\ pass.work.credential # NoToken => published = pass.work.credential
    /\ pass.work.want = pass.want /\ ~pass.repaired
Current(published) ==
    /\ published # NoToken
    /\ pass.work.credential # NoToken => published = pass.work.credential
    /\ pass.work.want = pass.want
    /\ ~pass.work.aged
    /\ ~pass.repaired

\* ApplyRegistration: all but the credential is written, and what the Secret
\* then holds is what the server answers.
Register ==
    /\ pass.pc = "register"
    /\ secret' = [secret EXCEPT !.labelled = TRUE, !.want = pass.want]
    /\ Answer(IF Current(secret.credential) THEN [pass EXCEPT !.pc = "report", !.ok = TRUE]
              ELSE [pass EXCEPT !.pc = "mint"])
    /\ UNCHANGED <<cluster, bound, stored, want, status, used>>

\* A token for the ServiceAccount there is now, which the endpoint may refuse.
Mint ==
    /\ pass.pc = "mint"
    /\ IF ~Works(pass.own) \/ account = 0
       THEN pass' = Failed /\ UNCHANGED <<bound, faults>>
       ELSE /\ pass' = [pass EXCEPT !.pc = "verify", !.token = NewToken]
            /\ \/ bound' = [bound EXCEPT ![NewToken] = account] /\ UNCHANGED faults
               \/ Fault /\ bound' = [bound EXCEPT ![NewToken] = 0]
    /\ UNCHANGED <<cluster, stored, secret, want, status, used>>

\* verifyForArgoCD: authenticating is what counts.
VerifySkipped ==      \* mutant: what was minted is published untried
    /\ pass.pc = "verify"
    /\ pass' = [pass EXCEPT !.pc = "credential"]
    /\ UNCHANGED <<cluster, bound, stored, secret, want, status, faults, used>>
Verify ==
    /\ pass.pc = "verify"
    /\ pass' = IF Live(pass.token) THEN [pass EXCEPT !.pc = "credential"] ELSE Failed
    /\ UNCHANGED <<cluster, bound, stored, secret, want, status, faults, used>>

ApplyCredential ==
    /\ pass.pc = "credential"
    /\ secret' = [secret EXCEPT !.credential = pass.token]
    /\ Answer([pass EXCEPT !.pc = "publish"])
    /\ UNCHANGED <<cluster, bound, stored, want, status, used>>

\* The registration again, and the record of what was written, kept even if
\* something else is there already.
Recorded(token) ==
    [pass.work EXCEPT !.credential = token, !.want = pass.want, !.aged = FALSE]

PublishRecordsAnswer ==      \* mutant: what came back is recorded as published
    /\ pass.pc = "publish"
    /\ secret' = [secret EXCEPT !.labelled = TRUE, !.want = pass.want]
    /\ Answer([pass EXCEPT !.pc = "report", !.work = Recorded(secret.credential),
                           !.ok = (secret.credential = pass.token)])
    /\ UNCHANGED <<cluster, bound, stored, want, status, used>>
Publish ==
    /\ pass.pc = "publish"
    /\ secret' = [secret EXCEPT !.labelled = TRUE, !.want = pass.want]
    /\ Answer([pass EXCEPT !.pc = "report", !.work = Recorded(pass.token),
                           !.ok = (secret.credential = pass.token)])
    /\ UNCHANGED <<cluster, bound, stored, want, status, used>>

\* The recorded token may have passed half its lifetime during the pass.
AgedMeanwhile == status.aged /\ status.credential = pass.work.credential

\* The status is written, or is not (the process remembers it until it next
\* lists the objects, which is as good as written), and either way the pass is
\* over.  A pass that did its work reports otherwise while its own access is
\* running out.
Report ==
    /\ pass.pc = "report"
    /\ \/ /\ \E ready \in IF ~pass.ok THEN {"Failed"}
                          ELSE IF pass.failing THEN {"Ready", "Failed"} ELSE {"Ready"} :
                 status' = [pass.work EXCEPT !.ready = ready, !.aged = @ \/ AgedMeanwhile]
          /\ UNCHANGED faults
       \/ Fault /\ UNCHANGED status
    /\ pass' = NoPass
    /\ UNCHANGED <<cluster, bound, stored, secret, want, used>>

-----------------------------------------------------------------------------
(* Everything else that happens to these objects.                          *)

\* The recorded token passes half its lifetime.
HalfLife ==
    /\ status.credential # NoToken /\ ~status.aged
    /\ status' = [status EXCEPT !.aged = TRUE]
    /\ UNCHANGED <<cluster, bound, stored, secret, want, pass, faults, used>>

Meddle(event) ==
    /\ event \in Events /\ events < MaxEvents /\ events' = events + 1
    /\ seen' = seen \cup {event}
    /\ pass' = [pass EXCEPT !.quiet = FALSE]
    /\ UNCHANGED <<bound, restarts, faults>>

DeleteAccount ==
    /\ Meddle("delete account") /\ account # 0
    /\ account' = 0
    /\ UNCHANGED <<owner, created, binding, stored, secret, want, status>>

DeleteBinding ==
    /\ Meddle("delete binding") /\ binding # "absent"
    /\ binding' = "absent"
    /\ UNCHANGED <<account, owner, created, stored, secret, want, status>>

Rebind ==
    /\ Meddle("rebind")
    /\ binding' \in {"ok", "other"} \ {binding}
    /\ UNCHANGED <<account, owner, created, stored, secret, want, status>>

DeleteSecret ==
    /\ Meddle("delete secret") /\ secret # NoSecret
    /\ secret' = NoSecret
    /\ UNCHANGED <<cluster, stored, want, status>>

OverwriteSecret ==
    /\ Meddle("overwrite secret") /\ secret.credential # Foreign
    /\ secret' = [secret EXCEPT !.credential = Foreign]
    /\ UNCHANGED <<cluster, stored, want, status>>

Edit ==
    /\ Meddle("edit") /\ want < MaxWants
    /\ want' = want + 1
    /\ UNCHANGED <<cluster, stored, secret, status>>

LoseStatus ==
    /\ Meddle("lose status") /\ status # NoStatus
    /\ status' = NoStatus
    /\ UNCHANGED <<cluster, stored, secret, want>>

\* The own ServiceAccount is deleted: how this tool's access is revoked ...
Revoke ==
    /\ Meddle("revoke") /\ owner # 0
    /\ owner' = 0
    /\ UNCHANGED <<account, created, binding, stored, secret, want, status>>

\* ... and bootstrap run again: both identities are there, and a credential
\* that works.
Bootstrap ==
    /\ Meddle("bootstrap")
    /\ owner' = IF owner = 0 THEN created + 1 ELSE owner
    /\ account' = IF account = 0 THEN created + (IF owner = 0 THEN 2 ELSE 1) ELSE account
    /\ created' = created + (IF owner = 0 THEN 1 ELSE 0) + (IF account = 0 THEN 1 ELSE 0)
    /\ binding # "other"
    /\ binding' = "ok"
    /\ stored' = owner'
    /\ UNCHANGED <<secret, want, status>>

Restart ==
    /\ restarts < MaxRestarts /\ restarts' = restarts + 1
    /\ pass' = NoPass
    /\ UNCHANGED <<cluster, bound, stored, secret, want, status, seen, events, faults>>
-----------------------------------------------------------------------------

Step ==
    \/ Begin \/ Access \/ ReadCA \/ SelfMint \/ SelfVerify \/ SelfStore
    \/ GetAccount \/ CreateAccount \/ GetBinding \/ CreateBinding \/ Probe
    \/ Register \/ Mint \/ Verify \/ ApplyCredential \/ Publish \/ Report

Environment ==
    \/ DeleteAccount \/ DeleteBinding \/ Rebind \/ DeleteSecret \/ OverwriteSecret
    \/ Edit \/ LoseStatus \/ Revoke \/ Bootstrap \/ Restart

Next == Step \/ CallFails \/ RenewalFails \/ HalfLife \/ Environment

Spec == Init /\ [][Next]_vars

\* Passes follow one another, and every call has a deadline.
FairSpec == Spec /\ WF_vars(Step)

\* Nothing cut a pass short and nobody else recreated an identity: what a pass
\* found out, it was there to act upon.
Uncut == faults = 0 /\ restarts = 0 /\ seen \cap {"rebind", "bootstrap"} = {}

\* Where that is not so, a token grows old.
AgeingSpec == FairSpec /\ WF_vars(~Uncut /\ HalfLife)

-----------------------------------------------------------------------------
(* Properties.                                                             *)

\* No write of this tool's replaces a credential that authenticates with one
\* that does not, whatever is deleted between the proof and the write
\* (verifyForArgoCD).
NeverForTheWorse ==
    [][/\ pass.pc = "credential" /\ secret'.credential # secret.credential
       /\ secret'.credential \in Tokens /\ Live(secret.credential)
       => Live(secret'.credential)]_vars

\* Renewal never costs this tool its own access, whatever fails on the way: as
\* long as its identity is left alone, the stored credential works.
NotLockedOut == "revoke" \notin seen => Works(stored)

\* No pass, however it is interfered with, comes to report success over a
\* credential that was not minted here: neither by finding it current, now or
\* in a later pass, nor by taking it for the one it wrote.
NoSuccessOverForeign ==
    [][~pass.ok /\ pass'.ok => secret'.credential \in Tokens]_vars

\* A pass that reports success, with nobody else at work meanwhile, leaves
\* ArgoCD the registration it was given, with the credential it recorded, for an
\* identity that is bound: what Scheduler's PassReconcile relies on, and more.
SuccessIsPublished ==
    pass.pc = "report" /\ pass.ok /\ pass.quiet =>
        /\ secret.labelled /\ secret.want = pass.want /\ pass.work.want = pass.want
        /\ secret.credential = pass.work.credential /\ secret.credential # NoToken
        /\ account # 0 /\ binding = "ok"

\* ... and that credential authenticates: a pass that recreates the
\* ServiceAccount reissues at once, whatever the comparison with the record says.
Alive == pass.pc = "report" /\ pass.ok /\ pass.quiet => Live(secret.credential)
SuccessIsAlive == Uncut => Alive

\* ArgoCD never sees a cluster it has no credential for, unless somebody deletes
\* the Secret: a first publication ends with the label, however often it is
\* begun again.
Bare == secret.labelled /\ secret.credential = NoToken
NeverBare == "delete secret" \notin seen => ~Bare

\* What ArgoCD has is right.
Healthy ==
    /\ account # 0 /\ binding = "ok"
    /\ secret.labelled /\ secret.want = want
    /\ Live(secret.credential)

\* Once people leave the objects alone, with this tool's own access intact and
\* no binding that points elsewhere, what ArgoCD has comes right and stays right:
\* without waiting for a token to age where nothing cut a pass short.
Heals == <>[](Works(stored) /\ binding # "other") => <>[]Healthy

-----------------------------------------------------------------------------
(* What the documentation says and the code does not do.                   *)

\* README: a recreated ServiceAccount forces an immediate reissue.  A pass that
\* reports success leaves ArgoCD a token that authenticates, also after one that
\* recreated the account and failed.
ForcesReissue == Alive

\* renewSelfCredential: the verification is what makes self-renewal safe.  While
\* the identity bootstrap gave this tool is there, the stored credential works.
SelfRenewalSafe == owner # 0 => Works(stored)
=============================================================================
