-------------------------- MODULE Reconcile_proofs --------------------------
(***************************************************************************)
(* What holds of a cluster's reconciliation for any number of events,      *)
(* faults and restarts.                                                    *)
(***************************************************************************)
EXTENDS Reconcile, TLAPS

-----------------------------------------------------------------------------
(* Types.  An incarnation is only created where one is missing, and it is   *)
(* missing because somebody deleted it: that bounds them.  A pass has a     *)
(* token from its mint on, and a configuration from its beginning.          *)

Missing(incarnation) == IF incarnation = 0 THEN 1 ELSE 0

Room == created + Missing(account) + Missing(owner) <= 2 + events

Carried ==
    /\ pass.pc \in {"verify", "credential", "publish"} => pass.token # NoToken
    /\ pass.pc \notin {"verify", "credential", "publish", "report"} => pass.token = NoToken
    /\ pass.pc # "idle" => pass.want # 0

TypeInv == TypeOK /\ Room /\ Carried

\* Until a pass has minted, three tokens at most are in use, and a fourth is
\* not: the least of the others is a token that nobody holds.
LEMMA NewTokenUnused ==
    ASSUME Carried, pass.pc = "mint"
    PROVE  NewToken \in Tokens \ InUse
<1>1. PICK a, b, c : InUse \subseteq {a, b, c, NoToken}
  BY DEF InUse, Carried
<1>2. \E t \in Tokens \ InUse : \A u \in Tokens \ InUse : t <= u
  <2>1. {1, 2, 3, 4} \subseteq Tokens
    BY ReconcileAssumption DEF Tokens
  <2>2. PICK t \in {1, 2, 3, 4} : t \notin InUse /\ \A u \in {1, 2, 3, 4} \ InUse : t <= u
    <3>1. \E t \in {1, 2, 3, 4} : t \notin InUse
      BY <1>1 DEF NoToken
    <3> QED BY <3>1
  <2>3. t \in Tokens \ InUse
    BY <2>1, <2>2
  <2>4. ASSUME NEW u \in Tokens \ InUse PROVE t <= u
    <3>1. u \in Nat /\ (u \in {1, 2, 3, 4} \/ u > 4)
      BY ReconcileAssumption DEF Tokens
    <3> QED BY <2>2, <3>1
  <2> QED BY <2>3, <2>4
<1> QED BY <1>2 DEF NewToken

\* Where a pass can go from a call that was not answered.
LEMMA PassTypes ==
    ASSUME TypeOK
    PROVE  /\ NoStatus \in Status /\ NoPass \in Pass
           /\ Failed \in Pass /\ Unrenewed \in Pass
           /\ \A next \in Pass : Answer(next) => pass' \in Pass /\ faults' \in 0..MaxFaults
<1> USE ReconcileAssumption DEF TypeOK
<1>1. NoStatus \in Status
  BY DEF NoStatus, Status, NoToken
<1>2. NoPass \in Pass
  BY <1>1 DEF NoPass, Pass, Incarnations, NoToken
<1>3. Failed \in Pass /\ Unrenewed \in Pass
  BY DEF Failed, Unrenewed, Pass, Calls
<1>4. ASSUME NEW next \in Pass, Answer(next)
      PROVE  pass' \in Pass /\ faults' \in 0..MaxFaults
  BY <1>3, <1>4 DEF Answer, Fault
<1> QED BY <1>1, <1>2, <1>3, <1>4

LEMMA InitTypeInv == Init => TypeInv
<1> SUFFICES ASSUME Init PROVE TypeInv
  OBVIOUS
<1>1. NoStatus \in Status
  BY ReconcileAssumption DEF NoStatus, Status, NoToken
<1>2. NoPass \in Pass
  BY <1>1, ReconcileAssumption DEF NoPass, Pass, Incarnations, NoToken
<1>3. NoSecret \in Secret
  BY ReconcileAssumption DEF NoSecret, Secret, NoToken
<1>4. TypeOK
  BY <1>1, <1>2, <1>3, ReconcileAssumption DEF Init, TypeOK, Incarnations
<1>5. Room /\ Carried
  BY ReconcileAssumption DEF Init, Room, Carried, Missing, NoPass, NoToken
<1> QED BY <1>4, <1>5 DEF TypeInv

\* What somebody else wrote is no token of ours.
LEMMA ForeignIsNone == Foreign # NoToken /\ Foreign \notin Tokens /\ NoToken \notin Tokens
BY ReconcileAssumption DEF Foreign, NoToken, Tokens

\* What a step of the pass does to the process's own part of the state; the
\* rest follows the pass in StepCarries.
LEMMA PassStepType ==
    ASSUME TypeOK, Carried, Step \/ CallFails \/ RenewalFails
    PROVE  pass' \in Pass /\ faults' \in 0..MaxFaults
<1> USE ReconcileAssumption DEF TypeOK, Carried
<1>p. /\ pass \in Pass /\ faults \in 0..MaxFaults
      /\ NoPass \in Pass /\ Failed \in Pass /\ Unrenewed \in Pass
      /\ \A next \in Pass : Answer(next) => pass' \in Pass /\ faults' \in 0..MaxFaults
  BY PassTypes
<1>m. ASSUME NEW pc \in Calls \cup {"idle", "report"}
      PROVE  [pass EXCEPT !.pc = pc] \in Pass
  BY DEF Pass
<1>1. CASE Begin
  <2>1. [NoPass EXCEPT !.pc = "access", !.want = want, !.work = status, !.quiet = TRUE] \in Pass
    <3>1. want \in 0..MaxWants /\ status \in Status
      OBVIOUS
    <3> QED BY <1>p, <3>1 DEF Pass, Calls
  <2> QED BY <1>1, <1>p, <2>1 DEF Begin
<1>2. CASE Access
  BY <1>2, <1>p DEF Access, Pass, Calls
<1>3. CASE ReadCA \/ SelfVerify \/ GetAccount \/ GetBinding \/ Probe \/ Verify
  BY <1>3, <1>p, <1>m DEF ReadCA, SelfVerify, GetAccount, GetBinding, Probe, Verify, Calls
<1>4. CASE SelfMint
  <2>1. 0 \in Incarnations
    BY DEF Incarnations
  <2>2. /\ [pass EXCEPT !.pc = "selfVerify", !.fresh = owner] \in Pass
        /\ [pass EXCEPT !.pc = "selfVerify", !.fresh = 0] \in Pass
    BY <2>1 DEF Pass, Calls
  <2> QED BY <1>4, <1>p, <2>2 DEF SelfMint, Fault
<1>5. CASE SelfStore
  BY <1>5, <1>p, <1>m DEF SelfStore, Fault, Calls
<1>6. CASE CreateAccount
  <2>1. [pass EXCEPT !.pc = "getBinding", !.repaired = TRUE] \in Pass
    BY DEF Pass, Calls
  <2>2. [pass EXCEPT !.pc = "getBinding"] \in Pass
    BY <1>m DEF Calls
  <2> QED BY <1>6, <1>p, <2>1, <2>2 DEF CreateAccount
<1>7. CASE CreateBinding
  <2>1. [pass EXCEPT !.pc = "probe"] \in Pass
    BY <1>m DEF Calls
  <2> QED BY <1>7, <1>p, <2>1 DEF CreateBinding
<1>8. CASE Register
  <2>1. [pass EXCEPT !.pc = "report", !.ok = TRUE] \in Pass /\ [pass EXCEPT !.pc = "mint"] \in Pass
    BY DEF Pass, Calls
  <2> QED BY <1>8, <1>p, <2>1 DEF Register
<1>9. CASE Mint
  <2>1. [pass EXCEPT !.pc = "verify", !.token = NewToken] \in Pass
    BY <1>9, NewTokenUnused DEF Mint, Pass, Calls
  <2> QED BY <1>9, <1>p, <2>1 DEF Mint, Fault
<1>10. CASE ApplyCredential
  <2>1. [pass EXCEPT !.pc = "publish"] \in Pass
    BY <1>m DEF Calls
  <2> QED BY <1>10, <1>p, <2>1 DEF ApplyCredential
<1>11. CASE Publish
  <2>1. Recorded(pass.token) \in Status
    BY <1>11 DEF Publish, Recorded, Status, Pass, NoToken
  <2>2. \A ok \in BOOLEAN : [pass EXCEPT !.pc = "report", !.work = Recorded(pass.token), !.ok = ok] \in Pass
    BY <2>1 DEF Pass
  <2> QED BY <1>11, <1>p, <2>2 DEF Publish
<1>12. CASE Report
  <2>1. pass' = NoPass /\ (faults' = faults \/ Fault)
    BY <1>12 DEF Report
  <2> QED BY <1>p, <2>1 DEF Fault
<1>13. CASE CallFails \/ RenewalFails
  BY <1>13, <1>p DEF CallFails, RenewalFails, Fault
<1> QED BY <1>1, <1>2, <1>3, <1>4, <1>5, <1>6, <1>7, <1>8, <1>9, <1>10, <1>11, <1>12, <1>13 DEF Step

\* The rest of a step of the pass, which only needs room for the account that it
\* may create: Remove, where accounts are missing for other reasons, has it too.
LEMMA StepCarries ==
    ASSUME TypeOK, Carried, Step \/ CallFails \/ RenewalFails,
           CreateAccount /\ account = 0 => created < 2 + MaxEvents
    PROVE  TypeOK' /\ Carried'
<1> USE ReconcileAssumption DEF TypeOK, Carried, cluster, used
<1>t. pass' \in Pass /\ faults' \in 0..MaxFaults
  BY PassStepType
<1>n. NoToken = 0
  BY DEF NoToken
<1>0. CASE Begin
  <2>1. UNCHANGED <<cluster, bound, stored, secret, want, status, used>>
    BY <1>0 DEF Begin
  <2>2. pass'.pc = "access" /\ pass'.token = NoToken /\ pass'.want # 0
    BY <1>0 DEF Begin, NoPass
  <2> QED BY <1>t, <2>1, <2>2
<1>1. CASE Access \/ ReadCA \/ SelfVerify \/ GetAccount \/ GetBinding \/ Probe \/ Verify
           \/ CallFails \/ RenewalFails
  <2>1. UNCHANGED <<cluster, bound, stored, secret, want, status, used>>
    BY <1>1 DEF Access, ReadCA, SelfVerify, GetAccount, GetBinding, Probe, Verify,
                CallFails, RenewalFails
  <2>2. /\ pass'.pc \in {"verify", "credential", "publish"} => pass'.token # NoToken
        /\ pass'.pc \notin {"verify", "credential", "publish", "report"} => pass'.token = NoToken
        /\ pass'.pc # "idle" => pass'.want # 0
    <3>1. /\ pass'.token = pass.token /\ pass'.want = pass.want /\ pass.pc # "idle"
          /\ \/ pass'.pc = "report"
             \/ pass'.pc = "credential" /\ pass.pc = "verify"
             \/ /\ pass.pc \notin {"verify", "credential", "publish", "report"}
                /\ pass'.pc \notin {"verify", "credential", "publish", "idle"}
      <4>1. CASE Access \/ ReadCA \/ SelfVerify
        BY <4>1 DEF Access, ReadCA, SelfVerify, Failed, Unrenewed, Pass
      <4>2. CASE GetAccount \/ GetBinding \/ Probe \/ Verify
        BY <4>2 DEF GetAccount, GetBinding, Probe, Verify, Failed, Pass
      <4>3. CASE CallFails \/ RenewalFails
        BY <4>3 DEF CallFails, RenewalFails, Failed, Unrenewed, Pass, Calls
      <4> QED BY <1>1, <4>1, <4>2, <4>3
    <3> QED BY <3>1
  <2> QED BY <1>t, <2>1, <2>2
<1>2. CASE SelfMint \/ SelfStore
  <2>1. /\ UNCHANGED <<cluster, bound, secret, want, status, used>>
        /\ stored' \in {stored, pass.fresh}
    BY <1>2 DEF SelfMint, SelfStore
  <2>2. /\ pass'.pc \in {"selfVerify", "getAccount"} /\ pass'.token = pass.token /\ pass'.want = pass.want
        /\ pass.token = NoToken /\ pass.want # 0
    BY <1>2 DEF SelfMint, SelfStore, Unrenewed, Pass
  <2> QED BY <1>t, <2>1, <2>2 DEF Pass
<1>3. CASE CreateAccount
  <2>1. /\ UNCHANGED <<owner, binding, bound, stored, secret, want, status, used>>
        /\ \/ account' = account /\ created' = created
           \/ account = 0 /\ account' = created + 1 /\ created' = created + 1
    BY <1>3 DEF CreateAccount
  <2>2. /\ pass'.pc \in {"getBinding", "report"} /\ pass'.token = pass.token /\ pass'.want = pass.want
        /\ pass.token = NoToken /\ pass.want # 0
    BY <1>3 DEF CreateAccount, Answer, Failed, Pass
  <2> QED BY <1>t, <1>3, <2>1, <2>2 DEF Incarnations
<1>4. CASE CreateBinding
  <2>1. /\ UNCHANGED <<account, owner, created, bound, stored, secret, want, status, used>>
        /\ binding' \in {binding, "ok"}
    BY <1>4 DEF CreateBinding
  <2>2. /\ pass'.pc \in {"probe", "report"} /\ pass'.token = pass.token /\ pass'.want = pass.want
        /\ pass.token = NoToken /\ pass.want # 0
    BY <1>4 DEF CreateBinding, Answer, Failed, Pass
  <2> QED BY <1>t, <2>1, <2>2
<1>5. CASE Register
  <2>1. /\ UNCHANGED <<cluster, bound, stored, want, status, used>>
        /\ secret' = [secret EXCEPT !.labelled = TRUE, !.want = pass.want]
    BY <1>5 DEF Register
  <2>2. /\ pass'.pc \in {"mint", "report"} /\ pass'.token = pass.token /\ pass'.want = pass.want
        /\ pass.token = NoToken /\ pass.want # 0
    BY <1>5 DEF Register, Answer, Failed, Pass
  <2> QED BY <1>t, <2>1, <2>2 DEF Secret, Pass
<1>6. CASE Mint
  <2>1. /\ UNCHANGED <<cluster, stored, secret, want, status, used>>
        /\ bound' = bound \/ \E a \in {account, 0} : bound' = [bound EXCEPT ![NewToken] = a]
    BY <1>6 DEF Mint
  <2>2. NewToken \in Tokens
    BY <1>6, NewTokenUnused DEF Mint
  <2>3. /\ pass'.want = pass.want /\ pass.want # 0
        /\ \/ pass'.pc = "verify" /\ pass'.token = NewToken
           \/ pass'.pc = "report" /\ pass'.token = pass.token
    BY <1>6 DEF Mint, Failed, Pass
  <2>4. NewToken # NoToken
    BY <1>n, <2>2 DEF Tokens
  <2>5. bound' \in [Tokens -> Incarnations]
    <3>1. 0 \in Incarnations /\ account \in Incarnations /\ bound \in [Tokens -> Incarnations]
      BY DEF Incarnations
    <3> QED BY <2>1, <2>2, <3>1
  <2> QED BY <1>t, <2>1, <2>3, <2>4, <2>5
<1>7. CASE ApplyCredential
  <2>1. /\ UNCHANGED <<cluster, bound, stored, want, status, used>>
        /\ secret' = [secret EXCEPT !.credential = pass.token]
    BY <1>7 DEF ApplyCredential
  <2>2. /\ pass'.pc \in {"publish", "report"} /\ pass'.token = pass.token /\ pass'.want = pass.want
        /\ pass.token # NoToken /\ pass.want # 0
    BY <1>7 DEF ApplyCredential, Answer, Failed, Pass
  <2> QED BY <1>t, <2>1, <2>2 DEF Secret, Pass
<1>8. CASE Publish
  <2>1. /\ UNCHANGED <<cluster, bound, stored, want, status, used>>
        /\ secret' = [secret EXCEPT !.labelled = TRUE, !.want = pass.want]
    BY <1>8 DEF Publish
  <2>2. /\ pass'.pc = "report" /\ pass'.want = pass.want /\ pass.want # 0
    BY <1>8 DEF Publish, Answer, Failed, Pass
  <2> QED BY <1>t, <2>1, <2>2 DEF Secret, Pass
<1>9. CASE Report
  <2>1. UNCHANGED <<cluster, bound, stored, secret, want, used>> /\ pass' = NoPass
    BY <1>9 DEF Report
  <2>2. status' \in Status
    <3>1. \A ready \in {"Ready", "Failed"}, aged \in BOOLEAN :
              [pass.work EXCEPT !.ready = ready, !.aged = aged] \in Status
      BY DEF Pass, Status
    <3>2. pass.work.aged \/ AgedMeanwhile \in BOOLEAN
      BY Zenon DEF AgedMeanwhile, Pass, Status
    <3> QED BY <1>9, <3>1, <3>2 DEF Report
  <2> QED BY <1>t, <2>1, <2>2 DEF NoPass
<1> QED BY <1>0, <1>1, <1>2, <1>3, <1>4, <1>5, <1>6, <1>7, <1>8, <1>9 DEF Step

LEMMA StepTypeInv == TypeInv /\ (Step \/ CallFails \/ RenewalFails) => TypeInv'
<1> SUFFICES ASSUME TypeInv, Step \/ CallFails \/ RenewalFails PROVE TypeInv'
  OBVIOUS
<1> USE ReconcileAssumption DEF TypeInv
<1>1. events' = events /\ owner' = owner
  BY DEF Step, CallFails, RenewalFails, Begin, Access, ReadCA, SelfMint, SelfVerify, SelfStore, GetAccount,
         CreateAccount, GetBinding, CreateBinding, Probe, Register, Mint, Verify, ApplyCredential,
         Publish, Report, cluster, used
<1>2. \/ account' = account /\ created' = created
      \/ CreateAccount /\ account = 0 /\ account' = created + 1 /\ created' = created + 1
  BY DEF Step, CallFails, RenewalFails, Begin, Access, ReadCA, SelfMint, SelfVerify, SelfStore, GetAccount,
         CreateAccount, GetBinding, CreateBinding, Probe, Register, Mint, Verify, ApplyCredential,
         Publish, Report, cluster
<1>3. CreateAccount /\ account = 0 => created < 2 + MaxEvents
  BY DEF Room, Missing, TypeOK, Incarnations
<1>4. TypeOK' /\ Carried'
  BY <1>3, StepCarries
<1>5. Room'
  BY <1>1, <1>2 DEF Room, Missing, TypeOK, Incarnations
<1> QED BY <1>4, <1>5

LEMMA EnvironmentTypeInv == TypeInv /\ (HalfLife \/ Environment) => TypeInv'
<1> SUFFICES ASSUME TypeInv, HalfLife \/ Environment PROVE TypeInv'
  OBVIOUS
<1> USE ReconcileAssumption DEF TypeInv, TypeOK, Room, Carried, cluster, used
<1>1. CASE HalfLife
  <2>1. [status EXCEPT !.aged = TRUE] \in Status
    BY DEF Status
  <2> QED BY <1>1, <2>1 DEF HalfLife, Missing
<1>2. CASE Restart
  BY <1>2, PassTypes DEF Restart, Missing, NoPass
<1>m. ASSUME NEW event, Meddle(event)
      PROVE  /\ events' \in 0..MaxEvents /\ events' = events + 1
             /\ seen' \subseteq Events
             /\ pass' \in Pass
             /\ pass'.pc = pass.pc /\ pass'.token = pass.token /\ pass'.want = pass.want
             /\ UNCHANGED <<bound, restarts, faults>>
  <2>1. events' \in 0..MaxEvents /\ events' = events + 1 /\ seen' \subseteq Events
    BY <1>m DEF Meddle
  <2>2. [pass EXCEPT !.quiet = FALSE] \in Pass
    BY DEF Pass
  <2>3. pass' = [pass EXCEPT !.quiet = FALSE] /\ UNCHANGED <<bound, restarts, faults>>
    BY <1>m DEF Meddle
  <2> QED BY <2>1, <2>2, <2>3 DEF Pass
<1>3. CASE DeleteAccount \/ Revoke
  <2>1. \/ account' = 0 /\ account # 0 /\ owner' = owner
        \/ owner' = 0 /\ owner # 0 /\ account' = account
    BY <1>3 DEF DeleteAccount, Revoke
  <2>2. UNCHANGED <<created, binding, stored, secret, want, status>>
    BY <1>3 DEF DeleteAccount, Revoke
  <2>3. \E event : Meddle(event)
    BY <1>3 DEF DeleteAccount, Revoke
  <2> QED BY <1>m, <2>1, <2>2, <2>3 DEF Missing, Incarnations
<1>4. CASE Bootstrap
  <2>1. \E event : Meddle(event)
    BY <1>4 DEF Bootstrap
  <2>2. UNCHANGED <<secret, want, status>> /\ binding' = "ok" /\ stored' = owner'
    BY <1>4 DEF Bootstrap
  <2>3. /\ created' = created + Missing(account) + Missing(owner)
        /\ account' # 0 /\ owner' # 0
        /\ account' = account \/ account' \in 0..created'
        /\ owner' = owner \/ owner' \in 0..created'
    BY <1>4 DEF Bootstrap, Missing, Incarnations
  <2>4. created' <= 2 + MaxEvents /\ created' <= 2 + events /\ created' \in Nat
    BY <2>3 DEF Missing, Incarnations
  <2> QED BY <1>m, <2>1, <2>2, <2>3, <2>4 DEF Missing, Incarnations
<1>5. CASE DeleteBinding \/ Rebind
  <2>1. \E event : Meddle(event)
    BY <1>5 DEF DeleteBinding, Rebind
  <2>2. /\ UNCHANGED <<account, owner, created, stored, secret, want, status>>
        /\ binding' \in {"ok", "absent", "other"}
    BY <1>5 DEF DeleteBinding, Rebind
  <2> QED BY <1>m, <2>1, <2>2 DEF Missing, Incarnations
<1>6. CASE DeleteSecret \/ OverwriteSecret
  <2>1. \E event : Meddle(event)
    BY <1>6 DEF DeleteSecret, OverwriteSecret
  <2>2. UNCHANGED <<cluster, stored, want, status>>
    BY <1>6 DEF DeleteSecret, OverwriteSecret
  <2>3. NoSecret \in Secret /\ [secret EXCEPT !.credential = Foreign] \in Secret
    BY DEF NoSecret, Secret, NoToken
  <2>4. secret' \in Secret
    BY <1>6, <2>3 DEF DeleteSecret, OverwriteSecret
  <2> QED BY <1>m, <2>1, <2>2, <2>4 DEF Missing, Incarnations
<1>7. CASE Edit \/ LoseStatus
  <2>1. \E event : Meddle(event)
    BY <1>7 DEF Edit, LoseStatus
  <2>2. UNCHANGED <<cluster, stored, secret>>
    BY <1>7 DEF Edit, LoseStatus
  <2>3. status' \in Status /\ want' \in 1..MaxWants
    <3>1. CASE Edit
      BY <3>1 DEF Edit
    <3>2. CASE LoseStatus
      BY <3>2, PassTypes DEF LoseStatus
    <3> QED BY <1>7, <3>1, <3>2
  <2> QED BY <1>m, <2>1, <2>2, <2>3 DEF Missing, Incarnations
<1> QED BY <1>1, <1>2, <1>3, <1>4, <1>5, <1>6, <1>7 DEF Environment

LEMMA NextTypeInv == TypeInv /\ [Next]_vars => TypeInv'
<1> SUFFICES ASSUME TypeInv, [Next]_vars PROVE TypeInv'
  OBVIOUS
<1>1. CASE UNCHANGED vars
  BY <1>1 DEF vars, TypeInv, TypeOK, Room, Carried, Missing, InUse
<1> QED BY <1>1, StepTypeInv, EnvironmentTypeInv DEF Next

\* Every reachable state is well formed: in particular, incarnations stay within
\* their bound, a status records a fingerprint whole or not at all, and there is
\* always a name for a new token.
THEOREM ReconcileTypeCorrect == Spec => []TypeOK
<1>1. TypeInv => TypeOK
  BY DEF TypeInv
<1> QED BY <1>1, InitTypeInv, NextTypeInv, PTL DEF Spec
-----------------------------------------------------------------------------
(* What everybody but the pass does to the pass: nothing but to disturb it. *)

LEMMA EventDisturbs ==
    ASSUME TypeInv, NEW event, Meddle(event)
    PROVE  /\ pass' = [pass EXCEPT !.quiet = FALSE]
           /\ seen' = seen \cup {event} /\ UNCHANGED <<bound, faults, restarts>>
           /\ pass'.quiet = FALSE
           /\ pass'.pc = pass.pc /\ pass'.own = pass.own /\ pass'.fresh = pass.fresh
           /\ pass'.token = pass.token /\ pass'.work = pass.work /\ pass'.want = pass.want
           /\ pass'.repaired = pass.repaired /\ pass'.ok = pass.ok
BY DEF Meddle, TypeInv, TypeOK, Pass

-----------------------------------------------------------------------------
(* The own credential.  What is stored works, and so does what is about to  *)
(* be: it was tried for the incarnation that is there, and without a        *)
(* revocation there is no other.                                            *)

Own ==
    "revoke" \notin seen =>
        Works(stored) /\ (pass.pc = "selfStore" => Works(pass.fresh))

LEMMA InitOwn == Init => Own
BY DEF Init, Own, Works, NoPass

LEMMA NextOwn == TypeInv /\ Own /\ [Next]_vars => Own'
<1> SUFFICES ASSUME TypeInv, Own, [Next]_vars PROVE Own'
  OBVIOUS
<1> USE DEF Own, Works, cluster, used
<1>p. pass \in Pass
  BY DEF TypeInv, TypeOK
<1>1. CASE UNCHANGED vars
  BY <1>1 DEF vars
<1>2. CASE SelfVerify
  BY <1>2, <1>p DEF SelfVerify, Unrenewed, Pass
<1>3. CASE SelfStore
  BY <1>3, <1>p DEF SelfStore, Unrenewed, Pass
<1>4. CASE SelfMint \/ RenewalFails \/ ReadCA \/ Access \/ Begin
  BY <1>4, <1>p DEF SelfMint, RenewalFails, ReadCA, Access, Begin, Unrenewed, Failed, NoPass, Pass
<1>5. CASE GetAccount \/ CreateAccount \/ GetBinding \/ CreateBinding \/ Probe
  BY <1>5, <1>p DEF GetAccount, CreateAccount, GetBinding, CreateBinding, Probe, Answer, Failed, Pass
<1>6. CASE Register \/ Mint \/ Verify \/ ApplyCredential \/ Publish
  <2>1. UNCHANGED <<owner, stored, used>>
    BY <1>6 DEF Register, Mint, Verify, ApplyCredential, Publish
  <2>2. pass'.pc # "selfStore"
    BY <1>6, <1>p DEF Register, Mint, Verify, ApplyCredential, Publish, Answer, Failed, Pass
  <2> QED BY <2>1, <2>2
<1>7. CASE Report \/ CallFails \/ HalfLife \/ Restart
  <2>1. UNCHANGED <<owner, stored, seen>>
    BY <1>7 DEF Report, CallFails, HalfLife, Restart
  <2>2. pass' \in {pass, NoPass, Failed}
    BY <1>7 DEF Report, CallFails, HalfLife, Restart
  <2>3. NoPass.pc = "idle" /\ Failed.pc = "report"
    BY <1>p DEF NoPass, Failed, Pass
  <2> QED BY <2>1, <2>2, <2>3
<1>8. CASE DeleteAccount \/ DeleteBinding \/ Rebind \/ DeleteSecret \/ OverwriteSecret
           \/ Edit \/ LoseStatus
  <2>1. UNCHANGED <<owner, stored>> /\ \E event : Meddle(event)
    BY <1>8 DEF DeleteAccount, DeleteBinding, Rebind, DeleteSecret, OverwriteSecret, Edit, LoseStatus
  <2> QED BY <2>1, EventDisturbs
<1>9. CASE Revoke
  BY <1>9, EventDisturbs DEF Revoke
<1>10. CASE Bootstrap
  <2>1. \E event : Meddle(event)
    BY <1>10 DEF Bootstrap
  <2>2. owner # 0 => owner' = owner /\ stored' = owner
    BY <1>10 DEF Bootstrap
  <2> QED BY <2>1, <2>2, EventDisturbs
<1> QED BY <1>1, <1>2, <1>3, <1>4, <1>5, <1>6, <1>7, <1>8, <1>9, <1>10
  DEF Next, Step, Environment

\* Renewing its own credential never costs this tool its access: whatever fails
\* on the way and wherever the process dies, the stored credential works as long
\* as nobody deletes the identity it belongs to.
THEOREM KeepsAccess == Spec => []NotLockedOut
<1>1. Own => NotLockedOut
  BY DEF Own, NotLockedOut
<1> QED BY <1>1, InitTypeInv, NextTypeInv, InitOwn, NextOwn, PTL DEF Spec

-----------------------------------------------------------------------------
(* The first publication.  While the Secret has no credential, and nobody   *)
(* took it away, nothing has been recorded either; that is what makes a pass *)
(* begin with the credential, however many have failed before it.           *)

NothingRecorded ==
    "delete secret" \notin seen /\ secret.credential = NoToken =>
        /\ ~secret.labelled
        /\ status.credential = NoToken /\ pass.work.credential = NoToken
        /\ pass.pc \notin {"register", "publish"}

LEMMA InitNothingRecorded == Init => NothingRecorded
BY DEF Init, NothingRecorded, NoSecret, NoStatus, NoPass

LEMMA NextNothingRecorded == TypeInv /\ NothingRecorded /\ [Next]_vars => NothingRecorded'
<1> SUFFICES ASSUME TypeInv, NothingRecorded, [Next]_vars PROVE NothingRecorded'
  OBVIOUS
<1> USE DEF NothingRecorded, cluster, used
<1>p. /\ pass \in Pass /\ secret \in Secret /\ status \in Status /\ pass.work \in Status
  BY DEF TypeInv, TypeOK, Pass
<1>f. Foreign # NoToken
  BY ForeignIsNone
<1>n. NoStatus.credential = NoToken
  BY DEF NoStatus
<1>1. CASE UNCHANGED vars
  BY <1>1 DEF vars
<1>2. CASE Begin \/ Access \/ ReadCA \/ SelfMint \/ SelfVerify \/ SelfStore \/ RenewalFails
  <2>1. UNCHANGED <<secret, status, seen>>
    BY <1>2 DEF Begin, Access, ReadCA, SelfMint, SelfVerify, SelfStore, RenewalFails
  <2>2. pass'.pc \notin {"register", "publish"} /\ pass'.work \in {pass.work, status}
    BY <1>2, <1>p DEF Begin, Access, ReadCA, SelfMint, SelfVerify, SelfStore, RenewalFails,
                      Unrenewed, Failed, NoPass, Pass
  <2> QED BY <2>1, <2>2
<1>3. CASE GetAccount \/ CreateAccount \/ GetBinding \/ CreateBinding \/ Mint \/ Verify \/ CallFails
  <2>1. UNCHANGED <<secret, status, seen>>
    BY <1>3 DEF GetAccount, CreateAccount, GetBinding, CreateBinding, Mint, Verify, CallFails
  <2>2. pass'.pc \notin {"register", "publish"} /\ pass'.work = pass.work
    BY <1>3, <1>p DEF GetAccount, CreateAccount, GetBinding, CreateBinding, Mint, Verify, CallFails,
                      Answer, Failed, Pass
  <2> QED BY <2>1, <2>2
<1>4. CASE Probe
  <2>1. UNCHANGED <<secret, status, seen>> /\ pass'.work = pass.work
    BY <1>4, <1>p DEF Probe, Pass
  <2>2. pass.work.credential = NoToken => First
    BY <1>p DEF First, Status, NoToken
  <2>3. First => pass'.pc = "mint"
    BY <1>4, <1>p DEF Probe, Pass
  <2> QED BY <2>1, <2>2, <2>3
<1>5. CASE Register \/ Publish
  <2>1. secret'.credential = secret.credential /\ UNCHANGED <<status, seen>>
    BY <1>5, <1>p DEF Register, Publish, Secret
  <2>2. pass.pc \in {"register", "publish"}
    BY <1>5 DEF Register, Publish
  <2> QED BY <2>1, <2>2
<1>6. CASE ApplyCredential
  <2>1. secret'.credential # NoToken
    BY <1>6, <1>p DEF ApplyCredential, Secret, TypeInv, Carried
  <2> QED BY <2>1
<1>7. CASE Report
  <2>1. UNCHANGED <<secret, seen>> /\ pass' = NoPass
    BY <1>7 DEF Report
  <2>2. status'.credential \in {status.credential, pass.work.credential}
    BY <1>7, <1>p DEF Report, Status
  <2> QED BY <1>n, <2>1, <2>2 DEF NoPass
<1>8. CASE HalfLife \/ Restart
  <2>1. UNCHANGED <<secret, seen>> /\ status'.credential = status.credential
    BY <1>8, <1>p DEF HalfLife, Restart, Status
  <2>2. pass' \in {pass, NoPass}
    BY <1>8 DEF HalfLife, Restart
  <2>3. NoPass.pc = "idle" /\ NoPass.work.credential = NoToken
    BY <1>n DEF NoPass
  <2> QED BY <2>1, <2>2, <2>3
<1>9. CASE DeleteAccount \/ DeleteBinding \/ Rebind \/ Edit \/ Revoke \/ Bootstrap
  <2>1. UNCHANGED <<secret, status>> /\ \E event : Meddle(event)
    BY <1>9 DEF DeleteAccount, DeleteBinding, Rebind, Edit, Revoke, Bootstrap
  <2> QED BY <2>1, EventDisturbs
<1>10. CASE DeleteSecret
  BY <1>10, EventDisturbs DEF DeleteSecret
<1>11. CASE OverwriteSecret \/ LoseStatus
  <2>1. \/ secret'.credential # NoToken
        \/ secret' = secret /\ status'.credential = NoToken
    BY <1>11, <1>p, <1>f, <1>n DEF OverwriteSecret, LoseStatus, Secret
  <2>2. \E event : Meddle(event)
    BY <1>11 DEF OverwriteSecret, LoseStatus
  <2> QED BY <2>1, <2>2, EventDisturbs
<1> QED BY <1>1, <1>2, <1>3, <1>4, <1>5, <1>6, <1>7, <1>8, <1>9, <1>10, <1>11
  DEF Next, Step, Environment

\* ArgoCD never sees a cluster without a credential, unless somebody deletes the
\* Secret: passes that fail, answers that are lost, statuses that are lost and
\* restarts do not make it happen.
THEOREM NeverShownBare == Spec => []NeverBare
<1>1. NothingRecorded => NeverBare
  BY DEF NothingRecorded, NeverBare, Bare
<1> QED BY <1>1, InitTypeInv, NextTypeInv, InitNothingRecorded, NextNothingRecorded, PTL DEF Spec
-----------------------------------------------------------------------------
(* Credentials of others.  A pass records what it minted and nothing else,  *)
(* so a foreign credential is never the one a record knows.                 *)

OwnRecord == status.credential # Foreign /\ pass.work.credential # Foreign

LEMMA InitOwnRecord == Init => OwnRecord
BY ForeignIsNone DEF Init, OwnRecord, NoStatus, NoPass

LEMMA NextOwnRecord == TypeInv /\ OwnRecord /\ [Next]_vars => OwnRecord'
<1> SUFFICES ASSUME TypeInv, OwnRecord, [Next]_vars PROVE OwnRecord'
  OBVIOUS
<1> USE DEF OwnRecord, cluster, used
<1>p. /\ pass \in Pass /\ status \in Status /\ pass.work \in Status
  BY DEF TypeInv, TypeOK, Pass
<1>n. /\ NoStatus.credential # Foreign /\ NoPass.work.credential # Foreign
      /\ Failed.work = pass.work /\ Unrenewed.work = pass.work
  BY <1>p, ForeignIsNone DEF NoStatus, NoPass, Failed, Unrenewed, Pass
<1>1. CASE UNCHANGED vars
  BY <1>1 DEF vars
<1>2. CASE Begin
  BY <1>2 DEF Begin, NoPass
<1>3. CASE Access \/ ReadCA \/ SelfMint \/ SelfVerify \/ SelfStore \/ RenewalFails \/ CallFails
  <2>1. UNCHANGED status
    BY <1>3 DEF Access, ReadCA, SelfMint, SelfVerify, SelfStore, RenewalFails, CallFails
  <2>2. pass'.work = pass.work
    BY <1>3, <1>p, <1>n DEF Access, ReadCA, SelfMint, SelfVerify, SelfStore, RenewalFails, CallFails, Pass,
                            Unrenewed
  <2> QED BY <2>1, <2>2
<1>4. CASE GetAccount \/ CreateAccount \/ GetBinding \/ CreateBinding \/ Probe
  <2>1. UNCHANGED status
    BY <1>4 DEF GetAccount, CreateAccount, GetBinding, CreateBinding, Probe
  <2>2. pass'.work = pass.work
    BY <1>4, <1>p, <1>n DEF GetAccount, CreateAccount, GetBinding, CreateBinding, Probe, Answer, Pass
  <2> QED BY <2>1, <2>2
<1>5. CASE Register \/ Mint \/ Verify \/ ApplyCredential
  <2>1. UNCHANGED status
    BY <1>5 DEF Register, Mint, Verify, ApplyCredential
  <2>2. pass'.work = pass.work
    BY <1>5, <1>p, <1>n DEF Register, Mint, Verify, ApplyCredential, Answer, Pass
  <2> QED BY <2>1, <2>2
<1>6. CASE Publish
  <2>1. UNCHANGED status
    BY <1>6 DEF Publish
  <2>2. Recorded(pass.token).credential # Foreign
    BY <1>6, <1>p, ForeignIsNone DEF Publish, Recorded, Pass, Status
  <2>3. pass'.work \in {pass.work, Recorded(pass.token)}
    BY <1>6, <1>p, <1>n DEF Publish, Answer, Pass
  <2> QED BY <2>1, <2>2, <2>3
<1>7. CASE Report
  <2>1. status'.credential \in {status.credential, pass.work.credential}
    BY <1>7, <1>p DEF Report, Status
  <2>2. pass' = NoPass
    BY <1>7 DEF Report
  <2> QED BY <1>n, <2>1, <2>2
<1>8. CASE HalfLife \/ Restart
  <2>1. status'.credential = status.credential
    BY <1>8, <1>p DEF HalfLife, Restart, Status
  <2>2. pass' \in {pass, NoPass}
    BY <1>8 DEF HalfLife, Restart
  <2> QED BY <1>n, <2>1, <2>2
<1>9. ASSUME Environment, ~Restart PROVE OwnRecord'
  <2>1. \E event : Meddle(event)
    BY <1>9 DEF Environment, DeleteAccount, DeleteBinding, Rebind, DeleteSecret, OverwriteSecret,
                Edit, LoseStatus, Revoke, Bootstrap
  <2>2. status' \in {status, NoStatus}
    BY <1>9 DEF Environment, DeleteAccount, DeleteBinding, Rebind, DeleteSecret, OverwriteSecret,
                Edit, LoseStatus, Revoke, Bootstrap
  <2> QED BY <1>n, <2>1, <2>2, EventDisturbs
<1> QED BY <1>1, <1>2, <1>3, <1>4, <1>5, <1>6, <1>7, <1>8, <1>9 DEF Next, Step, Environment

\* Only the two applies of the registration decide that a pass succeeded.
LEMMA SuccessDecided ==
    ASSUME TypeInv, Next, ~pass.ok, pass'.ok
    PROVE  Register \/ Publish
<1>p. pass \in Pass
  BY DEF TypeInv, TypeOK
<1>n. NoPass.ok = FALSE /\ Failed.ok = FALSE /\ Unrenewed.ok = pass.ok
  BY <1>p DEF NoPass, Failed, Unrenewed, Pass
<1>1. CASE Begin
  BY <1>1 DEF Begin, NoPass
<1>2. CASE Access \/ ReadCA \/ SelfMint \/ SelfVerify \/ SelfStore \/ RenewalFails \/ CallFails
  BY <1>2, <1>p, <1>n DEF Access, ReadCA, SelfMint, SelfVerify, SelfStore, RenewalFails, CallFails, Pass
<1>3. CASE GetAccount \/ CreateAccount \/ GetBinding \/ CreateBinding \/ Probe
  BY <1>3, <1>p, <1>n DEF GetAccount, CreateAccount, GetBinding, CreateBinding, Probe, Answer, Pass
<1>4. CASE Mint \/ Verify \/ ApplyCredential
  BY <1>4, <1>p, <1>n DEF Mint, Verify, ApplyCredential, Answer, Pass
<1>5. CASE Report \/ HalfLife \/ Restart
  <2>1. pass' \in {pass, NoPass}
    BY <1>5 DEF Report, HalfLife, Restart
  <2> QED BY <1>n, <2>1
<1>6. ASSUME Environment, ~Restart PROVE FALSE
  <2>1. \E event : Meddle(event)
    BY <1>6 DEF Environment, DeleteAccount, DeleteBinding, Rebind, DeleteSecret, OverwriteSecret,
                Edit, LoseStatus, Revoke, Bootstrap
  <2> QED BY <2>1, EventDisturbs
<1> QED BY <1>1, <1>2, <1>3, <1>4, <1>5, <1>6 DEF Next, Step, Environment

\* However it is interfered with, and whatever earlier passes recorded, no pass
\* comes to report success over a credential that was not minted by this tool.
THEOREM SuccessIsOurs == Spec => NoSuccessOverForeign
<1>1. TypeInv /\ OwnRecord /\ [Next]_vars
      => [~pass.ok /\ pass'.ok => secret'.credential \in Tokens]_vars
  <2> SUFFICES ASSUME TypeInv, OwnRecord, Next, ~pass.ok, pass'.ok
               PROVE  secret'.credential \in Tokens
    OBVIOUS
  <2>p. /\ pass \in Pass /\ secret \in Secret /\ pass.work \in Status /\ pass.ok = FALSE
        /\ Failed.ok = FALSE
    BY DEF TypeInv, TypeOK, Pass, Failed
  <2>1. CASE Register
    <3>1. secret'.credential = secret.credential
      BY <2>1, <2>p DEF Register, Secret
    <3>2. Current(secret.credential)
      BY <2>1, <2>p DEF Register, Answer, Pass
    <3>3. pass.work.want # 0
      BY <2>1, <3>2 DEF Current, Register, TypeInv, Carried
    <3>4. pass.work.credential # NoToken
      BY <2>p, <3>3 DEF Status
    <3> QED BY <2>p, <3>1, <3>2, <3>4 DEF Current, OwnRecord, Status
  <2>2. CASE Publish
    <3>1. secret'.credential = secret.credential
      BY <2>2, <2>p DEF Publish, Secret
    <3>2. secret.credential = pass.token
      BY <2>2, <2>p DEF Publish, Answer, Pass
    <3>3. pass.token \in Tokens
      BY <2>2, <2>p DEF Publish, Pass, TypeInv, Carried
    <3> QED BY <3>1, <3>2, <3>3
  <2> QED BY <2>1, <2>2, SuccessDecided
<1> QED BY <1>1, InitTypeInv, NextTypeInv, InitOwnRecord, NextOwnRecord, PTL
  DEF Spec, NoSuccessOverForeign
-----------------------------------------------------------------------------
(* Never for the worse.  No token is bound to a later incarnation than the  *)
(* one there is, and once a pass has proved its token there is none bound   *)
(* to a later one than that: the account can go away meanwhile, but only    *)
(* another pass could issue a token for its successor.                      *)

Newest ==
    /\ account <= created
    /\ \A t \in Tokens : bound[t] <= created /\ (account # 0 => bound[t] <= account)
    /\ pass.pc = "credential" => \A t \in Tokens : bound[t] <= bound[pass.token]

LEMMA InitNewest == Init => Newest
BY DEF Init, Newest, NoPass

\* The steps that change no incarnation, bind no token and prove none.
LEMMA Unbinding ==
    ASSUME TypeInv, Newest, UNCHANGED <<account, created, bound>>,
           pass'.pc # "credential" \/ (pass'.pc = pass.pc /\ pass'.token = pass.token)
    PROVE  Newest'
BY DEF Newest

LEMMA NextNewest == TypeInv /\ Newest /\ [Next]_vars => Newest'
<1> SUFFICES ASSUME TypeInv, Newest, [Next]_vars PROVE Newest'
  OBVIOUS
<1> USE DEF cluster, used
<1>p. /\ pass \in Pass /\ bound \in [Tokens -> Incarnations]
      /\ account \in Incarnations /\ created \in Incarnations
      /\ Failed.pc = "report" /\ Unrenewed.pc = "getAccount" /\ NoPass.pc = "idle"
  BY DEF TypeInv, TypeOK, Failed, Unrenewed, NoPass, Pass
<1>1. CASE UNCHANGED vars
  BY <1>1, Unbinding DEF vars
<1>2. CASE Begin \/ Access \/ ReadCA \/ SelfMint \/ SelfVerify \/ SelfStore \/ RenewalFails \/ CallFails
  <2>1. UNCHANGED <<account, created, bound>>
    BY <1>2 DEF Begin, Access, ReadCA, SelfMint, SelfVerify, SelfStore, RenewalFails, CallFails
  <2>2. pass'.pc # "credential"
    BY <1>2, <1>p DEF Begin, Access, ReadCA, SelfMint, SelfVerify, SelfStore, RenewalFails, CallFails,
                      Pass, NoPass
  <2> QED BY <2>1, <2>2, Unbinding
<1>3. CASE GetAccount \/ GetBinding \/ CreateBinding \/ Probe \/ Register \/ ApplyCredential \/ Publish
  <2>1. UNCHANGED <<account, created, bound>>
    BY <1>3 DEF GetAccount, GetBinding, CreateBinding, Probe, Register, ApplyCredential, Publish
  <2>2. pass'.pc # "credential"
    BY <1>3, <1>p DEF GetAccount, GetBinding, CreateBinding, Probe, Register, ApplyCredential, Publish,
                      Answer, Pass
  <2> QED BY <2>1, <2>2, Unbinding
<1>4. CASE CreateAccount
  <2>1. pass'.pc # "credential"
    BY <1>4, <1>p DEF CreateAccount, Answer, Pass
  <2>2. /\ UNCHANGED bound
        /\ \/ UNCHANGED <<account, created>>
           \/ account' = created + 1 /\ created' = created + 1
    BY <1>4 DEF CreateAccount
  <2> QED BY <1>p, <2>1, <2>2 DEF Newest, Incarnations
<1>5. CASE Mint
  <2>1. UNCHANGED <<account, created>> /\ pass'.pc # "credential"
    BY <1>5, <1>p DEF Mint, Pass
  <2>2. bound' = bound \/ \E a \in {account, 0} : bound' = [bound EXCEPT ![NewToken] = a]
    BY <1>5 DEF Mint
  <2>3. \A t \in Tokens : bound'[t] \in {bound[t], account, 0}
    BY <1>p, <2>2
  <2> QED BY <1>p, <2>1, <2>3 DEF Newest, Incarnations
<1>6. CASE Verify
  <2>1. UNCHANGED <<account, created, bound>> /\ pass'.token = pass.token
    BY <1>6, <1>p DEF Verify, Failed, Pass
  <2>2. pass'.pc = "credential" => bound[pass.token] = account /\ account # 0
    BY <1>6, <1>p DEF Verify, Live
  <2> QED BY <2>1, <2>2 DEF Newest
<1>7. CASE Report \/ HalfLife \/ Restart
  <2>1. UNCHANGED <<account, created, bound>> /\ pass' \in {pass, NoPass}
    BY <1>7 DEF Report, HalfLife, Restart
  <2> QED BY <1>p, <2>1, Unbinding
<1>8. CASE DeleteBinding \/ Rebind \/ DeleteSecret \/ OverwriteSecret \/ Edit \/ LoseStatus \/ Revoke
  <2>1. \E event : Meddle(event)
    BY <1>8 DEF DeleteBinding, Rebind, DeleteSecret, OverwriteSecret, Edit, LoseStatus, Revoke
  <2>2. UNCHANGED <<account, created>>
    BY <1>8 DEF DeleteBinding, Rebind, DeleteSecret, OverwriteSecret, Edit, LoseStatus, Revoke
  <2> QED BY <2>1, <2>2, EventDisturbs, Unbinding
<1>9. CASE DeleteAccount
  <2>1. \E event : Meddle(event)
    BY <1>9 DEF DeleteAccount
  <2>2. UNCHANGED bound /\ pass'.pc = pass.pc /\ pass'.token = pass.token
    BY <2>1, EventDisturbs
  <2>3. account' = 0 /\ created' = created
    BY <1>9 DEF DeleteAccount
  <2> QED BY <1>p, <2>2, <2>3 DEF Newest, Incarnations
<1>10. CASE Bootstrap
  <2>1. \E event : Meddle(event)
    BY <1>10 DEF Bootstrap
  <2>2. UNCHANGED bound /\ pass'.pc = pass.pc /\ pass'.token = pass.token
    BY <2>1, EventDisturbs
  <2>3. /\ created' >= created /\ created' \in Nat
        /\ \/ account' = account /\ account # 0
           \/ account' \in Nat /\ account' > created /\ account' <= created'
    BY <1>10, <1>p DEF Bootstrap, Incarnations
  <2> QED BY <1>p, <2>2, <2>3 DEF Newest, Incarnations
<1> QED BY <1>1, <1>2, <1>3, <1>4, <1>5, <1>6, <1>7, <1>8, <1>9, <1>10 DEF Next, Step, Environment

\* No write of this tool's replaces a credential that authenticates with one
\* that does not, whatever happens between the proof of a token and its apply.
THEOREM ReplacesNothingLive == Spec => NeverForTheWorse
<1>1. TypeInv /\ Newest /\ [Next]_vars
      => [/\ pass.pc = "credential" /\ secret'.credential # secret.credential
          /\ secret'.credential \in Tokens /\ Live(secret.credential)
          => Live(secret'.credential)]_vars
  <2> SUFFICES ASSUME TypeInv, Newest, Next, pass.pc = "credential",
                      secret'.credential # secret.credential, secret'.credential \in Tokens,
                      Live(secret.credential)
               PROVE  Live(secret'.credential)
    OBVIOUS
  <2>p. /\ pass \in Pass /\ secret \in Secret /\ bound \in [Tokens -> Incarnations]
        /\ account \in Incarnations
    BY DEF TypeInv, TypeOK
  <2>1. ASSUME ~ApplyCredential PROVE FALSE
    <3>1. CASE CallFails \/ RenewalFails \/ HalfLife \/ Restart
      BY <3>1 DEF CallFails, RenewalFails, HalfLife, Restart
    <3>2. CASE Step
      BY <2>1, <3>2 DEF Step, Begin, Access, ReadCA, SelfMint, SelfVerify, SelfStore, GetAccount,
                        CreateAccount, GetBinding, CreateBinding, Probe, Register, Mint, Verify,
                        Publish, Report
    <3>3. CASE DeleteAccount \/ DeleteBinding \/ Rebind \/ Edit \/ LoseStatus \/ Revoke \/ Bootstrap
      BY <3>3 DEF DeleteAccount, DeleteBinding, Rebind, Edit, LoseStatus, Revoke, Bootstrap
    <3>4. CASE DeleteSecret \/ OverwriteSecret
      <4>1. secret'.credential \in {NoToken, Foreign}
        <5>1. CASE DeleteSecret
          BY <5>1 DEF DeleteSecret, NoSecret
        <5>2. CASE OverwriteSecret
          BY <2>p, <5>2 DEF OverwriteSecret, Secret
        <5> QED BY <3>4, <5>1, <5>2
      <4> QED BY <4>1, ForeignIsNone
    <3> QED BY <3>1, <3>2, <3>3, <3>4 DEF Next, Environment
  <2>2. secret'.credential = pass.token /\ bound' = bound /\ account' = account
    BY <2>1, <2>p DEF ApplyCredential, Secret, cluster
  <2>3. bound[secret.credential] <= bound[pass.token] /\ bound[pass.token] <= account
    BY <2>2 DEF Newest, Live
  <2> QED BY <2>p, <2>2, <2>3 DEF Live, Incarnations
<1> QED BY <1>1, InitTypeInv, NextTypeInv, InitNewest, NextNewest, PTL DEF Spec, NeverForTheWorse
-----------------------------------------------------------------------------
(* A pass left to itself.  As long as nobody disturbs it, what it found of   *)
(* the identity is still so, and the Secret holds what it wrote there.      *)

Bound == {"probe", "register", "mint", "verify", "credential", "publish"}
Identified == {"getBinding", "createBinding"} \cup Bound

Published ==
    /\ secret.labelled /\ secret.want = pass.want /\ pass.work.want = pass.want
    /\ secret.credential = pass.work.credential /\ secret.credential # NoToken

Undisturbed ==
    /\ pass.ok => pass.pc = "report"
    /\ pass.quiet =>
        /\ pass.pc = "createBinding" => binding = "absent"
        /\ pass.pc \in Identified \/ pass.ok => account # 0 /\ owner # 0
        /\ pass.pc \in Bound \/ pass.ok => binding = "ok"
        /\ pass.pc = "publish" => secret.credential = pass.token
        /\ pass.ok => Published

LEMMA InitUndisturbed == Init => Undisturbed
BY DEF Init, Undisturbed, NoPass

LEMMA NextUndisturbed == TypeInv /\ Undisturbed /\ [Next]_vars => Undisturbed'
<1> SUFFICES ASSUME TypeInv, Undisturbed, [Next]_vars PROVE Undisturbed'
  OBVIOUS
<1> USE DEF cluster, used
<1>p. /\ pass \in Pass /\ secret \in Secret /\ pass.work \in Status
      /\ binding \in {"ok", "absent", "other"}
  BY DEF TypeInv, TypeOK, Pass
<1>n. /\ NoPass.ok = FALSE /\ NoPass.quiet = FALSE
      /\ Failed.pc = "report" /\ Failed.ok = FALSE
      /\ Unrenewed.pc = "getAccount" /\ Unrenewed.ok = pass.ok
  BY <1>p DEF NoPass, Failed, Unrenewed, Pass
<1>i. Identified \cap {"idle", "access", "ca", "selfMint", "selfVerify", "selfStore",
                       "getAccount", "createAccount", "report"} = {}
  BY DEF Identified, Bound
<1>a. ASSUME pass' \in {pass, NoPass, Failed}, UNCHANGED <<account, owner, binding, secret>>
      PROVE  Undisturbed'
  BY <1>a, <1>n, <1>i DEF Undisturbed, Published, Bound
<1>1. CASE UNCHANGED vars
  BY <1>1, <1>a DEF vars
<1>2. CASE Begin \/ Access \/ ReadCA \/ SelfMint \/ SelfVerify \/ SelfStore \/ RenewalFails
  <2>1. UNCHANGED <<account, owner, binding, secret>>
    BY <1>2 DEF Begin, Access, ReadCA, SelfMint, SelfVerify, SelfStore, RenewalFails
  <2>2. pass.pc # "report" /\ ~pass.ok
    BY <1>2 DEF Begin, Access, ReadCA, SelfMint, SelfVerify, SelfStore, RenewalFails, Undisturbed
  <2>3. /\ ~pass'.ok
        /\ pass'.pc \in {"access", "ca", "selfMint", "selfVerify", "selfStore", "getAccount", "report"}
    BY <1>2, <1>p, <1>n, <2>2 DEF Begin, Access, ReadCA, SelfMint, SelfVerify, SelfStore, RenewalFails,
                                  Pass, NoPass
  <2> QED BY <2>3, <1>i DEF Undisturbed, Identified
<1>3. CASE GetAccount
  <2>1. UNCHANGED <<account, owner, binding, secret>> /\ ~pass.ok
    BY <1>3 DEF GetAccount, Undisturbed
  <2>2. /\ ~pass'.ok /\ pass'.pc \in {"createAccount", "getBinding", "report"}
        /\ pass'.pc = "getBinding" => account # 0 /\ owner # 0
    BY <1>3, <1>p, <1>n, <2>1 DEF GetAccount, Pass, Works
  <2> QED BY <2>1, <2>2, <1>i DEF Undisturbed, Bound
<1>4. CASE CreateAccount
  <2>1. UNCHANGED <<owner, binding, secret>> /\ ~pass.ok
    BY <1>4 DEF CreateAccount, Undisturbed
  <2>2. ~pass'.ok /\ pass'.pc \in {"getBinding", "report"}
    BY <1>4, <1>p, <1>n, <2>1 DEF CreateAccount, Answer, Pass
  <2>3. pass'.pc = "getBinding" => account' # 0 /\ owner # 0
    <3>1. CASE Works(pass.own)
      BY <1>4, <3>1 DEF CreateAccount, Works, TypeInv, TypeOK, Incarnations
    <3>2. CASE ~Works(pass.own)
      BY <1>4, <3>2, <1>n DEF CreateAccount
    <3> QED BY <3>1, <3>2
  <2> QED BY <2>1, <2>2, <2>3, <1>i DEF Undisturbed, Bound
<1>5. CASE GetBinding
  <2>1. UNCHANGED <<account, owner, binding, secret>> /\ ~pass.ok /\ pass.pc \in Identified
    BY <1>5 DEF GetBinding, Undisturbed, Identified
  <2>2. /\ ~pass'.ok /\ pass'.quiet = pass.quiet /\ pass'.pc \in {"createBinding", "probe", "report"}
        /\ pass'.pc = "createBinding" => binding = "absent"
        /\ pass'.pc = "probe" => binding = "ok"
    BY <1>5, <1>p, <2>1 DEF GetBinding, Failed, Pass
  <2> QED BY <2>1, <2>2, <1>i DEF Undisturbed, Bound
<1>6. CASE CreateBinding
  <2>1. UNCHANGED <<account, owner, secret>> /\ ~pass.ok /\ pass.pc \in Identified
    BY <1>6 DEF CreateBinding, Undisturbed, Identified
  <2>2. /\ ~pass'.ok /\ pass'.quiet = pass.quiet /\ pass'.pc \in {"probe", "report"}
        /\ pass'.pc = "probe" => binding' = IF binding = "absent" THEN "ok" ELSE binding
    BY <1>6, <1>p, <2>1 DEF CreateBinding, Answer, Failed, Pass
  <2>3. pass.quiet => binding = "absent"
    BY <1>6 DEF CreateBinding, Undisturbed
  <2> QED BY <2>1, <2>2, <2>3, <1>i DEF Undisturbed, Bound
<1>7. CASE Probe \/ Verify \/ Mint
  <2>1. UNCHANGED <<account, owner, binding, secret>> /\ ~pass.ok /\ pass.pc \in Identified \cap Bound
    BY <1>7 DEF Probe, Verify, Mint, Undisturbed, Identified, Bound
  <2>2. /\ ~pass'.ok /\ pass'.quiet = pass.quiet
        /\ pass'.pc \in {"register", "mint", "credential", "verify", "report"}
    BY <1>7, <1>p, <2>1 DEF Probe, Verify, Mint, Failed, Pass
  <2> QED BY <2>1, <2>2, <1>i DEF Undisturbed, Bound
<1>8. CASE Register
  <2>1. UNCHANGED <<account, owner, binding>> /\ ~pass.ok /\ pass.pc \in Identified \cap Bound
    BY <1>8 DEF Register, Undisturbed, Identified, Bound
  <2>2. secret'.labelled /\ secret'.want = pass.want /\ secret'.credential = secret.credential
    BY <1>8, <1>p DEF Register, Secret
  <2>3. /\ pass'.quiet = pass.quiet /\ pass'.want = pass.want /\ pass'.work = pass.work
        /\ pass'.pc \in {"mint", "report"} /\ (pass'.ok => pass'.pc = "report")
        /\ pass'.ok => Current(secret.credential)
    BY <1>8, <1>p, <2>1 DEF Register, Answer, Failed, Pass
  <2>4. pass'.ok => Published'
    <3>1. Current(secret.credential) => pass.work.credential # NoToken /\ pass.work.want = pass.want
      BY <1>8, <1>p DEF Current, Register, TypeInv, Carried, Status
    <3> QED BY <2>2, <2>3, <3>1 DEF Published, Current
  <2> QED BY <2>1, <2>3, <2>4, <1>i DEF Undisturbed, Bound
<1>9. CASE ApplyCredential
  <2>1. UNCHANGED <<account, owner, binding>> /\ ~pass.ok /\ pass.pc \in Identified \cap Bound
    BY <1>9 DEF ApplyCredential, Undisturbed, Identified, Bound
  <2>2. secret'.credential = pass.token
    BY <1>9, <1>p DEF ApplyCredential, Secret
  <2>3. /\ ~pass'.ok /\ pass'.quiet = pass.quiet /\ pass'.token = pass.token
        /\ pass'.pc \in {"publish", "report"}
    BY <1>9, <1>p, <2>1 DEF ApplyCredential, Answer, Failed, Pass
  <2> QED BY <2>1, <2>2, <2>3, <1>i DEF Undisturbed, Bound
<1>10. CASE Publish
  <2>1. /\ UNCHANGED <<account, owner, binding>> /\ ~pass.ok /\ pass.pc \in Identified \cap Bound
        /\ pass.quiet => secret.credential = pass.token
    BY <1>10 DEF Publish, Undisturbed, Identified, Bound
  <2>2. secret'.labelled /\ secret'.want = pass.want /\ secret'.credential = secret.credential
    BY <1>10, <1>p DEF Publish, Secret
  <2>3. Recorded(pass.token).credential = pass.token /\ Recorded(pass.token).want = pass.want
    BY <1>p DEF Recorded, Status
  <2>4. /\ pass'.quiet = pass.quiet /\ pass'.want = pass.want /\ pass'.pc = "report"
        /\ pass'.ok => pass'.work = Recorded(pass.token) /\ secret.credential = pass.token
    BY <1>10, <1>p, <2>1 DEF Publish, Answer, Failed, Pass
  <2>5. pass.token # NoToken
    BY <1>10 DEF Publish, TypeInv, Carried
  <2>6. pass'.ok => Published'
    BY <2>2, <2>3, <2>4, <2>5 DEF Published
  <2> QED BY <2>1, <2>4, <2>6, <1>i DEF Undisturbed, Bound
<1>11. CASE Report \/ CallFails \/ HalfLife \/ Restart
  <2>1. pass' \in {pass, NoPass, Failed} /\ UNCHANGED <<account, owner, binding, secret>>
    BY <1>11 DEF Report, CallFails, HalfLife, Restart
  <2> QED BY <2>1, <1>a
<1>12. ASSUME Environment, ~Restart PROVE Undisturbed'
  <2>1. \E event : Meddle(event)
    BY <1>12 DEF Environment, DeleteAccount, DeleteBinding, Rebind, DeleteSecret, OverwriteSecret,
                 Edit, LoseStatus, Revoke, Bootstrap
  <2> QED BY <2>1, EventDisturbs DEF Undisturbed
<1> QED BY <1>1, <1>2, <1>3, <1>4, <1>5, <1>6, <1>7, <1>8, <1>9, <1>10, <1>11, <1>12
  DEF Next, Step, Environment

\* What a pass reports when nobody interfered is so: the registration it was
\* given is published, with the credential it recorded, for an identity that is
\* there and bound, whatever failed before.
THEOREM ReportsWhatIsPublished == Spec => []SuccessIsPublished
<1>1. Undisturbed => SuccessIsPublished
  BY DEF Undisturbed, Published, SuccessIsPublished
<1> QED BY <1>1, InitTypeInv, NextTypeInv, InitUndisturbed, NextUndisturbed, PTL DEF Spec
-----------------------------------------------------------------------------
(* A recreated account is followed up.  A record whose token went with an   *)
(* earlier account is known to the pass that created the present one; and   *)
(* where nothing cuts that pass short it ends with a new record, unless the *)
(* account or this tool's own access goes away once more.                   *)

Dead(token) == token \in Tokens /\ bound[token] # account

Standing ==
    /\ pass.pc = "idle" => ~pass.repaired
    /\ binding # "other"
    /\ "revoke" \in seen => owner = 0
    /\ owner # 0 => stored = owner
    /\ owner # 0 /\ pass.pc \notin {"idle", "access", "report"} => pass.own = owner

Followed ==
    owner # 0 /\ account # 0 =>
        /\ pass.pc \in {"verify", "credential", "publish"} => bound[pass.token] = account
        /\ Dead(status.credential) => pass.repaired
        /\ Dead(pass.work.credential) => pass.repaired /\ pass.pc \in Identified

FollowedUp == Uncut => Standing /\ Followed

LEMMA InitFollowedUp == Init => FollowedUp
BY ForeignIsNone DEF Init, FollowedUp, Standing, Followed, Dead, NoPass, NoStatus

\* Once cut short, a history stays so.
LEMMA UncutBefore == TypeInv /\ [Next]_vars /\ Uncut' => Uncut
<1> SUFFICES ASSUME TypeInv, [Next]_vars, Uncut' PROVE Uncut
  OBVIOUS
<1> USE DEF cluster, used
<1>1. seen \subseteq seen' /\ restarts' >= restarts /\ faults' >= faults
  <2>t. restarts \in Nat /\ faults \in Nat
    BY ReconcileAssumption DEF TypeInv, TypeOK
  <2>1. CASE UNCHANGED vars
    BY <2>1, <2>t DEF vars
  <2>2. CASE Step
    <3>1. UNCHANGED used
      BY <2>2 DEF Step, Begin, Access, ReadCA, SelfMint, SelfVerify, SelfStore, GetAccount,
                  CreateAccount, GetBinding, CreateBinding, Probe, Register, Mint, Verify,
                  ApplyCredential, Publish, Report
    <3>2. faults' = faults \/ faults' = faults + 1
      BY <2>2 DEF Step, Begin, Access, ReadCA, SelfMint, SelfVerify, SelfStore, GetAccount,
                  CreateAccount, GetBinding, CreateBinding, Probe, Register, Mint, Verify,
                  ApplyCredential, Publish, Report, Answer, Fault
    <3> QED BY <2>t, <3>1, <3>2
  <2>3. CASE CallFails \/ RenewalFails \/ HalfLife \/ Restart
    BY <2>3, <2>t DEF CallFails, RenewalFails, HalfLife, Restart, Fault
  <2>4. ASSUME Environment, ~Restart
        PROVE  seen \subseteq seen' /\ restarts' >= restarts /\ faults' >= faults
    <3>1. PICK event : Meddle(event)
      BY <2>4 DEF Environment, DeleteAccount, DeleteBinding, Rebind, DeleteSecret, OverwriteSecret,
                  Edit, LoseStatus, Revoke, Bootstrap
    <3>2. seen' = seen \cup {event} /\ restarts' = restarts /\ faults' = faults
      BY <3>1, EventDisturbs
    <3> QED BY <2>t, <3>2
  <2> QED BY <2>1, <2>2, <2>3, <2>4 DEF Next
<1> QED BY <1>1, ReconcileAssumption DEF Uncut, TypeInv, TypeOK

LEMMA UncutStep ==
    ASSUME TypeInv, Uncut'
    PROVE  ~Fault /\ ~CallFails /\ ~RenewalFails /\ ~Restart /\ ~Bootstrap /\ ~Rebind
<1>1. faults \in Nat /\ restarts \in Nat
  BY ReconcileAssumption DEF TypeInv, TypeOK
<1>2. faults' = 0 /\ restarts' = 0 /\ "rebind" \notin seen' /\ "bootstrap" \notin seen'
  BY DEF Uncut
<1>3. ~Fault /\ ~Restart
  BY <1>1, <1>2 DEF Fault, Restart
<1>4. ~Bootstrap /\ ~Rebind
  BY <1>2, EventDisturbs DEF Bootstrap, Rebind
<1> QED BY <1>3, <1>4 DEF CallFails, RenewalFails

LEMMA NextStanding == TypeInv /\ Own /\ Standing /\ Uncut' /\ [Next]_vars => Standing'
<1> SUFFICES ASSUME TypeInv, Own, Standing, Uncut', [Next]_vars PROVE Standing'
  OBVIOUS
<1> USE DEF cluster, used
<1>p. /\ pass \in Pass
      /\ NoPass.pc = "idle" /\ NoPass.repaired = FALSE
      /\ Failed.pc = "report" /\ Failed.repaired = pass.repaired
      /\ Unrenewed.pc = "getAccount" /\ Unrenewed.own = pass.own /\ Unrenewed.repaired = pass.repaired
  BY DEF TypeInv, TypeOK, NoPass, Failed, Unrenewed, Pass
<1>a. ASSUME UNCHANGED <<owner, stored, seen>>, binding' # "other",
             pass'.pc = "idle" => ~pass'.repaired,
             pass'.pc \in {"idle", "access", "report"} \/ pass'.own = stored
                 \/ (pass'.own = pass.own /\ pass.pc \notin {"idle", "access", "report"})
      PROVE  Standing'
  BY <1>a DEF Standing
<1>1. CASE UNCHANGED vars
  BY <1>1 DEF vars, Standing
<1>2. CASE Begin \/ Access
  <2>1. UNCHANGED <<owner, stored, seen, binding>>
    BY <1>2 DEF Begin, Access
  <2>2. pass'.pc # "idle" /\ (pass'.pc \in {"access", "report"} \/ pass'.own = stored)
    BY <1>2, <1>p DEF Begin, Access, Pass, NoPass
  <2> QED BY <1>a, <2>1, <2>2 DEF Standing
<1>3. CASE ReadCA \/ SelfMint \/ SelfVerify
  <2>1. UNCHANGED <<owner, stored, seen, binding>> /\ pass.pc \notin {"idle", "access", "report"}
    BY <1>3 DEF ReadCA, SelfMint, SelfVerify
  <2>2. pass'.pc # "idle" /\ (pass'.pc = "report" \/ pass'.own = pass.own)
    BY <1>3, <1>p DEF ReadCA, SelfMint, SelfVerify, Pass
  <2> QED BY <1>a, <2>1, <2>2 DEF Standing
<1>4. CASE SelfStore
  <2>1. UNCHANGED <<owner, seen, binding>> /\ stored' = pass.fresh /\ pass.pc = "selfStore"
    BY <1>4 DEF SelfStore
  <2>2. pass'.pc = "getAccount" /\ pass'.own = pass.own
    BY <1>4, <1>p DEF SelfStore, Pass
  <2>3. owner # 0 => pass.fresh = owner
    BY <2>1 DEF Standing, Own, Works
  <2> QED BY <2>1, <2>2, <2>3 DEF Standing
<1>5. CASE GetAccount \/ CreateAccount \/ GetBinding \/ CreateBinding \/ Probe
  <2>1. /\ UNCHANGED <<owner, stored, seen>> /\ pass.pc \notin {"idle", "access", "report"}
        /\ binding' \in {binding, "ok"}
    BY <1>5 DEF GetAccount, CreateAccount, GetBinding, CreateBinding, Probe
  <2>2. pass'.pc # "idle" /\ (pass'.pc = "report" \/ pass'.own = pass.own)
    BY <1>5, <1>p DEF GetAccount, CreateAccount, GetBinding, CreateBinding, Probe, Answer, Pass
  <2> QED BY <1>a, <2>1, <2>2 DEF Standing
<1>6. CASE Register \/ Mint \/ Verify \/ ApplyCredential \/ Publish
  <2>1. UNCHANGED <<owner, stored, seen, binding>> /\ pass.pc \notin {"idle", "access", "report"}
    BY <1>6 DEF Register, Mint, Verify, ApplyCredential, Publish
  <2>2. pass'.pc # "idle" /\ (pass'.pc = "report" \/ pass'.own = pass.own)
    BY <1>6, <1>p DEF Register, Mint, Verify, ApplyCredential, Publish, Answer, Pass
  <2> QED BY <1>a, <2>1, <2>2 DEF Standing
<1>7. CASE Report
  <2>1. UNCHANGED <<owner, stored, seen, binding>> /\ pass' = NoPass
    BY <1>7 DEF Report
  <2> QED BY <1>a, <1>p, <2>1 DEF Standing
<1>8. CASE HalfLife
  <2>1. UNCHANGED <<owner, stored, seen, binding, pass>>
    BY <1>8 DEF HalfLife
  <2> QED BY <2>1 DEF Standing
<1>9. CASE DeleteAccount \/ DeleteBinding \/ DeleteSecret \/ OverwriteSecret \/ Edit \/ LoseStatus
  <2>1. \E event \in {"delete account", "delete binding", "delete secret", "overwrite secret",
                      "edit", "lose status"} : Meddle(event)
    BY <1>9 DEF DeleteAccount, DeleteBinding, DeleteSecret, OverwriteSecret, Edit, LoseStatus
  <2>2. PICK event : Meddle(event) /\ event # "revoke"
    BY <2>1
  <2>3. /\ "revoke" \in seen' => "revoke" \in seen
        /\ pass'.pc = pass.pc /\ pass'.own = pass.own /\ pass'.repaired = pass.repaired
    BY <2>2, EventDisturbs
  <2>4. UNCHANGED <<owner, stored>> /\ binding' \in {binding, "absent"}
    BY <1>9 DEF DeleteAccount, DeleteBinding, DeleteSecret, OverwriteSecret, Edit, LoseStatus
  <2> QED BY <2>3, <2>4 DEF Standing
<1>10. CASE Revoke
  BY <1>10, EventDisturbs DEF Revoke, Standing
<1> QED BY UncutStep, <1>1, <1>2, <1>3, <1>4, <1>5, <1>6, <1>7, <1>8, <1>9, <1>10
  DEF Next, Step, Environment
LEMMA NextFollowed ==
  TypeInv /\ Newest /\ Standing /\ Followed /\ Uncut' /\ [Next]_vars => Followed'
<1> SUFFICES ASSUME TypeInv, Newest, Standing, Followed, Uncut', [Next]_vars PROVE Followed'
  OBVIOUS
<1> DEFINE Proved == {"verify", "credential", "publish"}
<1> USE DEF cluster, used
<1>p. /\ pass \in Pass /\ pass.work \in Status /\ status \in Status
      /\ bound \in [Tokens -> Incarnations] /\ account \in Incarnations /\ created \in Incarnations
      /\ NoPass.pc = "idle" /\ NoPass.repaired = FALSE /\ NoPass.work.credential = NoToken
      /\ NoStatus.credential = NoToken
      /\ Failed.pc = "report" /\ Failed.repaired = pass.repaired /\ Failed.work = pass.work
      /\ Unrenewed.pc = "getAccount" /\ Unrenewed.repaired = pass.repaired
      /\ Unrenewed.work = pass.work /\ Unrenewed.token = pass.token
  BY DEF TypeInv, TypeOK, NoPass, NoStatus, Failed, Unrenewed, Pass
<1>d. ~Dead(NoToken)
  BY ForeignIsNone DEF Dead
<1>i. /\ Identified \cap {"idle", "access", "ca", "selfMint", "selfVerify", "selfStore",
                          "getAccount", "createAccount", "report"} = {}
      /\ Proved \subseteq Identified
  BY DEF Identified, Bound
<1>a. ASSUME UNCHANGED <<account, owner, bound>>, status'.credential \in {status.credential, NoToken},
             pass'.repaired = pass.repaired, pass'.work = pass.work, pass'.token = pass.token,
             pass'.pc \in Proved => pass.pc \in Proved,
             pass.pc \in Identified => pass'.pc \in Identified
      PROVE  Followed'
  BY <1>a, <1>d DEF Followed, Dead
<1>1. CASE UNCHANGED vars
  BY <1>1, <1>a DEF vars
<1>2. CASE Begin
  <2>1. UNCHANGED <<account, owner, bound, status>> /\ ~pass.repaired
    BY <1>2 DEF Begin, Standing
  <2>2. pass'.pc = "access" /\ pass'.work = status
    BY <1>2, <1>p DEF Begin, NoPass
  <2> QED BY <2>1, <2>2, <1>i DEF Followed, Dead
<1>3. CASE Access \/ ReadCA \/ SelfMint \/ SelfVerify \/ SelfStore \/ GetAccount
  <2>1. UNCHANGED <<account, owner, bound, status>> /\ pass.pc \notin Identified
    BY <1>3, <1>i DEF Access, ReadCA, SelfMint, SelfVerify, SelfStore, GetAccount
  <2>2. /\ pass'.repaired = pass.repaired /\ pass'.work = pass.work /\ pass'.token = pass.token
        /\ pass'.pc \notin Proved
    <3>1. CASE Access \/ ReadCA \/ GetAccount
      BY <3>1, <1>p DEF Access, ReadCA, GetAccount, Failed, Pass
    <3>2. CASE SelfMint \/ SelfVerify \/ SelfStore
      BY <3>2, <1>p DEF SelfMint, SelfVerify, SelfStore, Pass
    <3> QED BY <1>3, <3>1, <3>2
  <2> QED BY <1>a, <2>1, <2>2
<1>4. CASE CreateAccount
  <2>1. UNCHANGED <<owner, bound, status>> /\ pass.pc \notin Identified
    BY <1>4, <1>i DEF CreateAccount
  <2>2. CASE account' = account
    <3>1. account # 0 => /\ pass'.repaired = pass.repaired /\ pass'.work = pass.work
                         /\ pass'.pc \in {"getBinding", "report"}
      BY <1>4, <1>p DEF CreateAccount, Failed, Pass
    <3> QED BY <1>i, <2>1, <2>2, <3>1 DEF Followed, Dead
  <2>3. CASE account' # account
    <3>1. pass' = [pass EXCEPT !.pc = "getBinding", !.repaired = TRUE]
      BY <1>4, <2>3, UncutStep DEF CreateAccount, Answer
    <3>2. pass'.repaired /\ pass'.pc = "getBinding"
      BY <1>p, <3>1 DEF Pass
    <3> QED BY <3>2 DEF Followed, Identified
  <2> QED BY <2>2, <2>3
<1>5. CASE GetBinding \/ CreateBinding
  <2>1. /\ UNCHANGED <<account, owner, bound, status>>
        /\ pass.pc \notin Proved
        /\ owner # 0 => Works(pass.own)
    BY <1>5 DEF GetBinding, CreateBinding, Standing, Works
  <2>2. /\ pass'.repaired = pass.repaired /\ pass'.work = pass.work /\ pass'.token = pass.token
        /\ pass'.pc \notin Proved
        /\ owner # 0 => pass'.pc \in Identified
    <3>1. CASE GetBinding
      BY <3>1, <1>p, <2>1 DEF GetBinding, Failed, Pass, Identified, Bound, Standing
    <3>2. CASE CreateBinding
      <4>1. pass' = Failed \/ pass' = [pass EXCEPT !.pc = "probe"]
        BY <3>2, UncutStep DEF CreateBinding, Answer
      <4>2. owner # 0 => pass' = [pass EXCEPT !.pc = "probe"]
        BY <3>2, <2>1, UncutStep DEF CreateBinding, Answer
      <4>3. /\ pass'.repaired = pass.repaired /\ pass'.work = pass.work /\ pass'.token = pass.token
            /\ pass'.pc \in {"report", "probe"}
        BY <1>p, <4>1 DEF Failed, Pass
      <4>4. owner # 0 => pass'.pc = "probe"
        BY <1>p, <4>2 DEF Pass
      <4> QED BY <4>3, <4>4 DEF Identified, Bound
    <3> QED BY <1>5, <3>1, <3>2
  <2> QED BY <2>1, <2>2 DEF Followed, Dead
<1>6. CASE Probe
  <2>1. UNCHANGED <<account, owner, bound, status>>
    BY <1>6 DEF Probe
  <2>2. /\ pass'.repaired = pass.repaired /\ pass'.work = pass.work /\ pass'.token = pass.token
        /\ pass'.pc \in {"register", "mint"}
    BY <1>6, <1>p DEF Probe, Pass
  <2> QED BY <1>a, <2>1, <2>2 DEF Identified, Bound
<1>7. CASE Register
  <2>1. UNCHANGED <<account, owner, bound, status>>
    BY <1>7 DEF Register
  <2>2. /\ pass'.repaired = pass.repaired /\ pass'.work = pass.work /\ pass'.token = pass.token
        /\ pass'.pc \in {"mint", "report"}
        /\ pass'.pc = "report" => ~pass.repaired
    <3>1. pass' = IF Current(secret.credential) THEN [pass EXCEPT !.pc = "report", !.ok = TRUE]
                  ELSE [pass EXCEPT !.pc = "mint"]
      BY <1>7, UncutStep DEF Register, Answer
    <3>2. \/ Current(secret.credential) /\ pass' = [pass EXCEPT !.pc = "report", !.ok = TRUE]
          \/ pass' = [pass EXCEPT !.pc = "mint"]
      BY <3>1
    <3> QED BY <1>p, <3>2 DEF Pass, Current
  <2> QED BY <1>i, <2>1, <2>2 DEF Followed, Dead, Identified, Bound
<1>8. CASE Mint
  <2>1. UNCHANGED <<account, owner, status>> /\ pass.pc = "mint"
    BY <1>8 DEF Mint
  <2>2. CASE account # 0 /\ owner # 0
    <3>1. Works(pass.own)
      BY <2>1, <2>2 DEF Standing, Works
    <3>2. /\ bound' = [bound EXCEPT ![NewToken] = account]
          /\ pass' = [pass EXCEPT !.pc = "verify", !.token = NewToken]
      BY <1>8, <2>2, <3>1, UncutStep DEF Mint
    <3>3. NewToken \in Tokens \ InUse
      BY <2>1, NewTokenUnused DEF TypeInv
    <3>4. \A t \in InUse : Dead(t)' <=> Dead(t)
      BY <1>p, <2>1, <3>2, <3>3 DEF Dead
    <3>5. bound'[NewToken] = account
      BY <1>p, <3>2, <3>3
    <3>6. /\ pass'.repaired = pass.repaired /\ pass'.work = pass.work /\ pass'.token = NewToken
          /\ pass'.pc = "verify"
      BY <1>p, <3>2 DEF Pass
    <3> QED BY <2>1, <2>2, <3>4, <3>5, <3>6 DEF Followed, InUse, Identified, Bound
  <2>3. CASE ~(account # 0 /\ owner # 0)
    BY <2>1, <2>3 DEF Followed
  <2> QED BY <2>2, <2>3
<1>9. CASE Verify
  <2>1. UNCHANGED <<account, owner, bound, status>> /\ pass.pc = "verify"
    BY <1>9 DEF Verify
  <2>2. owner # 0 /\ account # 0 => Live(pass.token)
    BY <1>p, <2>1 DEF Followed, Live, TypeInv, Carried, Pass
  <2>3. owner # 0 /\ account # 0 => pass' = [pass EXCEPT !.pc = "credential"]
    BY <1>9, <2>2 DEF Verify
  <2>4. owner # 0 /\ account # 0 =>
          /\ pass'.repaired = pass.repaired /\ pass'.work = pass.work /\ pass'.token = pass.token
          /\ pass'.pc = "credential"
    BY <1>p, <2>3 DEF Pass
  <2> QED BY <2>1, <2>4 DEF Followed, Dead, Identified, Bound
<1>10. CASE ApplyCredential
  <2>1. UNCHANGED <<account, owner, bound, status>> /\ pass.pc = "credential"
    BY <1>10 DEF ApplyCredential
  <2>2. /\ pass'.repaired = pass.repaired /\ pass'.work = pass.work /\ pass'.token = pass.token
        /\ pass'.pc = "publish"
    <3>1. pass' = [pass EXCEPT !.pc = "publish"]
      BY <1>10, UncutStep DEF ApplyCredential, Answer
    <3> QED BY <1>p, <3>1 DEF Pass
  <2> QED BY <1>a, <2>1, <2>2 DEF Identified, Bound
<1>11. CASE Publish
  <2>1. UNCHANGED <<account, owner, bound, status>> /\ pass.pc = "publish"
    BY <1>11 DEF Publish
  <2>2. /\ pass'.repaired = pass.repaired /\ pass'.work = Recorded(pass.token)
        /\ pass'.pc = "report"
    <3>1. \E ok : pass' = [pass EXCEPT !.pc = "report", !.work = Recorded(pass.token), !.ok = ok]
      BY <1>11, UncutStep DEF Publish, Answer
    <3> QED BY <1>p, <3>1 DEF Pass
  <2>3. Recorded(pass.token).credential = pass.token
    BY <1>p DEF Recorded, Status
  <2> QED BY <1>i, <2>1, <2>2, <2>3 DEF Followed, Dead
<1>12. CASE Report
  <2>1. UNCHANGED <<account, owner, bound>> /\ pass' = NoPass /\ pass.pc = "report"
    BY <1>12 DEF Report
  <2>2. status'.credential = pass.work.credential
    BY <1>12, <1>p, UncutStep DEF Report, Status
  <2> QED BY <1>d, <1>i, <1>p, <2>1, <2>2 DEF Followed, Dead
<1>13. CASE HalfLife
  <2>1. UNCHANGED <<account, owner, bound, pass>> /\ status'.credential = status.credential
    BY <1>13, <1>p DEF HalfLife, Status
  <2> QED BY <1>a, <2>1
<1>14. CASE DeleteBinding \/ DeleteSecret \/ OverwriteSecret \/ Edit \/ LoseStatus
  <2>1. \E event : Meddle(event)
    BY <1>14 DEF DeleteBinding, DeleteSecret, OverwriteSecret, Edit, LoseStatus
  <2>2. UNCHANGED <<account, owner>> /\ status' \in {status, NoStatus}
    BY <1>14 DEF DeleteBinding, DeleteSecret, OverwriteSecret, Edit, LoseStatus
  <2> QED BY <1>a, <1>p, <2>1, <2>2, EventDisturbs
<1>15. CASE DeleteAccount \/ Revoke
  BY <1>15 DEF DeleteAccount, Revoke, Followed
<1> QED BY UncutStep, <1>1, <1>2, <1>3, <1>4, <1>5, <1>6, <1>7, <1>8, <1>9, <1>10, <1>11, <1>12, <1>13,
           <1>14, <1>15 DEF Next, Step, Environment

LEMMA NextFollowedUp ==
  TypeInv /\ Own /\ Newest /\ FollowedUp /\ [Next]_vars => FollowedUp'
BY UncutBefore, NextStanding, NextFollowed DEF FollowedUp

\* Where nothing cuts a pass short, a credential reported as published
\* authenticates, however the ServiceAccount came and went: the pass that creates
\* it again reissues, whatever the record says.
THEOREM ReportsWhatIsAlive == Spec => []SuccessIsAlive
<1>1. TypeInv /\ OwnRecord /\ Undisturbed /\ FollowedUp => SuccessIsAlive
  <2> SUFFICES ASSUME TypeInv, OwnRecord, Undisturbed, FollowedUp, Uncut,
                      pass.pc = "report", pass.ok, pass.quiet
               PROVE  Live(secret.credential)
    BY DEF SuccessIsAlive, Alive
  <2>1. owner # 0 /\ account # 0 /\ secret.credential = pass.work.credential /\ secret.credential # NoToken
    BY DEF Undisturbed, Published
  <2>2. secret.credential \in Tokens
    BY <2>1 DEF OwnRecord, TypeInv, TypeOK, Secret
  <2>3. ~Dead(pass.work.credential)
    BY <2>1 DEF FollowedUp, Followed, Identified, Bound
  <2> QED BY <2>1, <2>2, <2>3 DEF Dead, Live
<1> QED BY <1>1, InitTypeInv, NextTypeInv, InitOwn, NextOwn, InitOwnRecord, NextOwnRecord,
           InitNewest, NextNewest, InitUndisturbed, NextUndisturbed, InitFollowedUp, NextFollowedUp,
           PTL DEF Spec
-----------------------------------------------------------------------------
(* What the process does by itself cannot undo what is right: the half of    *)
(* Heals that is no liveness.                                               *)

\* What ArgoCD has is right, and a pass under way was given what it is right by.
Settled == Healthy /\ (pass.pc # "idle" => pass.want = want)

\* Once what ArgoCD has is right it stays right until somebody meddles, whatever
\* fails, ages or is restarted: passes go on, replace its credential, write its
\* registration anew, and are cut short anywhere (reconcile).
THEOREM WhatIsRightStays == Spec => [][Settled /\ events' = events => Settled']_vars
<1>1. TypeInv /\ Newest /\ [Next]_vars => [Settled /\ events' = events => Settled']_vars
  <2> SUFFICES ASSUME TypeInv, Newest, Next, Settled, events' = events PROVE Settled'
    OBVIOUS
  <2> USE DEF cluster, used
  <2>p. /\ pass \in Pass /\ secret \in Secret /\ bound \in [Tokens -> Incarnations]
        /\ account \in Incarnations /\ events \in Nat
        /\ Failed.pc = "report" /\ Unrenewed.pc = "getAccount" /\ NoPass.pc = "idle"
        /\ Failed.want = pass.want /\ Unrenewed.want = pass.want
    BY ReconcileAssumption DEF TypeInv, TypeOK, Failed, Unrenewed, NoPass, Pass
  <2>h. /\ account # 0 /\ binding = "ok" /\ secret.labelled /\ secret.want = want
        /\ secret.credential \in Tokens /\ bound[secret.credential] = account
    BY DEF Settled, Healthy, Live
  <2>s. ASSUME UNCHANGED <<account, binding, secret, want>>, bound'[secret.credential] = account,
               pass'.pc = "idle" \/ pass'.want = want
        PROVE  Settled'
    BY <2>h, <2>s DEF Settled, Healthy, Live
  <2>w. pass.pc # "idle" => pass.want = want
    BY DEF Settled
  <2>1. CASE Begin \/ Report \/ HalfLife \/ Restart
    <3>1. UNCHANGED <<account, binding, secret, want, bound>>
      BY <2>1 DEF Begin, Report, HalfLife, Restart
    <3>2. pass'.pc = "idle" \/ pass'.want = want
      BY <2>1, <2>p, <2>w DEF Begin, Report, HalfLife, Restart, NoPass
    <3> QED BY <2>h, <2>s, <3>1, <3>2
  <2>2. CASE Access \/ ReadCA \/ SelfMint \/ SelfVerify \/ SelfStore \/ CallFails \/ RenewalFails
    <3>1. UNCHANGED <<account, binding, secret, want, bound>>
      BY <2>2 DEF Access, ReadCA, SelfMint, SelfVerify, SelfStore, CallFails, RenewalFails
    <3>2. pass'.want = pass.want /\ pass.pc # "idle"
      BY <2>2, <2>p DEF Access, ReadCA, SelfMint, SelfVerify, SelfStore, CallFails, RenewalFails, Pass, Calls
    <3> QED BY <2>h, <2>s, <2>w, <3>1, <3>2
  <2>3. CASE GetAccount \/ GetBinding \/ Probe \/ Verify
    <3>1. UNCHANGED <<account, binding, secret, want, bound>>
      BY <2>3 DEF GetAccount, GetBinding, Probe, Verify
    <3>2. pass'.want = pass.want /\ pass.pc # "idle"
      BY <2>3, <2>p DEF GetAccount, GetBinding, Probe, Verify, Pass
    <3> QED BY <2>h, <2>s, <2>w, <3>1, <3>2
  <2>4. CASE CreateAccount \/ CreateBinding
    <3>1. UNCHANGED <<account, binding, secret, want, bound>>
      BY <2>4, <2>h DEF CreateAccount, CreateBinding
    <3>2. pass'.want = pass.want /\ pass.pc # "idle"
      BY <2>4, <2>p DEF CreateAccount, CreateBinding, Answer, Pass
    <3> QED BY <2>h, <2>s, <2>w, <3>1, <3>2
  <2>5. CASE Mint
    <3>1. UNCHANGED <<account, binding, secret, want>>
      BY <2>5 DEF Mint
    <3>2. pass'.want = pass.want /\ pass.pc # "idle"
      BY <2>5, <2>p DEF Mint, Pass
    <3>3. NewToken \in Tokens \ InUse
      BY <2>5, NewTokenUnused DEF Mint, TypeInv
    <3>4. secret.credential # NewToken
      BY <3>3 DEF InUse
    <3>5. bound' = bound \/ \E a \in {account, 0} : bound' = [bound EXCEPT ![NewToken] = a]
      BY <2>5 DEF Mint
    <3>6. bound'[secret.credential] = account
      BY <2>p, <2>h, <3>4, <3>5
    <3> QED BY <2>h, <2>s, <2>w, <3>1, <3>2, <3>6
  <2>6. CASE Register \/ Publish
    <3>1. /\ UNCHANGED <<account, binding, want, bound>>
          /\ secret' = [secret EXCEPT !.labelled = TRUE, !.want = pass.want]
      BY <2>6 DEF Register, Publish
    <3>2. pass'.want = pass.want /\ pass.pc # "idle"
      BY <2>6, <2>p DEF Register, Publish, Answer, Pass
    <3>3. secret' = secret
      BY <2>p, <2>h, <2>w, <3>1, <3>2 DEF Secret
    <3> QED BY <2>h, <2>s, <2>w, <3>1, <3>2, <3>3
  <2>7. CASE ApplyCredential
    <3>1. /\ UNCHANGED <<account, binding, want, bound>> /\ pass.pc = "credential"
          /\ secret' = [secret EXCEPT !.credential = pass.token]
      BY <2>7 DEF ApplyCredential
    <3>2. pass'.want = pass.want
      BY <2>7, <2>p DEF ApplyCredential, Answer, Pass
    <3>3. pass.token \in Tokens
      BY <2>p, <3>1 DEF TypeInv, Carried, Pass
    <3>4. bound[pass.token] = account
      BY <2>p, <2>h, <3>1, <3>3 DEF Newest, Incarnations
    <3>5. /\ secret'.credential = pass.token /\ secret'.labelled = secret.labelled
          /\ secret'.want = secret.want
      BY <2>p, <3>1 DEF Secret
    <3> QED BY <2>h, <2>w, <3>1, <3>2, <3>3, <3>4, <3>5 DEF Settled, Healthy, Live
  <2>8. ASSUME NEW event, Meddle(event) PROVE FALSE
    BY <2>p, <2>8 DEF Meddle
  <2>9. CASE Environment
    BY <2>1, <2>8, <2>9 DEF Environment, DeleteAccount, DeleteBinding, Rebind, DeleteSecret,
                            OverwriteSecret, Edit, LoseStatus, Revoke, Bootstrap
  <2> QED BY <2>1, <2>2, <2>3, <2>4, <2>5, <2>6, <2>7, <2>9 DEF Next, Step
<1> QED BY <1>1, InitTypeInv, NextTypeInv, InitNewest, NextNewest, PTL DEF Spec
=============================================================================
