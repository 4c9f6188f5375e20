------------------------------ MODULE Lifetimes ------------------------------
(***************************************************************************)
(* Two credentials run out: the token published for ArgoCD, and the one     *)
(* this tool works with.  What keeps them alive is a cadence that the first *)
(* of them sets (nextInterval, dueAfterPass, backoff), quantised to the     *)
(* poll, and the rules by which a pass replaces them (ReissueAt,            *)
(* selfCredentialDue).  One cluster, in real time.                          *)
(***************************************************************************)
EXTENDS Integers

CONSTANTS
    \* Durations, in a unit of time that divides them all.
    PollInterval, MinPassInterval, MaxPassInterval, RetryInterval, MaxRetryInterval,
    ClusterTimeout,
    ListTime,        \* what a List takes before the clock is read, at most
    SelfRenewInterval,
    TokenTTL, SelfTokenTTL,     \* the lifetimes requested
    TokenGrants, SelfGrants     \* those an API server may grant

DueSlack == PollInterval \div 2

ASSUME LifetimesAssumption ==
    /\ PollInterval \in Nat \ {0}
    /\ RetryInterval \in Nat /\ MaxRetryInterval \in Nat /\ RetryInterval <= MaxRetryInterval
    /\ MinPassInterval \in Nat /\ MaxPassInterval \in Nat /\ MinPassInterval <= MaxPassInterval
    /\ ClusterTimeout \in Nat /\ ListTime \in 0..(PollInterval - 1)
    /\ SelfRenewInterval \in Nat /\ TokenTTL \in Nat /\ SelfTokenTTL \in Nat
    \* an API server caps what is requested, and never exceeds it
    /\ TokenGrants \subseteq 1..TokenTTL /\ SelfGrants \subseteq 1..SelfTokenTTL

VARIABLES
    tick, listing,   \* time to the next poll; whether one is reading the inventory
    due, backoff,    \* time to dueAt, and the wait after the next failure
    pass,            \* the pass in flight
    token, own,      \* the two credentials
    ready,           \* Ready in the status the last pass wrote
    failures,        \* history: passes failed since one succeeded; -1 before the first success
    refused,         \* history: a pass or a renewal failed while there was access
    since            \* history: while nothing is wrong and no pass runs, since the last began

schedule == <<tick, listing, due, backoff>>
history == <<failures, refused>>
vars == <<schedule, pass, token, own, ready, history, since>>

\* `age` and `left` add up to what was granted, as the recorded times tell it;
\* `dated`: the issue time is recorded; `deadline`: the expiry is.
Credential == [age : Nat, left : Nat, dated : BOOLEAN, deadline : BOOLEAN]
Issued(granted, dated) == [age |-> 0, left |-> granted, dated |-> dated, deadline |-> TRUE]
Endless(granted) == [age |-> 0, left |-> granted, dated |-> FALSE, deadline |-> FALSE]
Unrecorded == Endless(0)
\* What a pass decides by the time it begins: `ran` ago.
Pass == [ran : 0..ClusterTimeout, access : BOOLEAN, reissue : BOOLEAN, renew : BOOLEAN,
         critical : BOOLEAN]
NoPass == [ran |-> -1, access |-> FALSE, reissue |-> FALSE, renew |-> FALSE, critical |-> FALSE]

Larger(a, b) == IF a >= b THEN a ELSE b
Smaller(a, b) == IF a <= b THEN a ELSE b

TypeOK ==
    /\ tick \in 0..PollInterval /\ listing \in BOOLEAN
    /\ due \in 0..Larger(MaxPassInterval, MaxRetryInterval)
    /\ backoff \in 0..Larger(RetryInterval, MaxRetryInterval)
    /\ pass \in Pass \cup {NoPass}
    /\ token \in Credential /\ own \in Credential
    /\ ready \in BOOLEAN /\ failures \in -1..2 /\ refused \in BOOLEAN /\ since \in Nat

(* A process starts: the token is not published yet, or was by a release    *)
(* that recorded no issue time; its own credential has just come from       *)
(* bootstrap, which records none, or from a renewal, or has no expiry.      *)
Init ==
    /\ tick = 0 /\ listing = FALSE /\ due = 0 /\ backoff = RetryInterval
    /\ pass = NoPass
    /\ token = Unrecorded \/ \E granted \in TokenGrants : token = Issued(granted, FALSE)
    /\ \E granted \in SelfGrants :
           own = Endless(granted) \/ \E dated \in BOOLEAN : own = Issued(granted, dated)
    /\ ready = TRUE /\ failures = -1 /\ refused = FALSE /\ since = 0

-----------------------------------------------------------------------------
(* When a credential is replaced.                                           *)

\* NeedsRefresh, as far as time decides it: half the lifetime granted is over,
\* or, where the issue time is missing, half of that requested.
Reissue(c) ==
    \/ ~c.deadline
    \/ c.dated /\ c.age >= c.left
    \/ ~c.dated /\ 2 * c.left <= TokenTTL

\* selfCredentialDue
RenewalDueByAge(c) ==    \* mutant
    ~c.deadline \/ (IF c.dated THEN c.age ELSE SelfTokenTTL - c.left) >= SelfRenewInterval
RenewalDue(c) ==
    \/ ~c.deadline
    \/ c.deadline /\ ~c.dated /\ SelfTokenTTL - c.left >= SelfRenewInterval
    \/ c.deadline /\ c.dated /\ (c.age >= SelfRenewInterval \/ c.age >= c.left)

\* selfCredentialCritical
Granted(c) == IF c.dated THEN c.age + c.left ELSE SelfTokenTTL
CriticalByShare(c) == ~c.deadline \/ c.left < Granted(c) \div 4    \* mutant
Critical(c) == ~c.deadline \/ c.left < Larger(Granted(c) \div 4, SelfRenewInterval)

-----------------------------------------------------------------------------
(* The cadence.                                                             *)

Working == pass.ran >= 0

Poll ==
    /\ tick = 0
    /\ tick' = PollInterval /\ listing' = TRUE
    /\ UNCHANGED <<due, backoff, pass, token, own, ready, history, since>>

\* claimDue
ClaimedWithoutSlack == ~Working /\ due = 0    \* mutant
Claimed == ~Working /\ due <= DueSlack

\* dispatch, and reconcileOne up to what it decides by the clock.
Dispatch ==
    /\ listing
    /\ listing' = FALSE
    /\ IF Claimed
       THEN /\ pass' = [ran |-> 0, access |-> own.left > 0, reissue |-> Reissue(token),
                        renew |-> RenewalDue(own), critical |-> Critical(own)]
            /\ since' = 0
       ELSE UNCHANGED <<pass, since>>
    /\ UNCHANGED <<tick, due, backoff, token, own, ready, history>>

\* A token asked for within the pass: what is left of it when the pass ends,
\* and an issue time that is the beginning of the pass.
Minted(granted, waited) ==
    [age |-> pass.ran, left |-> Larger(granted - waited, 0), dated |-> TRUE, deadline |-> TRUE]
Replacements(grants) == {Minted(granted, waited) : granted \in grants, waited \in 0..pass.ran}

\* nextInterval, of the time the pass began; dueAfterPass, seen from its end.
NextIntervalAtMost(c) == MaxPassInterval    \* mutant
NextInterval(c) ==
    Larger(Smaller(MaxPassInterval, (c.left + pass.ran) \div 2), MinPassInterval)
DueAfterPass(c) == Larger(NextInterval(c) - pass.ran, 0)

Backoff == Smaller(2 * backoff, MaxRetryInterval)

\* maintainSelfCredential: renewed, or not and the pass goes on with the old one.
Maintain ==
    own' \in {own} \cup IF pass.renew /\ pass.access THEN Replacements(SelfGrants) ELSE {}
Refused == pass.renew /\ own' = own

PassSucceeds ==
    /\ Working /\ pass.access
    /\ Maintain
    /\ token' \in IF pass.reissue THEN Replacements(TokenGrants) ELSE {token}
    /\ ready' = ~(Refused /\ pass.critical)
    /\ due' = DueAfterPass(token') /\ backoff' = RetryInterval
    /\ failures' = 0 /\ refused' = (refused \/ Refused)
    /\ since' = pass.ran /\ pass' = NoPass
    /\ UNCHANGED <<tick, listing>>

\* Before it published anything, with the own credential renewed or not.
PassFails ==
    /\ Working
    /\ Maintain
    /\ ready' = FALSE
    /\ due' = backoff /\ backoff' = Backoff
    /\ failures' = (IF failures \in {-1, 2} THEN failures ELSE failures + 1)
    /\ refused' = (refused \/ pass.access)
    /\ pass' = NoPass
    /\ UNCHANGED <<tick, listing, token, since>>

\* Time passes, unless a poll, a List or a pass has to move first.
Aged(c) == IF c.left = 0 THEN c ELSE [c EXCEPT !.age = @ + 1, !.left = @ - 1]
Advance ==
    /\ tick > 0 /\ tick' = tick - 1
    /\ listing => PollInterval - tick < ListTime
    /\ pass.ran < ClusterTimeout
    /\ pass' = IF Working THEN [pass EXCEPT !.ran = @ + 1] ELSE pass
    /\ due' = Larger(due - 1, 0)
    /\ token' = Aged(token) /\ own' = Aged(own)
    /\ since' = IF Working \/ failures # 0 THEN 0 ELSE since + 1
    /\ UNCHANGED <<listing, backoff, ready, history>>

Next == Poll \/ Dispatch \/ PassSucceeds \/ PassFails \/ Advance
Spec == Init /\ [][Next]_vars

-----------------------------------------------------------------------------
(* A pass that is due ends this long after, at most: rounded to the poll,   *)
(* and taking all the time it has.                                          *)
Late == PollInterval - DueSlack + ListTime + ClusterTimeout
EndsWithin(interval) == Larger(interval, DueSlack) + Late
\* From the beginning of a pass that succeeds to the end of the next, at most.
Gap == EndsWithin(Larger(MaxPassInterval, ClusterTimeout + DueSlack))

(* nextInterval: half the remaining life is the interval that keeps a       *)
(* margin.  Once published, the token does not lapse while passes succeed   *)
(* if the last quarter of its life is time enough for a pass; nor when one   *)
(* fails if half of it is enough for two, the wait and the retry included.   *)
SteadyMargin == Late + Larger(Late, MinPassInterval)
RetryMargin == Gap + EndsWithin(RetryInterval)
Margin == IF failures = 1 THEN RetryMargin ELSE SteadyMargin
TokenLives ==
    failures \in {0, 1} /\ token.age + token.left > 2 * Margin => token.left > 0

(* dueSlack: without it every interval became one tick longer than the one   *)
(* configured.  After a success the next pass begins within maxPassInterval, *)
(* give or take what a List takes; or, where the pass itself took longer, at *)
(* the first poll after it.                                                  *)
OnTime ==
    ~Working /\ failures = 0 =>
        since <= Larger(MaxPassInterval, ClusterTimeout + PollInterval) + ListTime

(* That takes an interval in whole polls, and a List that fits in the slack. *)
WholePolls == /\ MaxPassInterval \in {m * PollInterval : m \in 0..MaxPassInterval}
              /\ ListTime <= DueSlack

(* selfCredentialDue: a credential granted an hour cannot wait a day to be   *)
(* renewed, or it expires first.  The own credential lapses only after a    *)
(* pass or a renewal has failed.                                            *)
RenewedInTime == own.left = 0 => refused

(* selfCredentialCritical: no credential runs out under a connection that    *)
(* says Ready.                                                              *)
LapseForetold == own.left = 0 => ~ready

(* What the two take: whatever a pass leaves as it is lasts to the next.  The *)
(* first and the last are so with the code's intervals and any lifetime that *)
(* may be configured; the second is not, where no issue time is recorded.    *)
RenewalFits ==
    /\ \A granted \in SelfGrants : granted >= 2 * Gap
    /\ SelfTokenTTL - SelfRenewInterval >= Gap
    /\ SelfRenewInterval > Gap
=============================================================================
