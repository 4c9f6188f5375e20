--------------------------- MODULE Lifetimes_proofs ---------------------------
(***************************************************************************)
(* What holds of the cadence for every interval, timeout and lifetime.      *)
(***************************************************************************)
EXTENDS Lifetimes, TLAPS

-----------------------------------------------------------------------------
(* Arithmetic.                                                             *)

LEMMA Halves == \A n \in Nat : n \div 2 \in Nat /\ 2 * (n \div 2) <= n
OBVIOUS

LEMMA DueSlackType == DueSlack \in Nat /\ 2 * DueSlack <= PollInterval
BY Halves, LifetimesAssumption DEF DueSlack, LifetimesAssumption

LEMMA LargerType ==
    ASSUME NEW a \in Int, NEW b \in Int
    PROVE  /\ Larger(a, b) \in {a, b} /\ Larger(a, b) >= a /\ Larger(a, b) >= b
           /\ Smaller(a, b) \in {a, b} /\ Smaller(a, b) <= a /\ Smaller(a, b) <= b
BY DEF Larger, Smaller

\* The interval is neither below its floor nor above its cap, and in between at
\* most half of what was left of the token.
LEMMA IntervalBounds ==
    ASSUME NEW c \in Credential, pass.ran \in Nat
    PROVE  /\ NextInterval(c) \in Nat /\ NextInterval(c) <= MaxPassInterval
           /\ NextInterval(c) <= MinPassInterval \/ 2 * NextInterval(c) <= c.left + pass.ran
<1> DEFINE half == (c.left + pass.ran) \div 2
<1>1. half \in Nat /\ 2 * half <= c.left + pass.ran
    BY Halves DEF Credential
<1> HIDE DEF half
<1>2. NextInterval(c) = Larger(Smaller(MaxPassInterval, half), MinPassInterval)
    BY DEF NextInterval, half
<1>3. QED
    BY <1>1, <1>2, LifetimesAssumption DEF LifetimesAssumption, Larger, Smaller, Credential

-----------------------------------------------------------------------------
(* Types.                                                                  *)

LEMMA InitType == Init => TypeOK
<1> SUFFICES ASSUME Init PROVE TypeOK
    OBVIOUS
<1> USE LifetimesAssumption DEF LifetimesAssumption
<1>1. \A granted \in TokenGrants \cup SelfGrants :
          /\ Endless(granted) \in Credential
          /\ \A dated \in BOOLEAN : Issued(granted, dated) \in Credential
    BY DEF Issued, Endless, Credential
<1>2. Unrecorded \in Credential
    BY DEF Unrecorded, Endless, Credential
<1>3. token \in Credential /\ own \in Credential
    <2>1. /\ token = Unrecorded \/ \E granted \in TokenGrants : token = Issued(granted, FALSE)
          /\ \E granted \in SelfGrants :
                 own = Endless(granted) \/ \E dated \in BOOLEAN : own = Issued(granted, dated)
        BY DEF Init
    <2>2. QED
        BY <1>1, <1>2, <2>1
<1>4. /\ due \in 0..Larger(MaxPassInterval, MaxRetryInterval)
      /\ backoff \in 0..Larger(RetryInterval, MaxRetryInterval)
    BY DEF Init, Larger
<1>5. /\ tick \in 0..PollInterval /\ listing \in BOOLEAN /\ pass \in Pass \cup {NoPass}
      /\ ready \in BOOLEAN /\ failures \in -1..2 /\ refused \in BOOLEAN /\ since \in Nat
    <2>1. /\ tick = 0 /\ listing = FALSE /\ pass = NoPass
          /\ ready = TRUE /\ failures = -1 /\ refused = FALSE /\ since = 0
        BY Zenon DEF Init
    <2>2. tick \in 0..PollInterval /\ failures \in -1..2 /\ since \in Nat
        BY <2>1
    <2>3. listing \in BOOLEAN /\ ready \in BOOLEAN /\ refused \in BOOLEAN
        BY <2>1
    <2>4. QED
        BY <2>1, <2>2, <2>3
<1>6. QED
    BY <1>3, <1>4, <1>5 DEF TypeOK

LEMMA MintedType ==
    ASSUME TypeOK, Working, NEW grants \in SUBSET Nat
    PROVE  /\ pass \in Pass /\ pass.ran \in Nat /\ pass.ran <= ClusterTimeout
           /\ Replacements(grants) \subseteq Credential
           /\ \A c \in Replacements(grants) : c.age = pass.ran /\ c.dated
<1>1. pass \in Pass /\ pass.ran \in 0..ClusterTimeout
    BY DEF TypeOK, Working, NoPass, Pass
<1>2. ASSUME NEW granted \in grants, NEW waited \in 0..pass.ran
      PROVE  Minted(granted, waited) \in Credential
    <2>1. Larger(granted - waited, 0) \in Nat
        BY <1>1 DEF Larger
    <2>2. QED
        BY <1>1, <2>1 DEF Minted, Credential
<1>3. QED
    BY <1>1, <1>2, LifetimesAssumption DEF Replacements, Minted, LifetimesAssumption

LEMMA MaintainType ==
    ASSUME TypeOK, Working, Maintain
    PROVE  own' \in Credential
BY MintedType, LifetimesAssumption DEF Maintain, TypeOK, LifetimesAssumption

LEMMA AgedType ==
    ASSUME NEW c \in Credential
    PROVE  /\ Aged(c) \in Credential
           /\ Aged(c).dated = c.dated /\ Aged(c).deadline = c.deadline
           /\ Aged(c).age + Aged(c).left = c.age + c.left
           /\ Aged(c).left >= c.left - 1
<1>1. CASE c.left = 0
    BY <1>1 DEF Aged, Credential
<1>2. CASE c.left # 0
    <2>1. Aged(c) = [c EXCEPT !.age = c.age + 1, !.left = c.left - 1]
        BY <1>2 DEF Aged
    <2>2. c.age \in Nat /\ c.left \in Nat /\ c.left > 0
        BY <1>2 DEF Credential
    <2>3. Aged(c) = [age |-> c.age + 1, left |-> c.left - 1,
                     dated |-> c.dated, deadline |-> c.deadline]
        BY <2>1 DEF Credential
    <2>4. c.dated \in BOOLEAN /\ c.deadline \in BOOLEAN
        BY DEF Credential
    <2>5. Aged(c) \in Credential
        BY <2>2, <2>3, <2>4 DEF Credential
    <2>6. QED
        BY <2>2, <2>3, <2>5
<1>3. QED
    BY <1>1, <1>2

\* Every decision of a pass is one or the other.
LEMMA DecisionType ==
    ASSUME NEW c \in Credential
    PROVE  Reissue(c) \in BOOLEAN /\ RenewalDue(c) \in BOOLEAN /\ Critical(c) \in BOOLEAN
<1>1. Reissue(c) \in BOOLEAN
    BY Zenon DEF Reissue
<1>2. RenewalDue(c) \in BOOLEAN
    BY Zenon DEF RenewalDue
<1>3. Critical(c) \in BOOLEAN
    BY Zenon DEF Critical
<1>4. QED
    BY <1>1, <1>2, <1>3

LEMMA SucceedsType ==
    ASSUME TypeOK, PassSucceeds
    PROVE  /\ TypeOK'
           /\ due' = Larger(NextInterval(token') - pass.ran, 0)
<1> USE LifetimesAssumption DEF LifetimesAssumption
<1>1. /\ pass \in Pass /\ pass.ran \in Nat /\ own' \in Credential
    BY MintedType, MaintainType DEF PassSucceeds
<1>2. token' \in Credential
    BY MintedType DEF PassSucceeds, TypeOK
<1>3. due' = Larger(NextInterval(token') - pass.ran, 0)
    BY DEF PassSucceeds, DueAfterPass
<1>4. due' \in 0..Larger(MaxPassInterval, MaxRetryInterval)
    BY <1>1, <1>2, <1>3, IntervalBounds DEF Larger
<1>5. backoff' \in 0..Larger(RetryInterval, MaxRetryInterval)
    BY DEF PassSucceeds, Larger
<1>6. pass' = NoPass /\ failures' = 0 /\ since' \in Nat /\ tick' = tick /\ listing' = listing
    BY <1>1 DEF PassSucceeds
<1>7. ready' \in BOOLEAN /\ refused' \in BOOLEAN
    <2>1. ready' = ~(Refused /\ pass.critical) /\ refused' = (refused \/ Refused)
        BY DEF PassSucceeds
    <2>2. QED
        BY <2>1, Zenon
<1>8. TypeOK'
    BY <1>1, <1>2, <1>4, <1>5, <1>6, <1>7 DEF TypeOK
<1>9. QED
    BY <1>3, <1>8

LEMMA FailsType == TypeOK /\ PassFails => TypeOK'
<1> SUFFICES ASSUME TypeOK, PassFails PROVE TypeOK'
    OBVIOUS
<1> USE LifetimesAssumption DEF LifetimesAssumption
<1>1. pass \in Pass /\ own' \in Credential /\ token' \in Credential
    BY MintedType, MaintainType DEF PassFails, TypeOK
<1>2. due' \in 0..Larger(MaxPassInterval, MaxRetryInterval)
    BY DEF PassFails, TypeOK, Larger
<1>3. backoff' \in 0..Larger(RetryInterval, MaxRetryInterval)
    <2>1. backoff \in Nat /\ backoff' = Smaller(2 * backoff, MaxRetryInterval)
        BY DEF PassFails, TypeOK, Backoff, Larger
    <2>2. QED
        BY <2>1 DEF Smaller, Larger
<1>4. /\ pass' = NoPass /\ failures' \in -1..2 /\ since' \in Nat
      /\ tick' \in 0..PollInterval
    BY DEF PassFails, TypeOK
<1>5. listing' \in BOOLEAN /\ ready' \in BOOLEAN /\ refused' \in BOOLEAN
    <2>1. /\ listing' = listing /\ ready' = FALSE /\ refused' = (refused \/ pass.access)
          /\ listing \in BOOLEAN
        BY DEF PassFails, TypeOK
    <2>2. QED
        BY <2>1, Zenon
<1>6. QED
    BY <1>1, <1>2, <1>3, <1>4, <1>5 DEF TypeOK

LEMMA AdvanceType == TypeOK /\ Advance => TypeOK'
<1> SUFFICES ASSUME TypeOK, Advance PROVE TypeOK'
    OBVIOUS
<1> USE LifetimesAssumption DEF LifetimesAssumption
<1>1. token' \in Credential /\ own' \in Credential
    BY AgedType DEF Advance, TypeOK
<1>2. pass' \in Pass \cup {NoPass}
    <2>1. CASE Working
        <3>1. pass \in Pass /\ pass.ran < ClusterTimeout /\ pass' = [pass EXCEPT !.ran = @ + 1]
            BY <2>1 DEF Advance, TypeOK, Working, NoPass
        <3>2. QED
            BY <3>1 DEF Pass
    <2>2. CASE ~Working
        BY <2>2 DEF Advance, TypeOK
    <2>3. QED
        BY <2>1, <2>2
<1>3. tick' \in 0..PollInterval /\ due' \in 0..Larger(MaxPassInterval, MaxRetryInterval)
    BY DEF Advance, TypeOK, Larger
<1>4. since' \in Nat
    BY DEF Advance, TypeOK
<1>5. QED
    BY <1>1, <1>2, <1>3, <1>4 DEF Advance, TypeOK, history

LEMMA NextType == TypeOK /\ [Next]_vars => TypeOK'
<1> SUFFICES ASSUME TypeOK, [Next]_vars PROVE TypeOK'
    OBVIOUS
<1> USE LifetimesAssumption DEF LifetimesAssumption
<1>1. CASE UNCHANGED vars
    BY <1>1 DEF vars, schedule, history, TypeOK
<1>2. CASE Poll
    BY <1>2 DEF Poll, history, TypeOK
<1>3. CASE Dispatch
    <2>1. CASE Claimed
        <3> DEFINE begun == [ran |-> 0, access |-> own.left > 0, reissue |-> Reissue(token),
                             renew |-> RenewalDue(own), critical |-> Critical(own)]
        <3>1. pass' = begun /\ since' = 0
            BY <1>3, <2>1 DEF Dispatch
        <3>2. (own.left > 0) \in BOOLEAN
            OBVIOUS
        <3>3. begun \in Pass
            BY <3>2, DecisionType DEF Pass, TypeOK
        <3>4. QED
            BY <1>3, <3>1, <3>3 DEF Dispatch, history, TypeOK
    <2>2. CASE ~Claimed
        BY <1>3, <2>2 DEF Dispatch, history, TypeOK
    <2>3. QED
        BY <2>1, <2>2
<1>4. QED
    BY <1>1, <1>2, <1>3, SucceedsType, FailsType, AdvanceType DEF Next

\* Every variable keeps its type.
THEOREM LifetimesTypeCorrect == Spec => []TypeOK
BY InitType, NextType, PTL DEF Spec

-----------------------------------------------------------------------------
(* The published token.                                                    *)

\* The time to the end of the pass in flight or of the next one, at most.
Remaining ==
    IF Working THEN ClusterTimeout - pass.ran
    ELSE IF due > DueSlack THEN due - DueSlack + PollInterval + ListTime + ClusterTimeout
    ELSE IF listing THEN ListTime - (PollInterval - tick) + ClusterTimeout
    ELSE tick + ListTime + ClusterTimeout

Lifetime == token.age + token.left

\* A List takes no longer than it may; a token that a pass does not replace was
\* no older than half its lifetime when the pass began; and what no issue time
\* is recorded for was granted no more than is requested.
Recent == /\ listing => PollInterval - tick <= ListTime
          /\ Working /\ ~pass.reissue => 2 * (token.left + pass.ran) >= Lifetime
          /\ token.deadline /\ ~token.dated => Lifetime <= TokenTTL

\* The token outlives the next pass, and after a success, if it lives long
\* enough, one more and the retry in between.
Lasts == /\ failures = 0 =>
                /\ Lifetime > 2 * SteadyMargin => token.left > Remaining
                /\ Lifetime > 2 * RetryMargin => token.left > Remaining + EndsWithin(RetryInterval)
                /\ backoff = RetryInterval
         /\ failures = 1 /\ Lifetime > 2 * RetryMargin => token.left > Remaining

LifeInv == TypeOK /\ Recent /\ Lasts

LEMMA Durations ==
    /\ Late \in Nat /\ Late >= ClusterTimeout + DueSlack /\ DueSlack \in Nat
    /\ SteadyMargin \in Nat /\ SteadyMargin >= 2 * Late /\ SteadyMargin >= Late + MinPassInterval
    /\ EndsWithin(RetryInterval) \in Nat
    /\ RetryMargin >= MaxPassInterval + Late + EndsWithin(RetryInterval)
    /\ RetryMargin >= ClusterTimeout + DueSlack + Late + EndsWithin(RetryInterval)
    /\ RetryMargin \in Nat
<1> USE LifetimesAssumption DEF LifetimesAssumption
<1>1. Late \in Nat /\ Late >= ClusterTimeout + DueSlack /\ DueSlack \in Nat
    BY DueSlackType DEF Late
<1>2. SteadyMargin \in Nat /\ SteadyMargin >= 2 * Late /\ SteadyMargin >= Late + MinPassInterval
    BY <1>1 DEF SteadyMargin, Larger
<1>3. EndsWithin(RetryInterval) \in Nat
    BY <1>1 DEF EndsWithin, Larger
<1>4. \A i \in Nat : EndsWithin(i) \in Nat /\ EndsWithin(i) >= i + Late
    BY <1>1 DEF EndsWithin, Larger
<1> DEFINE longest == Larger(MaxPassInterval, ClusterTimeout + DueSlack)
<1>5. longest \in Nat /\ longest >= MaxPassInterval /\ longest >= ClusterTimeout + DueSlack
    BY <1>1 DEF Larger
<1>6. RetryMargin = EndsWithin(longest) + EndsWithin(RetryInterval)
    BY DEF RetryMargin, Gap
<1> HIDE DEF longest
<1>7. QED
    BY <1>1, <1>2, <1>3, <1>4, <1>5, <1>6

\* Time that passes brings the end of the pass nearer by as much.
LEMMA AdvanceNears ==
    ASSUME TypeOK, Recent, Advance
    PROVE  /\ Remaining \in Int /\ Remaining' \in Int /\ Remaining' <= Remaining - 1
           /\ Recent'
           /\ Lifetime' = Lifetime /\ token'.left >= token.left - 1
           /\ token.left \in Nat /\ token'.left \in Nat
<1> USE LifetimesAssumption, Durations DEF LifetimesAssumption
<1>1. /\ Lifetime' = Lifetime /\ token'.left >= token.left - 1
      /\ token'.dated = token.dated /\ token'.deadline = token.deadline
      /\ token.left \in Nat /\ token'.left \in Nat /\ Lifetime \in Nat
    BY AgedType DEF Advance, TypeOK, Lifetime, Credential
<1>2. /\ tick \in 1..PollInterval /\ tick' = tick - 1 /\ listing' = listing
      /\ listing => PollInterval - tick < ListTime
      /\ due \in Nat /\ due' = Larger(due - 1, 0)
    BY DEF Advance, TypeOK
<1>3. CASE Working
    <2>1. pass \in Pass /\ pass.ran \in Nat /\ pass' = [pass EXCEPT !.ran = @ + 1]
        BY <1>3, MintedType DEF Advance
    <2>2. pass'.ran = pass.ran + 1 /\ pass'.reissue = pass.reissue
        BY <2>1 DEF Pass
    <2>3. Working'
        BY <2>1, <2>2 DEF Working
    <2>4. Remaining = ClusterTimeout - pass.ran /\ Remaining' = ClusterTimeout - pass'.ran
        BY <1>3, <2>3 DEF Remaining
    <2>5. Recent'
        <3>1. listing' => PollInterval - tick' <= ListTime
            BY <1>2
        <3>2. ~pass'.reissue => 2 * (token'.left + pass'.ran) >= Lifetime'
            BY <1>1, <1>3, <2>1, <2>2 DEF Recent
        <3>3. token'.deadline /\ ~token'.dated => Lifetime' <= TokenTTL
            BY <1>1 DEF Recent
        <3>4. QED
            BY <3>1, <3>2, <3>3 DEF Recent
    <2>6. QED
        BY <1>1, <2>1, <2>2, <2>4, <2>5
<1>4. CASE ~Working
    <2>1. pass' = pass
        BY <1>4 DEF Advance
    <2>2. ~Working'
        BY <1>4, <2>1 DEF Working
    <2>3. Remaining \in Int /\ Remaining' \in Int /\ Remaining' <= Remaining - 1
        BY <1>2, <1>4, <2>2 DEF Remaining, Larger
    <2>4. Recent'
        BY <1>1, <1>2, <2>2 DEF Recent
    <2>5. QED
        BY <1>1, <2>3, <2>4
<1>5. QED
    BY <1>3, <1>4

\* At the end of a pass the next one is this far.
LEMMA RemainingAfterPass ==
    ASSUME TypeOK', pass' = NoPass, NEW d, due' = d
    PROVE  Remaining' \in Int /\ Remaining' <= EndsWithin(d)
<1>1. ~Working'
    BY DEF Working, NoPass
<1>2. tick' \in 0..PollInterval /\ d \in Nat
    BY DEF TypeOK
<1>3. /\ DueSlack \in Nat /\ PollInterval \in Nat /\ ListTime \in Nat /\ ClusterTimeout \in Nat
      /\ Late = PollInterval - DueSlack + ListTime + ClusterTimeout
    BY LifetimesAssumption, DueSlackType DEF LifetimesAssumption, Late
<1>4. CASE d > DueSlack
    <2>1. Remaining' = d - DueSlack + PollInterval + ListTime + ClusterTimeout
        BY <1>1, <1>4 DEF Remaining
    <2>2. EndsWithin(d) = d + Late
        BY <1>2, <1>3, <1>4 DEF EndsWithin, Larger
    <2>3. QED
        BY <1>2, <1>3, <2>1, <2>2
<1>5. CASE ~(d > DueSlack)
    <2>1. \/ Remaining' = ListTime - (PollInterval - tick') + ClusterTimeout
          \/ Remaining' = tick' + ListTime + ClusterTimeout
        BY <1>1, <1>5 DEF Remaining
    <2>2. EndsWithin(d) = DueSlack + Late
        BY <1>2, <1>3, <1>5 DEF EndsWithin, Larger
    <2>3. QED
        BY <1>2, <1>3, <2>1, <2>2
<1>6. QED
    BY <1>4, <1>5

\* A pass that succeeds leaves a token that is at most half over since it began.
LEMMA SucceedsLasts ==
    ASSUME LifeInv, PassSucceeds
    PROVE  LifeInv'
<1> USE LifetimesAssumption, Durations DEF LifetimesAssumption
<1>1. /\ TypeOK /\ Recent /\ TypeOK' /\ pass' = NoPass /\ failures' = 0
      /\ Working /\ backoff' = RetryInterval /\ tick' = tick /\ listing' = listing
      /\ due' = Larger(NextInterval(token') - pass.ran, 0)
    BY SucceedsType DEF LifeInv, PassSucceeds
<1>2. /\ pass.ran \in Nat /\ pass.ran <= ClusterTimeout
      /\ token' \in Credential /\ token'.left \in Nat /\ token'.age \in Nat
    BY <1>1, MintedType DEF TypeOK, Credential
<1>3. /\ 2 * (token'.left + pass.ran) >= Lifetime'
      /\ token'.deadline /\ ~token'.dated => Lifetime' <= TokenTTL
    <2>1. CASE pass.reissue
        <3>1. token' \in Replacements(TokenGrants)
            BY <2>1 DEF PassSucceeds
        <3>2. token'.age = pass.ran /\ token'.dated
            BY <1>1, <3>1, MintedType
        <3>3. QED
            BY <1>2, <3>2 DEF Lifetime
    <2>2. CASE ~pass.reissue
        <3>1. token' = token
            BY <2>2 DEF PassSucceeds
        <3>2. QED
            BY <1>1, <2>2, <3>1 DEF Recent, Lifetime
    <2>3. QED
        BY <2>1, <2>2
<1>4. ~Working'
    BY <1>1 DEF Working, NoPass
<1>5. Recent'
    BY <1>1, <1>3, <1>4 DEF Recent
<1> DEFINE interval == NextInterval(token')
           life == token'.left + pass.ran
<1>6. /\ interval \in Nat /\ interval <= MaxPassInterval
      /\ interval <= MinPassInterval \/ 2 * interval <= life
    BY <1>2, IntervalBounds
<1>7. life \in Nat /\ 2 * life >= Lifetime' /\ token'.left = life - pass.ran
    BY <1>2, <1>3
<1>8. Remaining' \in Int /\ Remaining' <= EndsWithin(due')
    BY <1>1, RemainingAfterPass
<1>9. due' = Larger(interval - pass.ran, 0)
    BY <1>1
<1> HIDE DEF interval, life
<1>10. Remaining' + pass.ran <= Late + Larger(interval, ClusterTimeout + DueSlack)
    BY <1>2, <1>6, <1>8, <1>9 DEF EndsWithin, Larger
<1>11. Lifetime' \in Nat
    BY <1>2 DEF Lifetime
<1>12. \/ Remaining' + pass.ran <= Late + interval
      \/ Remaining' + pass.ran <= Late + ClusterTimeout + DueSlack
    BY <1>2, <1>6, <1>8, <1>10 DEF Larger
<1>13. Lifetime' > 2 * SteadyMargin => token'.left > Remaining'
    BY <1>2, <1>6, <1>7, <1>8, <1>11, <1>12
<1>14. Lifetime' > 2 * RetryMargin => token'.left > Remaining' + EndsWithin(RetryInterval)
    BY <1>2, <1>6, <1>7, <1>8, <1>11, <1>12
<1>15. QED
    BY <1>1, <1>5, <1>13, <1>14 DEF LifeInv, Lasts

LEMMA FailsLasts ==
    ASSUME LifeInv, PassFails
    PROVE  LifeInv'
<1> USE LifetimesAssumption, Durations DEF LifetimesAssumption
<1>1. /\ TypeOK /\ Recent /\ Lasts /\ TypeOK' /\ pass' = NoPass /\ Working
      /\ due' = backoff /\ token' = token /\ listing' = listing /\ tick' = tick
      /\ failures' = (IF failures \in {-1, 2} THEN failures ELSE failures + 1)
    BY FailsType DEF LifeInv, PassFails
<1>2. Recent'
    BY <1>1 DEF Recent, Working, NoPass, Lifetime
<1>3. failures' # 0 /\ (failures' = 1 => failures = 0)
    BY <1>1 DEF TypeOK
<1>4. ASSUME failures = 0, Lifetime > 2 * RetryMargin
      PROVE  token.left > Remaining'
    <2>1. Remaining = ClusterTimeout - pass.ran /\ pass.ran \in Nat /\ pass.ran <= ClusterTimeout
        BY <1>1, MintedType DEF Remaining
    <2>2. backoff = RetryInterval /\ token.left > Remaining + EndsWithin(RetryInterval)
        BY <1>1, <1>4 DEF Lasts
    <2>3. Remaining' \in Int /\ Remaining' <= EndsWithin(RetryInterval)
        BY <1>1, <2>2, RemainingAfterPass
    <2>4. token.left \in Nat
        BY <1>1 DEF TypeOK, Credential
    <2>5. QED
        BY <2>1, <2>2, <2>3, <2>4
<1>5. Lasts'
    BY <1>1, <1>3, <1>4 DEF Lasts, Lifetime
<1>6. QED
    BY <1>1, <1>2, <1>5 DEF LifeInv

LEMMA DispatchLasts ==
    ASSUME LifeInv, Dispatch
    PROVE  LifeInv'
<1> USE LifetimesAssumption, Durations DEF LifetimesAssumption
<1>1. /\ TypeOK /\ Recent /\ Lasts /\ TypeOK'
      /\ listing /\ ~listing' /\ UNCHANGED <<tick, due, backoff, token, failures>>
    BY NextType DEF LifeInv, Dispatch, Next, history
<1>2. /\ tick \in 0..PollInterval /\ due \in Nat /\ PollInterval - tick <= ListTime
      /\ token.left \in Nat /\ token.age \in Nat
    BY <1>1 DEF TypeOK, Recent, Credential
<1>3. CASE Claimed
    <2>1. pass'.ran = 0 /\ pass'.reissue = Reissue(token)
        BY <1>3 DEF Dispatch
    <2>2. Remaining' = ClusterTimeout
        BY <2>1 DEF Remaining, Working
    <2>3. Remaining \in Int /\ Remaining >= ClusterTimeout
        BY <1>1, <1>2, <1>3 DEF Remaining, Claimed
    <2>4. Recent'
        <3>1. ~Reissue(token) => 2 * token.left >= Lifetime
            BY <1>1, <1>2 DEF Reissue, Recent, Lifetime
        <3>2. /\ Lifetime' = Lifetime /\ token'.left = token.left
              /\ token'.deadline = token.deadline /\ token'.dated = token.dated
            BY <1>1 DEF Lifetime
        <3>3. ~pass'.reissue => 2 * (token'.left + pass'.ran) >= Lifetime'
            <4> SUFFICES ASSUME ~pass'.reissue PROVE 2 * (token'.left + pass'.ran) >= Lifetime'
                OBVIOUS
            <4>1. ~Reissue(token)
                BY <2>1
            <4>2. QED
                BY <1>2, <2>1, <3>1, <3>2, <4>1
        <3>4. QED
            BY <1>1, <3>2, <3>3 DEF Recent
    <2>5. Lasts'
        BY <1>1, <1>2, <2>2, <2>3 DEF Lasts, Lifetime
    <2>6. QED
        BY <1>1, <2>4, <2>5 DEF LifeInv
<1>4. CASE ~Claimed
    <2>1. pass' = pass
        BY <1>4 DEF Dispatch
    <2>2. Working' <=> Working
        BY <2>1 DEF Working
    <2>3. Remaining' = Remaining
        BY <1>1, <1>2, <1>4, <2>1, <2>2 DEF Remaining, Claimed
    <2>4. Recent'
        BY <1>1, <2>1, <2>2 DEF Recent, Lifetime
    <2>5. Lasts'
        BY <1>1, <2>3 DEF Lasts, Lifetime
    <2>6. QED
        BY <1>1, <2>4, <2>5 DEF LifeInv
<1>5. QED
    BY <1>3, <1>4

LEMMA PollLasts ==
    ASSUME LifeInv, Poll
    PROVE  LifeInv'
<1> USE LifetimesAssumption, Durations DEF LifetimesAssumption
<1>1. /\ TypeOK /\ Recent /\ Lasts /\ TypeOK'
      /\ tick = 0 /\ tick' = PollInterval /\ listing'
      /\ UNCHANGED <<due, backoff, pass, token, failures>>
    BY NextType DEF LifeInv, Poll, Next, history
<1>2. ~listing /\ due \in Nat
    BY <1>1 DEF Recent, TypeOK
<1>3. Remaining' = Remaining
    BY <1>1, <1>2 DEF Remaining, Working
<1>4. Recent' /\ Lasts'
    BY <1>1, <1>3 DEF Recent, Lasts, Lifetime, Working
<1>5. QED
    BY <1>1, <1>4 DEF LifeInv

LEMMA LifeInit == Init => LifeInv
<1> SUFFICES ASSUME Init PROVE LifeInv
    OBVIOUS
<1>1. TypeOK
    BY InitType
<1>2. failures = -1 /\ listing = FALSE /\ pass = NoPass
    BY DEF Init
<1>3. token.deadline => Lifetime <= TokenTTL
    <2>1. CASE token = Unrecorded
        BY <2>1 DEF Unrecorded, Endless
    <2>2. CASE \E granted \in TokenGrants : token = Issued(granted, FALSE)
        <3>1. PICK granted \in 1..TokenTTL : token = Issued(granted, FALSE)
            BY <2>2, LifetimesAssumption DEF LifetimesAssumption
        <3>2. QED
            BY <3>1, LifetimesAssumption DEF LifetimesAssumption, Issued, Lifetime
    <2>3. QED
        BY <2>1, <2>2 DEF Init
<1>4. QED
    BY <1>1, <1>2, <1>3 DEF LifeInv, Recent, Lasts, Working, NoPass

\* Once published, the token does not lapse while passes succeed if it was granted
\* a certain time, and not when one fails if it was granted a certain time more.
THEOREM TokenOutlivesPasses == Spec => []TokenLives
<1>1. ASSUME LifeInv, [Next]_vars PROVE LifeInv'
    <2>1. CASE UNCHANGED vars
        BY <1>1, <2>1
           DEF vars, schedule, history, LifeInv, TypeOK, Recent, Lasts, Remaining, Lifetime, Working
    <2>2. CASE Advance
        <3>1. /\ TypeOK' /\ Recent' /\ UNCHANGED <<backoff, failures>>
            BY <1>1, <2>2, AdvanceType, AdvanceNears DEF LifeInv, Advance, history
        <3>2. Lasts'
            BY <1>1, <2>2, <3>1, AdvanceNears, Durations DEF LifeInv, Lasts
        <3>3. QED
            BY <3>1, <3>2 DEF LifeInv
    <2>3. QED
        BY <1>1, <2>1, <2>2, PollLasts, DispatchLasts, SucceedsLasts, FailsLasts DEF Next
<1>2. LifeInv => TokenLives
    <2> SUFFICES ASSUME LifeInv, failures \in {0, 1}, token.age + token.left > 2 * Margin
                 PROVE  token.left > 0
        BY DEF TokenLives
    <2>1. Remaining \in Int /\ Remaining >= 0
        <3>1. CASE Working
            <4>1. pass.ran \in Nat /\ pass.ran <= ClusterTimeout
                BY <3>1, MintedType DEF LifeInv
            <4>2. QED
                BY <3>1, <4>1, LifetimesAssumption DEF Remaining, LifetimesAssumption
        <3>2. CASE ~Working
            BY <3>2, LifetimesAssumption, DueSlackType
               DEF LifeInv, TypeOK, Recent, Remaining, LifetimesAssumption
        <3>3. QED
            BY <3>1, <3>2
    <2>2. token.left > Remaining /\ token.left \in Nat
        BY DEF LifeInv, Lasts, Lifetime, Margin, TypeOK, Credential
    <2>3. QED
        BY <2>1, <2>2
<1>3. QED
    BY <1>1, <1>2, LifeInit, PTL DEF Spec
-----------------------------------------------------------------------------
(* The own credential.  While the connection says Ready it outlives the pass *)
(* in flight or the next; what a pass decided to leave as it is lasts to the *)
(* next after it; and while nothing was refused, the connection says Ready.  *)

Ample == own.deadline /\ own.dated => own.age + own.left >= 2 * Gap
Decided == Working => /\ ~pass.renew \/ ~pass.critical => own.left + pass.ran > Gap
                      /\ ready => pass.access
OwnLasts == ready => own.left > Remaining
OwnInv == LifeInv /\ Ample /\ Decided /\ OwnLasts /\ (refused \/ ready)

LEMMA GapType == Gap \in Nat /\ Gap >= Late /\ Late \in Nat /\ 2 * Gap \in Nat
<1> DEFINE longest == Larger(MaxPassInterval, ClusterTimeout + DueSlack)
<1>1. longest \in Nat
    BY Durations, LifetimesAssumption DEF LifetimesAssumption, Larger
<1>2. Gap = Larger(longest, DueSlack) + Late
    BY DEF Gap, EndsWithin
<1> HIDE DEF longest
<1>3. QED
    BY <1>1, <1>2, Durations DEF Larger

LEMMA RemainingType == LifeInv => Remaining \in Int /\ Remaining >= 0
<1> SUFFICES ASSUME LifeInv PROVE Remaining \in Int /\ Remaining >= 0
    OBVIOUS
<1>1. CASE Working
    <2>1. pass.ran \in Nat /\ pass.ran <= ClusterTimeout
        BY <1>1, MintedType DEF LifeInv
    <2>2. QED
        BY <1>1, <2>1, LifetimesAssumption DEF Remaining, LifetimesAssumption
<1>2. CASE ~Working
    BY <1>2, LifetimesAssumption, DueSlackType
       DEF LifeInv, TypeOK, Recent, Remaining, LifetimesAssumption
<1>3. QED
    BY <1>1, <1>2

\* What a pass stores was granted when the pass had begun.
LEMMA RenewedIsAmple ==
    ASSUME RenewalFits, TypeOK, Working, NEW c \in Replacements(SelfGrants)
    PROVE  /\ c \in Credential /\ c.age + c.left >= 2 * Gap
           /\ c.left + pass.ran > Gap
<1>1. pass.ran \in Nat /\ c \in Credential
    BY MintedType, LifetimesAssumption DEF LifetimesAssumption
<1>2. PICK granted \in SelfGrants, waited \in 0..pass.ran : c = Minted(granted, waited)
    BY DEF Replacements
<1>3. granted \in Nat /\ granted >= 2 * Gap
    BY LifetimesAssumption DEF LifetimesAssumption, RenewalFits
<1>4. c.age = pass.ran /\ c.left >= granted - waited
    BY <1>1, <1>2, <1>3 DEF Minted, Larger
<1>5. Gap > 0
    BY GapType, Durations, DueSlackType, LifetimesAssumption DEF Late, LifetimesAssumption
<1>6. QED
    BY <1>1, <1>2, <1>3, <1>4, <1>5, GapType DEF Credential

LEMMA MaintainAmple ==
    ASSUME RenewalFits, OwnInv, Working, Maintain
    PROVE  /\ Ample'
           /\ own' # own => own'.left + pass.ran > Gap
BY RenewedIsAmple DEF Maintain, OwnInv, LifeInv, Ample

LEMMA SucceedsOwn ==
    ASSUME RenewalFits, OwnInv, PassSucceeds
    PROVE  OwnInv'
<1> USE LifetimesAssumption, Durations DEF LifetimesAssumption
<1>1. /\ LifeInv /\ LifeInv' /\ TypeOK /\ TypeOK' /\ pass' = NoPass /\ Working /\ pass.access
      /\ due' = Larger(NextInterval(token') - pass.ran, 0)
      /\ ready' = ~(Refused /\ pass.critical) /\ refused' = (refused \/ Refused)
    BY SucceedsType, SucceedsLasts DEF OwnInv, LifeInv, PassSucceeds
<1>2. pass.ran \in Nat /\ pass.ran <= ClusterTimeout /\ token' \in Credential /\ own' \in Credential
    BY <1>1, MintedType DEF TypeOK
<1>3. ~Working'
    BY <1>1 DEF Working, NoPass
<1>4. Ample' /\ (own' # own => own'.left + pass.ran > Gap)
    BY <1>1, MaintainAmple DEF PassSucceeds
<1> DEFINE interval == NextInterval(token')
<1>5. interval \in Nat /\ interval <= MaxPassInterval
    BY <1>2, IntervalBounds
<1>6. Remaining' \in Int /\ Remaining' <= EndsWithin(due')
    BY <1>1, RemainingAfterPass
<1> HIDE DEF interval
<1>7. Remaining' + pass.ran <= Gap
    <2> DEFINE longest == Larger(MaxPassInterval, ClusterTimeout + DueSlack)
    <2>1. /\ longest \in Nat /\ longest >= MaxPassInterval /\ longest >= ClusterTimeout + DueSlack
          /\ Gap = Larger(longest, DueSlack) + Late
        BY DEF Larger, Gap, EndsWithin
    <2>2. due' = Larger(interval - pass.ran, 0)
        BY <1>1 DEF interval
    <2>3. EndsWithin(due') = Larger(due', DueSlack) + Late
        BY DEF EndsWithin
    <2> HIDE DEF longest
    <2>4. due' + pass.ran <= longest /\ DueSlack + pass.ran <= longest /\ due' \in Int
        BY <1>2, <1>5, <2>1, <2>2 DEF Larger
    <2>5. EndsWithin(due') + pass.ran <= Gap /\ EndsWithin(due') \in Int
        <3>1. Larger(due', DueSlack) \in {due', DueSlack}
            BY DEF Larger
        <3>2. longest <= Larger(longest, DueSlack) /\ Larger(longest, DueSlack) \in Int
            BY <2>1, DueSlackType DEF Larger
        <3>3. Larger(due', DueSlack) + pass.ran <= longest /\ Larger(due', DueSlack) \in Int
            BY <3>1, <2>4, DueSlackType
        <3> DEFINE wait == Larger(due', DueSlack)
                   whole == Larger(longest, DueSlack)
        <3>4. /\ EndsWithin(due') = wait + Late /\ Gap = whole + Late /\ wait \in Int /\ whole \in Int
              /\ longest <= whole /\ wait + pass.ran <= longest
            BY <2>1, <2>3, <3>2, <3>3
        <3> HIDE DEF wait, whole
        <3>5. QED
            BY <1>2, <2>1, <3>4, GapType
    <2>6. QED
        BY <1>2, <1>6, <2>5, GapType
<1>8. OwnLasts'
    <2> SUFFICES ASSUME ready' PROVE own'.left + pass.ran > Gap
        BY <1>2, <1>6, <1>7, GapType DEF OwnLasts, Credential
    <2>1. CASE own' = own
        <3>1. ~pass.renew \/ ~pass.critical
            BY <1>1, <2>1 DEF Refused
        <3>2. QED
            BY <1>1, <2>1, <3>1 DEF OwnInv, Decided
    <2>2. QED
        BY <2>1, <1>4
<1>9. refused' \/ ready'
    BY <1>1
<1>10. QED
    BY <1>1, <1>3, <1>4, <1>8, <1>9 DEF OwnInv, Decided

LEMMA FailsOwn ==
    ASSUME RenewalFits, OwnInv, PassFails
    PROVE  OwnInv'
<1>1. /\ LifeInv' /\ Working /\ pass' = NoPass /\ ~ready' /\ refused' = (refused \/ pass.access)
    BY FailsLasts DEF OwnInv, PassFails
<1>2. Ample'
    BY <1>1, MaintainAmple DEF PassFails
<1>3. ~Working'
    BY <1>1 DEF Working, NoPass
<1>4. refused'
    BY <1>1 DEF OwnInv, Decided
<1>5. QED
    BY <1>1, <1>2, <1>3, <1>4 DEF OwnInv, Decided, OwnLasts

LEMMA DispatchOwn ==
    ASSUME RenewalFits, OwnInv, Dispatch
    PROVE  OwnInv'
<1> USE LifetimesAssumption, Durations, GapType DEF LifetimesAssumption
<1>1. /\ LifeInv /\ LifeInv' /\ TypeOK /\ Recent
      /\ listing /\ ~listing' /\ UNCHANGED <<tick, due, own, ready, refused>>
    BY DispatchLasts DEF OwnInv, LifeInv, Dispatch, history
<1>2. /\ tick \in 0..PollInterval /\ due \in Nat /\ PollInterval - tick <= ListTime
      /\ own \in Credential /\ own.left \in Nat /\ own.age \in Nat
    BY <1>1 DEF TypeOK, Recent, Credential
<1>3. Ample' /\ (refused' \/ ready')
    BY <1>1 DEF OwnInv, Ample
<1>4. CASE Claimed
    <2>1. /\ pass'.ran = 0 /\ pass'.access = (own.left > 0)
          /\ pass'.renew = RenewalDue(own) /\ pass'.critical = Critical(own)
        BY <1>4 DEF Dispatch
    <2>2. Remaining' = ClusterTimeout
        BY <2>1 DEF Remaining, Working
    <2>3. Remaining \in Int /\ Remaining >= ClusterTimeout /\ Remaining >= 0
        BY <1>1, <1>2, <1>4 DEF Remaining, Claimed
    <2>4. OwnLasts'
        BY <1>1, <1>2, <2>2, <2>3 DEF OwnInv, OwnLasts
    <2>5. ready' => pass'.access
        <3>1. ready => own.left > 0
            BY <1>2, <2>3 DEF OwnInv, OwnLasts
        <3>2. QED
            BY <1>1, <2>1, <3>1, Zenon
    <2>6. ~RenewalDue(own) => own.left > Gap
        <3> SUFFICES ASSUME ~RenewalDue(own) PROVE own.left > Gap
            OBVIOUS
        <3>1. CASE own.dated
            BY <1>2, <3>1 DEF RenewalDue, OwnInv, Ample
        <3>2. CASE ~own.dated
            BY <1>2, <3>2 DEF RenewalDue, RenewalFits
        <3>3. QED
            BY <3>1, <3>2
    <2>7. ~Critical(own) => own.left > Gap
        <3> DEFINE share == Granted(own) \div 4
        <3>1. share \in Int
            BY <1>2 DEF Granted
        <3>2. Larger(share, SelfRenewInterval) >= SelfRenewInterval
            BY <3>1 DEF Larger
        <3>3. Larger(share, SelfRenewInterval) \in Int
            BY <3>1 DEF Larger
        <3>4. ~Critical(own) => own.left >= Larger(share, SelfRenewInterval)
            BY <1>2, <3>3 DEF Critical
        <3> HIDE DEF share
        <3>5. QED
            BY <1>2, <3>2, <3>3, <3>4 DEF RenewalFits
    <2>8. ~pass'.renew \/ ~pass'.critical => own'.left + pass'.ran > Gap
        BY <1>1, <1>2, <2>1, <2>6, <2>7
    <2>9. QED
        BY <1>1, <1>3, <2>4, <2>5, <2>8 DEF OwnInv, Decided
<1>5. CASE ~Claimed
    <2>1. pass' = pass /\ (Working' <=> Working)
        BY <1>5 DEF Dispatch, Working
    <2>2. Remaining' = Remaining
        BY <1>1, <1>2, <1>5, <2>1 DEF Remaining, Claimed
    <2>3. QED
        BY <1>1, <1>3, <2>1, <2>2 DEF OwnInv, Decided, OwnLasts
<1>6. QED
    BY <1>4, <1>5

LEMMA PollOwn == OwnInv /\ Poll => OwnInv'
<1> SUFFICES ASSUME OwnInv, Poll PROVE OwnInv'
    OBVIOUS
<1>1. /\ LifeInv' /\ tick = 0 /\ tick' = PollInterval /\ listing'
      /\ UNCHANGED <<due, pass, own, ready, refused>>
    BY PollLasts DEF OwnInv, Poll, history
<1>2. ~listing /\ due \in Nat
    BY <1>1, LifetimesAssumption DEF OwnInv, LifeInv, Recent, TypeOK, LifetimesAssumption
<1>3. Remaining' = Remaining
    BY <1>1, <1>2, LifetimesAssumption, Durations DEF Remaining, Working, LifetimesAssumption
<1>4. QED
    BY <1>1, <1>3 DEF OwnInv, Ample, Decided, OwnLasts, Working

LEMMA AdvanceOwn == OwnInv /\ Advance => OwnInv'
<1> SUFFICES ASSUME OwnInv, Advance PROVE OwnInv'
    OBVIOUS
<1>1. TypeOK /\ Recent /\ TypeOK' /\ Recent' /\ UNCHANGED <<backoff, failures, ready, refused>>
    BY AdvanceType, AdvanceNears DEF OwnInv, LifeInv, Advance, history
<1>2. LifeInv'
    BY <1>1, AdvanceNears, Durations DEF OwnInv, LifeInv, Lasts
<1>3. /\ own' \in Credential /\ own'.left \in Nat /\ own'.age \in Nat
      /\ own.left \in Nat /\ own.age \in Nat
      /\ own'.dated = own.dated /\ own'.deadline = own.deadline
      /\ own'.age + own'.left = own.age + own.left /\ own'.left >= own.left - 1
    BY <1>1, AgedType DEF Advance, TypeOK, Credential
<1>4. Ample'
    BY <1>3 DEF OwnInv, Ample, Gap
<1>5. OwnLasts'
    BY <1>1, <1>3, AdvanceNears DEF OwnInv, OwnLasts
<1>6. Decided'
    <2>1. CASE Working
        <3>1. /\ pass.ran \in Nat /\ pass'.ran = pass.ran + 1
              /\ pass'.renew = pass.renew /\ pass'.critical = pass.critical /\ pass'.access = pass.access
            BY <1>1, <2>1, MintedType DEF Advance, Pass
        <3>2. QED
            BY <1>1, <1>3, <2>1, <3>1, GapType DEF OwnInv, Decided
    <2>2. CASE ~Working
        BY <2>2 DEF Advance, Decided, Working
    <2>3. QED
        BY <2>1, <2>2
<1>7. QED
    BY <1>1, <1>2, <1>4, <1>5, <1>6 DEF OwnInv

LEMMA OwnInit == RenewalFits /\ Init => OwnInv
<1> SUFFICES ASSUME RenewalFits, Init PROVE OwnInv
    OBVIOUS
<1>1. LifeInv
    BY LifeInit
<1>2. /\ tick = 0 /\ listing = FALSE /\ due = 0 /\ pass = NoPass /\ ready = TRUE
    BY Zenon DEF Init
<1>3. ~Working /\ Remaining = ListTime + ClusterTimeout
    BY <1>2, Durations, LifetimesAssumption DEF Working, NoPass, Remaining, LifetimesAssumption
<1>4. PICK granted \in SelfGrants :
          own = Endless(granted) \/ \E dated \in BOOLEAN : own = Issued(granted, dated)
    BY DEF Init
<1>5. granted \in Nat /\ granted >= 2 * Gap /\ granted > 0
    BY LifetimesAssumption DEF LifetimesAssumption, RenewalFits
<1>6. own.left = granted /\ (own.deadline => own.age + own.left >= 2 * Gap)
    BY <1>4, <1>5 DEF Endless, Issued
<1>7. Gap >= Remaining /\ Remaining \in Nat
    BY <1>3, GapType, DueSlackType, LifetimesAssumption DEF Late, LifetimesAssumption
<1>8. own.left > Remaining
    BY <1>5, <1>6, <1>7, GapType
<1>9. QED
    BY <1>1, <1>2, <1>3, <1>6, <1>8 DEF OwnInv, Ample, Decided, OwnLasts

LEMMA NextOwn ==
    ASSUME RenewalFits, OwnInv, [Next]_vars
    PROVE  OwnInv'
<1>1. CASE UNCHANGED vars
    BY <1>1 DEF vars, schedule, history, OwnInv, LifeInv, TypeOK, Recent, Lasts, Remaining, Lifetime,
                Working, Ample, Decided, OwnLasts
<1>2. QED
    BY <1>1, PollOwn, DispatchOwn, SucceedsOwn, FailsOwn, AdvanceOwn DEF Next

\* No credential runs out under a connection that says Ready, with any durations
\* for which what a pass leaves as it is lasts to the next.
THEOREM LapsesAreForetold == RenewalFits => (Spec => []LapseForetold)
<1> SUFFICES ASSUME RenewalFits PROVE Spec => []LapseForetold
    OBVIOUS
<1>1. OwnInv => LapseForetold
    BY RemainingType DEF OwnInv, OwnLasts, LapseForetold
<1>2. Init => OwnInv
    BY OwnInit
<1>3. OwnInv /\ [Next]_vars => OwnInv'
    BY NextOwn
<1>4. QED
    BY <1>1, <1>2, <1>3, PTL DEF Spec

\* Nor does one at all before a pass or a renewal has failed: the bound without
\* which LifetimesUndated finds one that does is RenewalFits.
THEOREM RenewalsAreInTime == RenewalFits => (Spec => []RenewedInTime)
<1> SUFFICES ASSUME RenewalFits PROVE Spec => []RenewedInTime
    OBVIOUS
<1>1. OwnInv => RenewedInTime
    BY RemainingType DEF OwnInv, OwnLasts, RenewedInTime
<1>2. Init => OwnInv
    BY OwnInit
<1>3. OwnInv /\ [Next]_vars => OwnInv'
    BY NextOwn
<1>4. QED
    BY <1>1, <1>2, <1>3, PTL DEF Spec

-----------------------------------------------------------------------------
(* Passes begin on time.                                                   *)

\* Passes begin with a poll, or as long after one as a List takes: what is
\* counted from the beginning of one is a number of polls and the time since
\* the last, less what the List took then.
Phase == PollInterval - tick
OnGrid(s, phase) == \E k \in Nat, o \in 0..ListTime : s = k * PollInterval + phase - o

\* A poll that leaves the connection alone comes at least one before the interval
\* is over, or while the pass was in flight.
Longest == Larger(MaxPassInterval - PollInterval, ClusterTimeout)
Punctual ==
    /\ OnGrid(since, Phase)
    /\ due <= Larger(MaxPassInterval - since, 0)
    /\ since <= Longest + Phase + (IF listing THEN PollInterval ELSE 0)
PunctualInv ==
    /\ listing => Phase <= ListTime
    /\ Working => OnGrid(pass.ran, Phase)
    /\ ~Working /\ failures = 0 => Punctual

\* Of two numbers of polls, the one that is less is less by one at least.
LEMMA WholeSteps ==
    ASSUME NEW p \in Nat \ {0}, NEW k \in Nat, NEW m \in Nat, k * p < m * p
    PROVE  (k + 1) * p <= m * p /\ (k + 1) * p = k * p + p
<1>1. k < m
    <2> SUFFICES ASSUME k >= m PROVE k * p >= m * p
        OBVIOUS
    <2>1. PICK j \in Nat : k = m + j
        <3>1. k - m \in Nat /\ k = m + (k - m)
            OBVIOUS
        <3>2. QED
            BY <3>1
    <2>2. k * p = m * p + j * p /\ j * p >= 0
        BY <2>1
    <2>3. m * p \in Int /\ k * p \in Int /\ j * p \in Int
        BY <2>1
    <2>4. QED
        BY <2>2, <2>3
<1>2. PICK j \in Nat : m = (k + 1) + j
    <2>1. m - (k + 1) \in Nat /\ m = (k + 1) + (m - (k + 1))
        BY <1>1
    <2>2. QED
        BY <2>1
<1>3. m * p = (k + 1) * p + j * p /\ j * p >= 0 /\ (k + 1) * p = k * p + p
    BY <1>2
<1>4. m * p \in Int /\ (k + 1) * p \in Int /\ j * p \in Int
    BY <1>2
<1>5. QED
    BY <1>3, <1>4

LEMMA PunctualFirst == Init => PunctualInv
BY DEF Init, PunctualInv, Working, NoPass

LEMMA PhaseType ==
    ASSUME TypeOK
    PROVE  /\ Phase \in 0..PollInterval /\ PollInterval \in Nat \ {0} /\ Longest \in Nat
           /\ Longest >= MaxPassInterval - PollInterval /\ Longest >= ClusterTimeout
           /\ since \in Nat /\ due \in Nat /\ listing \in BOOLEAN /\ ListTime \in Nat
<1> USE LifetimesAssumption DEF LifetimesAssumption
<1>1. Phase \in 0..PollInterval /\ since \in Nat /\ listing \in BOOLEAN
    BY DEF TypeOK, Phase
<1>2. Larger(MaxPassInterval, MaxRetryInterval) \in Nat
    BY DEF Larger
<1>3. due \in Nat
    BY <1>2 DEF TypeOK
<1>4. QED
    BY <1>1, <1>3 DEF Longest, Larger

\* Time and polls move what is counted along.
LEMMA GridMoves ==
    ASSUME NEW s \in Int, NEW phase \in Int, OnGrid(s, phase)
    PROVE  /\ OnGrid(s + 1, phase + 1)
           /\ phase = PollInterval => OnGrid(s, 0)
<1> USE LifetimesAssumption DEF LifetimesAssumption
<1>1. PICK k \in Nat, o \in 0..ListTime : s = k * PollInterval + phase - o
    BY DEF OnGrid
<1>2. k * PollInterval \in Int /\ o \in Int /\ PollInterval \in Int
      /\ (k + 1) * PollInterval = k * PollInterval + PollInterval /\ k + 1 \in Nat
    OBVIOUS
<1>3. s + 1 = k * PollInterval + (phase + 1) - o
    BY <1>1, <1>2
<1>4. phase = PollInterval => s = (k + 1) * PollInterval + 0 - o
    BY <1>1, <1>2
<1>5. QED
    BY <1>2, <1>3, <1>4 DEF OnGrid

LEMMA PollPunctual == TypeOK /\ PunctualInv /\ Poll => PunctualInv'
<1> SUFFICES ASSUME TypeOK, PunctualInv, Poll PROVE PunctualInv'
    OBVIOUS
<1> USE LifetimesAssumption DEF LifetimesAssumption
<1>1. /\ tick = 0 /\ tick' = PollInterval /\ listing' = TRUE
      /\ UNCHANGED <<due, pass, failures, since>>
    BY DEF Poll, history
<1>2. Phase = PollInterval /\ Phase' = 0 /\ ~listing
    BY <1>1 DEF Phase, PunctualInv
<1>3. Working' = Working /\ pass'.ran = pass.ran
    BY <1>1 DEF Working
<1>4. CASE Working
    <2>1. pass.ran \in Int
        BY <1>4, MintedType
    <2>2. OnGrid(pass'.ran, Phase')
        BY <1>2, <1>3, <1>4, <2>1, GridMoves DEF PunctualInv
    <2>3. QED
        BY <1>2, <1>3, <1>4, <2>2 DEF PunctualInv
<1>5. CASE ~Working /\ failures = 0
    <2>1. Punctual
        BY <1>5 DEF PunctualInv
    <2>2. OnGrid(since', Phase')
        BY <1>1, <1>2, <2>1, GridMoves, PhaseType DEF Punctual
    <2>3. since' <= Longest + Phase' + PollInterval /\ due' <= Larger(MaxPassInterval - since', 0)
        BY <1>1, <1>2, <2>1, PhaseType DEF Punctual
    <2>4. QED
        BY <1>1, <1>2, <1>3, <1>5, <2>2, <2>3 DEF PunctualInv, Punctual
<1>6. CASE ~Working /\ failures # 0
    BY <1>1, <1>2, <1>3, <1>6 DEF PunctualInv
<1>7. QED
    BY <1>4, <1>5, <1>6

\* A poll that finds nothing due finds it one poll before the interval is over.
LEMMA DispatchPunctual == WholePolls /\ TypeOK /\ PunctualInv /\ Dispatch => PunctualInv'
<1> SUFFICES ASSUME WholePolls, TypeOK, PunctualInv, Dispatch PROVE PunctualInv'
    OBVIOUS
<1> USE LifetimesAssumption DEF LifetimesAssumption
<1>1. /\ listing /\ ~listing' /\ UNCHANGED <<tick, due, failures>> /\ Phase' = Phase
      /\ Phase \in 0..ListTime
    BY PhaseType DEF Dispatch, history, PunctualInv, Phase
<1>2. CASE Claimed
    <2>1. pass'.ran = 0
        BY <1>2 DEF Dispatch
    <2>2. OnGrid(0, Phase)
        <3>1. 0 = 0 * PollInterval + Phase - Phase
            BY <1>1
        <3>2. QED
            BY <1>1, <3>1 DEF OnGrid
    <2>3. Working'
        BY <2>1 DEF Working
    <2>4. QED
        BY <1>1, <2>1, <2>2, <2>3 DEF PunctualInv
<1>3. CASE ~Claimed
    <2>1. pass' = pass /\ since' = since /\ Working' = Working
        BY <1>3 DEF Dispatch, Working
    <2>2. CASE ~Working /\ failures = 0
        <3>1. Punctual /\ due > DueSlack
            BY <1>3, <2>2, DueSlackType, PhaseType DEF PunctualInv, Claimed
        <3>2. PICK k \in Nat, o \in 0..ListTime : since = k * PollInterval + Phase - o
            BY <3>1 DEF Punctual, OnGrid
        <3>3. PICK m \in Nat : MaxPassInterval = m * PollInterval
            BY DEF WholePolls
        <3>4. k * PollInterval \in Int /\ m * PollInterval \in Int /\ o \in Int
            OBVIOUS
        <3>5. since < MaxPassInterval - DueSlack
            BY <3>1, DueSlackType, PhaseType DEF Punctual, Larger
        <3>6. k * PollInterval < m * PollInterval
            BY <1>1, <3>2, <3>3, <3>4, <3>5, DueSlackType DEF WholePolls
        <3>7. k * PollInterval + PollInterval <= m * PollInterval
            BY <3>6, WholeSteps
        <3>8. since <= Longest + Phase
            BY <1>1, <3>2, <3>3, <3>4, <3>7, PhaseType
        <3>9. OnGrid(since', Phase') /\ due' <= Larger(MaxPassInterval - since', 0)
            BY <1>1, <2>1, <3>1 DEF Punctual
        <3>10. since' <= Longest + Phase' + (IF listing' THEN PollInterval ELSE 0)
            BY <1>1, <2>1, <3>8, PhaseType
        <3>11. QED
            BY <1>1, <2>1, <2>2, <3>9, <3>10 DEF PunctualInv, Punctual, Longest
    <2>3. CASE Working \/ failures # 0
        BY <1>1, <2>1, <2>3 DEF PunctualInv
    <2>4. QED
        BY <2>2, <2>3
<1>4. QED
    BY <1>2, <1>3

LEMMA SucceedsPunctual == TypeOK /\ PunctualInv /\ PassSucceeds => PunctualInv'
<1> SUFFICES ASSUME TypeOK, PunctualInv, PassSucceeds PROVE PunctualInv'
    OBVIOUS
<1> USE LifetimesAssumption DEF LifetimesAssumption
<1>1. /\ Working /\ pass' = NoPass /\ failures' = 0 /\ since' = pass.ran
      /\ UNCHANGED <<tick, listing>> /\ Phase' = Phase /\ due' = DueAfterPass(token')
    BY DEF PassSucceeds, Phase
<1>2. ~Working' /\ pass.ran \in 0..ClusterTimeout /\ OnGrid(pass.ran, Phase)
    BY <1>1, MintedType DEF Working, NoPass, PunctualInv
<1>3. token' \in Credential
    BY SucceedsType DEF TypeOK
<1>4. due' <= Larger(MaxPassInterval - since', 0)
    <2>1. NextInterval(token') \in Nat /\ NextInterval(token') <= MaxPassInterval
        BY <1>2, <1>3, IntervalBounds
    <2>2. QED
        BY <1>1, <1>2, <2>1 DEF DueAfterPass, Larger
<1>5. since' <= Longest + Phase + (IF listing THEN PollInterval ELSE 0)
    BY <1>1, <1>2, PhaseType
<1>6. QED
    BY <1>1, <1>2, <1>4, <1>5 DEF PunctualInv, Punctual, Longest

LEMMA AdvancePunctual == TypeOK /\ PunctualInv /\ Advance => PunctualInv'
<1> SUFFICES ASSUME TypeOK, PunctualInv, Advance PROVE PunctualInv'
    OBVIOUS
<1> USE LifetimesAssumption DEF LifetimesAssumption
<1>1. /\ tick' = tick - 1 /\ UNCHANGED <<listing, failures>> /\ Phase' = Phase + 1
      /\ listing => Phase < ListTime
    BY PhaseType DEF Advance, history, Phase, TypeOK
<1>2. listing' => Phase' <= ListTime
    BY <1>1, PhaseType
<1>3. CASE Working
    <2>1. pass \in Pass /\ pass.ran \in Nat /\ pass' = [pass EXCEPT !.ran = @ + 1]
        BY <1>3, MintedType DEF Advance
    <2>2. pass'.ran = pass.ran + 1
        BY <2>1 DEF Pass
    <2>3. OnGrid(pass'.ran, Phase')
        BY <1>1, <1>3, <2>1, <2>2, GridMoves, PhaseType DEF PunctualInv
    <2>4. QED
        BY <1>2, <2>1, <2>2, <2>3 DEF PunctualInv, Working
<1>4. CASE ~Working
    <2>1. pass' = pass /\ Working' = Working
        BY <1>4 DEF Advance, Working
    <2>2. CASE failures = 0
        <3>1. Punctual /\ since' = since + 1 /\ due' = Larger(due - 1, 0)
            BY <1>4, <2>2 DEF PunctualInv, Advance
        <3>2. OnGrid(since', Phase')
            BY <1>1, <3>1, GridMoves, PhaseType DEF Punctual
        <3>3. due' <= Larger(MaxPassInterval - since', 0)
            BY <3>1, PhaseType DEF Punctual, Larger
        <3>4. since' <= Longest + Phase' + (IF listing THEN PollInterval ELSE 0)
            BY <1>1, <3>1, PhaseType DEF Punctual
        <3>5. QED
            BY <1>1, <1>2, <1>4, <2>1, <3>2, <3>3, <3>4 DEF PunctualInv, Punctual, Longest
    <2>3. CASE failures # 0
        BY <1>1, <1>2, <1>4, <2>1, <2>3 DEF PunctualInv
    <2>4. QED
        BY <2>2, <2>3
<1>5. QED
    BY <1>3, <1>4

\* After a success the next pass begins within maxPassInterval, give or take what
\* a List takes, or at the first poll after a pass that took longer: no interval
\* drifts to the poll after the one it was meant for.
THEOREM PassesAreOnTime == WholePolls => (Spec => []OnTime)
<1> SUFFICES ASSUME WholePolls PROVE Spec => []OnTime
    OBVIOUS
<1>1. TypeOK /\ PunctualInv /\ [Next]_vars => PunctualInv'
    <2> SUFFICES ASSUME TypeOK, PunctualInv, [Next]_vars PROVE PunctualInv'
        OBVIOUS
    <2>1. CASE PassFails
        <3>1. /\ failures' # 0 /\ ~Working' /\ UNCHANGED <<tick, listing>>
            BY <2>1 DEF PassFails, Working, NoPass, TypeOK
        <3>2. QED
            BY <3>1 DEF PunctualInv, Phase
    <2>2. CASE UNCHANGED vars
        BY <2>2 DEF vars, schedule, history, PunctualInv, Punctual, Phase, Working, Longest
    <2>3. QED
        BY <2>1, <2>2, PollPunctual, DispatchPunctual, SucceedsPunctual, AdvancePunctual DEF Next
<1>2. TypeOK /\ PunctualInv => OnTime
    <2> SUFFICES ASSUME TypeOK, PunctualInv, ~Working, failures = 0
                 PROVE  since <= Larger(MaxPassInterval, ClusterTimeout + PollInterval) + ListTime
        BY DEF OnTime
    <2>1. Punctual /\ (listing => Phase <= ListTime)
        BY DEF PunctualInv
    <2>2. since <= Longest + PollInterval + ListTime
        BY <2>1, PhaseType DEF Punctual
    <2>3. Longest + PollInterval = Larger(MaxPassInterval, ClusterTimeout + PollInterval)
        BY LifetimesAssumption DEF LifetimesAssumption, Longest, Larger
    <2>4. QED
        BY <2>2, <2>3
<1>3. QED
    BY <1>1, <1>2, PunctualFirst, LifetimesTypeCorrect, PTL DEF Spec
=============================================================================
