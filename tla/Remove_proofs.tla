---------------------------- MODULE Remove_proofs ----------------------------
(***************************************************************************)
(* What holds of remove however often it is run, whatever fails, and however *)
(* many passes the daemon makes meanwhile.                                  *)
(***************************************************************************)
EXTENDS Remove, TLAPS

-----------------------------------------------------------------------------
(* The order of the steps.                                                 *)

LEMMA OrderIs ==
    /\ Len(Order) = 9 /\ Order \in Seq(Objects \cup {"recheck"})
    /\ Order[1] = "connection" /\ Order[2] = "registration" /\ Order[3] = "credential"
    /\ Order[4] = "binding" /\ Order[5] = "account" /\ Order[6] = "ownBinding"
    /\ Order[7] = "ownRole" /\ Order[8] = "ownAccount" /\ Order[9] = "recheck"
BY DEF Order, Objects, Downstream

\* What the i-th step is about.
At(i) == IF Order[i] = "recheck" THEN "registration" ELSE Order[i]

LEMMA AtIs ==
    /\ \A i \in 1..9 : At(i) \in Objects /\ Order[i] \in Objects \cup {"recheck"}
    /\ \A i \in 1..9 : At(i) \in Downstream <=> Order[i] \in Downstream
    /\ \A i, j \in 1..9 : At(i) = At(j) /\ i < j => i = 2 /\ j = 9
    /\ \A x \in Objects : \E i \in 1..9 : At(i) = x
    /\ \A i \in 1..9 : Order[i] = "recheck" <=> i = 9
<1>1. \A i \in 1..9 : \/ i = 1 \/ i = 2 \/ i = 3 \/ i = 4 \/ i = 5 \/ i = 6 \/ i = 7 \/ i = 8 \/ i = 9
    OBVIOUS
<1>2. /\ At(1) = "connection" /\ At(2) = "registration" /\ At(3) = "credential"
      /\ At(4) = "binding" /\ At(5) = "account" /\ At(6) = "ownBinding"
      /\ At(7) = "ownRole" /\ At(8) = "ownAccount" /\ At(9) = "registration"
    BY OrderIs DEF At
<1>3. \A i \in 1..9 : At(i) \in Objects /\ Order[i] \in Objects \cup {"recheck"}
    BY <1>1, <1>2, OrderIs DEF Objects, Downstream
<1>4. \A i \in 1..9 : At(i) \in Downstream <=> Order[i] \in Downstream
    BY <1>1, <1>2, OrderIs DEF Downstream
<1>5. \A i, j \in 1..9 : At(i) = At(j) /\ i < j => i = 2 /\ j = 9
    <2>1. \A i \in 1..9 : /\ At(i) = "registration" => i \in {2, 9}
                          /\ At(i) = "connection" => i = 1
                          /\ At(i) = "credential" => i = 3
                          /\ At(i) = "binding" => i = 4
                          /\ At(i) = "account" => i = 5
                          /\ At(i) = "ownBinding" => i = 6
                          /\ At(i) = "ownRole" => i = 7
                          /\ At(i) = "ownAccount" => i = 8
        BY <1>1, <1>2
    <2>2. QED
        BY <1>3, <2>1 DEF Objects, Downstream
<1>6. \A x \in Objects : \E i \in 1..9 : At(i) = x
    BY <1>2 DEF Objects, Downstream
<1>7. \A i \in 1..9 : Order[i] = "recheck" <=> i = 9
    BY <1>1, OrderIs
<1>8. QED
    BY <1>3, <1>4, <1>5, <1>6, <1>7

LEMMA MinIs ==
    ASSUME NEW S \in SUBSET (1..9), S # {}
    PROVE  Min(S) \in S /\ \A i \in S : Min(S) <= i
<1>1. \A i \in S : \/ i = 1 \/ i = 2 \/ i = 3 \/ i = 4 \/ i = 5 \/ i = 6 \/ i = 7 \/ i = 8 \/ i = 9
    OBVIOUS
<1>2. \E i \in S : \A j \in S : i <= j
    <2>1. CASE 1 \in S
        BY <1>1, <2>1
    <2>2. CASE 2 \in S /\ 1 \notin S
        BY <1>1, <2>2
    <2>3. CASE 3 \in S /\ 1 \notin S /\ 2 \notin S
        BY <1>1, <2>3
    <2>4. CASE 4 \in S /\ 1 \notin S /\ 2 \notin S /\ 3 \notin S
        BY <1>1, <2>4
    <2>5. CASE 5 \in S /\ 1 \notin S /\ 2 \notin S /\ 3 \notin S /\ 4 \notin S
        BY <1>1, <2>5
    <2>6. CASE 6 \in S /\ 1 \notin S /\ 2 \notin S /\ 3 \notin S /\ 4 \notin S /\ 5 \notin S
        BY <1>1, <2>6
    <2>7. CASE 7 \in S /\ 1 \notin S /\ 2 \notin S /\ 3 \notin S /\ 4 \notin S /\ 5 \notin S /\ 6 \notin S
        BY <1>1, <2>7
    <2>8. CASE /\ 8 \in S /\ 1 \notin S /\ 2 \notin S /\ 3 \notin S /\ 4 \notin S /\ 5 \notin S
               /\ 6 \notin S /\ 7 \notin S
        BY <1>1, <2>8
    <2>9. CASE /\ 9 \in S /\ 1 \notin S /\ 2 \notin S /\ 3 \notin S /\ 4 \notin S /\ 5 \notin S
               /\ 6 \notin S /\ 7 \notin S /\ 8 \notin S
        BY <1>1, <2>9
    <2>10. QED
        BY <1>1, <2>1, <2>2, <2>3, <2>4, <2>5, <2>6, <2>7, <2>8, <2>9
<1>3. QED
    BY <1>2 DEF Min

-----------------------------------------------------------------------------
(* Passes.                                                                 *)

\* Whether an object is there, before and after a step.
LEMMA PresentIs ==
    /\ Present("connection") <=> connection # "absent"
    /\ Present("registration") <=> secret # R!NoSecret
    /\ Present("credential") <=> stored # 0
    /\ Present("binding") <=> binding # "absent"
    /\ Present("account") <=> account # 0
    /\ Present("ownAccount") <=> identity # 0
    /\ Present("ownRole") <=> "ownRole" \in grants
    /\ Present("ownBinding") <=> "ownBinding" \in grants
BY DEF Present, OwnGrants

LEMMA PresentNext ==
    /\ (Present("connection"))' <=> connection' # "absent"
    /\ (Present("registration"))' <=> secret' # R!NoSecret
    /\ (Present("credential"))' <=> stored' # 0
    /\ (Present("binding"))' <=> binding' # "absent"
    /\ (Present("account"))' <=> account' # 0
    /\ (Present("ownAccount"))' <=> identity' # 0
    /\ (Present("ownRole"))' <=> "ownRole" \in grants'
    /\ (Present("ownBinding"))' <=> "ownBinding" \in grants'
BY DEF Present, OwnGrants

Fields == {"pc", "want", "own", "fresh", "repaired", "token", "work", "failing", "ok", "quiet"}

\* A pass only stores and publishes tokens it has tried.
Sound ==
    /\ DOMAIN pass = Fields /\ DOMAIN secret = {"credential", "labelled", "want"}
    /\ pass.pc = "selfStore" => pass.fresh # 0
    /\ pass.pc = "credential" => pass.token # 0
    /\ created \in Nat
Shaped(p) == DOMAIN p = Fields /\ p.pc \notin {"selfStore", "credential"}
Answered(next) == pass' = next \/ pass' = R!Failed

LEMMA PassShapes ==
    ASSUME Sound
    PROVE  /\ Shaped(R!NoPass) /\ Shaped(R!Failed) /\ Shaped(R!Unrenewed)
           /\ \A pc \in R!Calls \ {"selfStore", "credential"} : Shaped([pass EXCEPT !.pc = pc])
<1>1. DOMAIN pass = Fields
    BY DEF Sound
<1>2. Shaped(R!NoPass)
    BY DEF R!NoPass, Shaped, Fields
<1>3. Shaped(R!Failed) /\ Shaped(R!Unrenewed)
    BY <1>1 DEF R!Failed, R!Unrenewed, Shaped, Fields
<1>4. \A pc \in R!Calls \ {"selfStore", "credential"} : Shaped([pass EXCEPT !.pc = pc])
    BY <1>1 DEF Shaped, Fields
<1>5. QED
    BY <1>2, <1>3, <1>4

\* What a pass reads and mints changes nothing that is to be removed.
LEMMA ReadsKeep ==
    ASSUME Sound, PassReads
    PROVE  /\ Sound'
           /\ UNCHANGED <<local, downstream, labels, rival, far, removal, runs, history, created>>
<1> DEFINE Kept == UNCHANGED <<stored, secret, account, binding, created>>
<1> SUFFICES Sound' /\ Kept
    BY DEF PassReads, local, downstream, labels, history
<1>1. DOMAIN pass = Fields
    BY DEF Sound
<1>2. ASSUME Shaped(pass'), Kept PROVE Sound' /\ Kept
    BY <1>2 DEF Shaped, Sound
<1>3. CASE R!Begin
    <2>1. Kept /\ pass' = [R!NoPass EXCEPT !.pc = "access", !.want = 1, !.work = status, !.quiet = TRUE]
        BY <1>3 DEF R!Begin, R!cluster
    <2>2. DOMAIN R!NoPass = Fields
        BY DEF R!NoPass, Fields
    <2>3. Shaped(pass')
        BY <2>1, <2>2 DEF Shaped, Fields
    <2>4. QED
        BY <1>2, <2>1, <2>3
<1>4. CASE R!Access
    BY <1>1, <1>2, <1>4, PassShapes DEF R!Access, R!cluster, Shaped, Fields
<1>5. CASE R!ReadCA
    BY <1>1, <1>2, <1>5, PassShapes DEF R!ReadCA, R!cluster, Shaped, Fields
<1>6. CASE R!SelfMint
    BY <1>1, <1>2, <1>6, PassShapes DEF R!SelfMint, R!cluster, Shaped, Fields
<1>7. CASE R!SelfVerify
    <2>1. CASE pass' = [pass EXCEPT !.pc = "selfStore"] /\ R!Works(pass.fresh)
        <3>1. pass.fresh # 0 /\ Kept
            BY <1>7, <2>1 DEF R!Works, R!SelfVerify, R!cluster
        <3>2. QED
            BY <1>1, <2>1, <3>1 DEF Sound, Fields
    <2>2. CASE pass' = R!Unrenewed
        BY <1>2, <1>7, <2>2, PassShapes DEF R!SelfVerify, R!cluster
    <2>3. QED
        BY <1>7, <2>1, <2>2 DEF R!SelfVerify
<1>8. CASE R!GetAccount
    BY <1>1, <1>2, <1>8, PassShapes DEF R!GetAccount, R!cluster, R!Calls
<1>9. CASE R!GetBinding
    BY <1>1, <1>2, <1>9, PassShapes DEF R!GetBinding, R!cluster, R!Calls
<1>10. CASE R!Probe
    BY <1>1, <1>2, <1>10, PassShapes DEF R!Probe, R!cluster, R!Calls
<1>11. CASE R!Mint
    <2>1. Kept /\ (pass' = R!Failed \/ pass' = [pass EXCEPT !.pc = "verify", !.token = R!NewToken])
        BY <1>11 DEF R!Mint, R!cluster
    <2>2. Shaped([pass EXCEPT !.pc = "verify", !.token = R!NewToken])
        BY <1>1 DEF Shaped, Fields
    <2>3. QED
        BY <1>2, <2>1, <2>2, PassShapes
<1>12. CASE R!Verify
    <2>1. CASE pass' = [pass EXCEPT !.pc = "credential"] /\ R!Live(pass.token)
        <3>1. pass.token # 0 /\ Kept
            BY <1>12, <2>1 DEF R!Live, R!Tokens, R!Verify, R!cluster
        <3>2. QED
            BY <1>1, <2>1, <3>1 DEF Sound, Fields
    <2>2. CASE pass' = R!Failed
        BY <1>2, <1>12, <2>2, PassShapes DEF R!Verify, R!cluster
    <2>3. QED
        BY <1>12, <2>1, <2>2 DEF R!Verify
<1>13. CASE R!Report
    BY <1>2, <1>13, PassShapes DEF R!Report, R!cluster
<1>14. CASE R!CallFails \/ R!RenewalFails
    BY <1>2, <1>14, PassShapes DEF R!CallFails, R!RenewalFails, R!cluster
<1>15. QED
    BY <1>3, <1>4, <1>5, <1>6, <1>7, <1>8, <1>9, <1>10, <1>11, <1>12, <1>13, <1>14 DEF PassReads

\* What passes write, of this connection or another's, is there afterwards and
\* noted, and has the label unless they created it without.
Writes ==
    /\ UNCHANGED <<connection, identity, grants, rival, far>>
    /\ removal' \in {removal, Unquiet(removal)} /\ late \subseteq late'
    /\ \A x \in Objects : Present(x) => Present(x)'
    /\ \A x \in Objects \ late' : Present(x)' => Present(x)
    /\ \A x \in unmanaged' : x \in unmanaged \/ ~Present(x)
    /\ \A x \in unmanaged : x \in unmanaged' \/ x \in late'

LEMMA PassesWrite ==
    ASSUME Sound, PassWrites
    PROVE  Sound' /\ Writes
<1>1. DOMAIN pass = Fields /\ DOMAIN secret = {"credential", "labelled", "want"} /\ created \in Nat
    BY DEF Sound
<1>2. R!NoSecret.labelled = FALSE /\ R!NoSecret.credential = 0
    BY DEF R!NoSecret, R!NoToken
<1>3. UNCHANGED <<connection, identity, grants, rival, far>>
    BY DEF PassWrites
<1>4. CASE (R!Register \/ R!Publish) /\ Written("registration") /\ Marked("registration")
    <2>1. /\ secret' = [secret EXCEPT !.labelled = TRUE, !.want = pass.want]
          /\ UNCHANGED <<account, binding, stored, created>>
        BY <1>4 DEF R!Register, R!Publish, R!cluster
    <2>2. secret' # R!NoSecret /\ DOMAIN secret' = {"credential", "labelled", "want"}
        BY <1>1, <1>2, <2>1
    <2>3. Shaped(pass')
        <3>1. DOMAIN pass' = Fields /\ (pass'.pc = "report" \/ pass'.pc = "mint")
            <4>1. R!Register \/ R!Publish
                BY <1>4
            <4>2. CASE R!Publish
                BY <1>1, <4>2 DEF R!Publish, R!Answer, R!Failed, Fields
            <4>3. CASE R!Register
                BY <1>1, <4>3 DEF R!Register, R!Answer, R!Failed, Fields
            <4>4. QED
                BY <4>1, <4>2, <4>3
        <3>2. QED
            BY <3>1 DEF Shaped
    <2>4. Sound'
        BY <1>1, <2>1, <2>2, <2>3 DEF Sound, Shaped
    <2>5. Writes
        <3>1. \A x \in Objects \ {"registration"} : Present(x)' <=> Present(x)
            BY <1>3, <1>4, <2>1, <2>2, PresentIs, PresentNext DEF Objects, Downstream
        <3>2. /\ late' = late \cup {"registration"} /\ removal' = Unquiet(removal)
            BY <1>3, <1>4, <2>1, <2>2 DEF Written, Marked
        <3>3. QED
            BY <1>3, <3>1, <3>2, <1>3, <1>4, <2>1, <2>2, PresentIs, PresentNext DEF Writes, Marked
    <2>6. QED
        BY <2>4, <2>5
<1>5. CASE /\ R!ApplyCredential /\ Written("registration")
           /\ unmanaged' = IF secret = R!NoSecret THEN unmanaged \cup {"registration"} ELSE unmanaged
    <2>1. /\ secret' = [secret EXCEPT !.credential = pass.token] /\ pass.token # 0
          /\ UNCHANGED <<account, binding, stored, created>>
        BY <1>5 DEF R!ApplyCredential, R!cluster, Sound
    <2>2. secret' # R!NoSecret /\ DOMAIN secret' = {"credential", "labelled", "want"}
        BY <1>1, <1>2, <2>1
    <2>3. Shaped(pass')
        BY <1>1, <1>5, PassShapes DEF R!ApplyCredential, R!Answer, R!Calls
    <2>4. Sound'
        BY <1>1, <2>1, <2>2, <2>3 DEF Sound, Shaped
    <2>5. Writes
        <3>1. \A x \in Objects \ {"registration"} : Present(x)' <=> Present(x)
            BY <1>3, <1>5, <2>1, <2>2, PresentIs, PresentNext DEF Objects, Downstream
        <3>2. /\ late' = late \cup {"registration"} /\ removal' = Unquiet(removal)
            BY <1>3, <1>5, <2>1, <2>2 DEF Written, Marked
        <3>3. QED
            BY <1>3, <3>1, <3>2, <1>3, <1>5, <2>1, <2>2, PresentIs, PresentNext DEF Writes, Marked
    <2>6. QED
        BY <2>4, <2>5
<1>6. CASE R!SelfStore /\ Written("credential") /\ Marked("credential")
    <2>1. /\ stored' = pass.fresh /\ pass.fresh # 0 /\ UNCHANGED <<account, binding, secret, created>>
        BY <1>6 DEF R!SelfStore, R!cluster, Sound
    <2>2. Shaped(pass')
        BY <1>1, <1>6, PassShapes DEF R!SelfStore, R!Calls
    <2>3. Sound'
        BY <1>1, <2>1, <2>2 DEF Sound, Shaped
    <2>4. Writes
        <3>1. \A x \in Objects \ {"credential"} : Present(x)' <=> Present(x)
            BY <1>3, <1>6, <2>1, PresentIs, PresentNext DEF Objects, Downstream
        <3>2. /\ late' = late \cup {"credential"} /\ removal' = Unquiet(removal)
            BY <1>3, <1>6, <2>1 DEF Written, Marked
        <3>3. QED
            BY <1>3, <3>1, <3>2, <1>3, <1>6, <2>1, PresentIs, PresentNext DEF Writes, Marked
    <2>5. QED
        BY <2>3, <2>4
<1>7. CASE /\ R!CreateAccount \/ R!CreateBinding
           /\ IF account' # account THEN Written("account")
              ELSE IF binding' # binding THEN Written("binding")
              ELSE UNCHANGED <<removal, history>>
           /\ UNCHANGED labels
    <2>1. /\ UNCHANGED <<stored, secret>> /\ created' \in Nat
          /\ account' = account \/ (account = 0 /\ account' # 0)
          /\ binding' = binding \/ (binding = "absent" /\ binding' # "absent")
          /\ account' = account \/ binding' = binding
        BY <1>1, <1>7 DEF R!CreateAccount, R!CreateBinding
    <2>2. Shaped(pass')
        <3>1. Shaped([pass EXCEPT !.pc = "getBinding", !.repaired = TRUE])
            BY <1>1 DEF Shaped, Fields
        <3>2. QED
            BY <1>7, <3>1, PassShapes DEF R!CreateAccount, R!CreateBinding, R!Answer, R!Calls
    <2>3. Sound'
        BY <1>1, <2>1, <2>2 DEF Sound, Shaped
    <2>4. Writes
        <3>1. CASE account' # account
            <4>1. \A x \in Objects \ {"account"} : Present(x)' <=> Present(x)
                BY <1>3, <2>1, <3>1, PresentIs, PresentNext DEF Objects, Downstream
            <4>2. late' = late \cup {"account"} /\ removal' = Unquiet(removal) /\ unmanaged' = unmanaged
                BY <1>7, <3>1 DEF Written, labels
            <4>3. Present("account")'
                BY <2>1, <3>1, PresentNext
            <4>4. QED
                BY <1>3, <4>1, <4>2, <4>3 DEF Writes
        <3>2. CASE account' = account /\ binding' # binding
            <4>1. \A x \in Objects \ {"binding"} : Present(x)' <=> Present(x)
                BY <1>3, <2>1, <3>2, PresentIs, PresentNext DEF Objects, Downstream
            <4>2. late' = late \cup {"binding"} /\ removal' = Unquiet(removal) /\ unmanaged' = unmanaged
                BY <1>7, <3>2 DEF Written, labels
            <4>3. Present("binding")'
                BY <2>1, <3>2, PresentNext
            <4>4. QED
                BY <1>3, <4>1, <4>2, <4>3 DEF Writes
        <3>3. CASE account' = account /\ binding' = binding
            <4>1. \A x \in Objects : Present(x)' <=> Present(x)
                BY <1>3, <2>1, <3>3, PresentIs, PresentNext DEF Objects, Downstream
            <4>2. late' = late /\ removal' = removal /\ unmanaged' = unmanaged
                BY <1>7, <3>3 DEF labels, history
            <4>3. QED
                BY <1>3, <4>1, <4>2 DEF Writes
        <3>4. QED
            BY <3>1, <3>2, <3>3
    <2>5. QED
        BY <2>3, <2>4
<1>8. QED
    BY <1>4, <1>5, <1>6, <1>7 DEF PassWrites

LEMMA RivalWrites ==
    ASSUME Sound, RivalPublishes
    PROVE  Sound' /\ Writes
<1>1. /\ secret' = [credential |-> R!Foreign, labelled |-> TRUE, want |-> 1]
      /\ UNCHANGED <<stored, connection, downstream, created, pass, rival, far>>
      /\ Written("registration") /\ unmanaged' = unmanaged \ {"registration"}
    BY DEF RivalPublishes
<1>2. secret' # R!NoSecret /\ DOMAIN secret' = {"credential", "labelled", "want"}
    BY <1>1 DEF R!NoSecret
<1>3. \A x \in Objects \ {"registration"} : Present(x)' <=> Present(x)
    BY <1>1, PresentIs, PresentNext DEF Objects, Downstream, downstream
<1>4. late' = late \cup {"registration"} /\ removal' = Unquiet(removal)
    BY <1>1 DEF Written
<1>5. Writes
    BY <1>1, <1>2, <1>3, <1>4, PresentNext DEF Writes, downstream
<1>6. QED
    BY <1>1, <1>2, <1>5 DEF Sound

-----------------------------------------------------------------------------
(* Going on to the next step.                                              *)

LEMMA OnwardIs ==
    ASSUME NEW r \in Removals
    PROVE  LET next == Onward(r) IN
           /\ next \in Removals /\ next.found = FALSE /\ next.pc \in {r.pc, "done"}
           /\ next.dry = r.dry /\ next.fallback = r.fallback /\ next.misnamed = r.misnamed
           /\ next.collides = r.collides /\ next.refused = r.refused /\ next.failed = r.failed
           /\ PassedOver(next) = PassedOver(r)
           /\ next.pc # "done" => Order[next.step] \notin PassedOver(r)
           /\ \A i \in 1..9 : i < next.step \/ next.pc = "done" =>
                                  r.pc = "done" \/ i <= r.step \/ Order[i] \in PassedOver(r)
<1> DEFINE ahead == {i \in r.step + 1 .. Len(Order) : Order[i] \notin PassedOver(r)}
           next == Onward(r)
<1>1. Len(Order) = 9 /\ r.step \in 1..9
    BY OrderIs DEF Removals
<1>2. ahead \in SUBSET (1..9)
    BY <1>1
<1>3. CASE ahead = {}
    <2>1. next = [r EXCEPT !.pc = "done", !.found = FALSE]
        BY <1>3 DEF Onward
    <2>2. \A i \in 1..9 : i <= r.step \/ Order[i] \in PassedOver(r)
        BY <1>1, <1>3
    <2> HIDE DEF ahead, next
    <2>3. /\ next \in Removals /\ next.found = FALSE /\ next.pc = "done"
          /\ next.dry = r.dry /\ next.fallback = r.fallback /\ next.misnamed = r.misnamed
          /\ next.collides = r.collides /\ next.refused = r.refused /\ next.failed = r.failed
        BY <2>1 DEF Removals
    <2>4. PassedOver(next) = PassedOver(r)
        BY <2>3 DEF PassedOver
    <2>5. QED
        BY <2>2, <2>3, <2>4 DEF next
<1>4. CASE ahead # {}
    <2> DEFINE to == Min(ahead)
    <2>1. next = [r EXCEPT !.step = to, !.found = FALSE]
        BY <1>4 DEF Onward
    <2>2. to \in ahead /\ \A i \in ahead : to <= i
        BY <1>2, <1>4, MinIs
    <2>3. to \in 1..9 /\ Order[to] \notin PassedOver(r)
        BY <1>1, <2>2
    <2>4. \A i \in 1..9 : i < to => i <= r.step \/ Order[i] \in PassedOver(r)
        BY <1>1, <2>2
    <2> HIDE DEF ahead, next, to
    <2>5. /\ next \in Removals /\ next.found = FALSE /\ next.pc = r.pc /\ next.step = to
          /\ next.dry = r.dry /\ next.fallback = r.fallback /\ next.misnamed = r.misnamed
          /\ next.collides = r.collides /\ next.refused = r.refused /\ next.failed = r.failed
        BY <1>1, <2>1, <2>3 DEF Removals
    <2>6. PassedOver(next) = PassedOver(r)
        BY <2>5 DEF PassedOver
    <2>7. QED
        BY <2>3, <2>4, <2>5, <2>6 DEF next
<1>5. QED
    BY <1>3, <1>4

-----------------------------------------------------------------------------
(* The invariant.                                                          *)

Asked == {"resolve", "collide", "registration", "credential"}

\* A command has found nothing before it tears down, and is never at a step that
\* it passes over; what it has found is there and has the label; and where it
\* read an endpoint it has compared it.
AtWork ==
    /\ removal \in Removals
    /\ removal.pc \in {"idle"} \cup Asked => removal.step = 1 /\ removal.failed = {} /\ ~removal.found
    /\ removal.pc = "teardown" => Order[removal.step] \notin PassedOver(removal)
    /\ removal.found => /\ removal.pc = "teardown"
                        /\ Present(Target) /\ Target \notin unmanaged
Compared ==
    removal.pc \in {"registration", "credential", "teardown", "done"} =>
        removal.fallback \/ far = "skipped" \/ (removal.collides <=> rival = "endpoint")

\* What a teardown has been past is gone; or was written since, or is accounted
\* for, or is what it has just found.
Accounted(x) ==
    \/ ~Present(x) \/ x \in late
    \/ x \in removal.refused \cup removal.failed
    \/ x \in Downstream /\ (far = "skipped" \/ removal.collides)
    \/ x = "registration" /\ x \in unmanaged
    \/ removal.found /\ x = Target
Cleared ==
    ~removal.misnamed /\ ~removal.dry /\ removal.pc \in {"teardown", "done"} =>
        \A i \in 1..9 : i < removal.step \/ removal.pc = "done" => Accounted(At(i))

RemovalInv == AtWork /\ Compared /\ Cleared

\* Another's write changes nothing a command has done.
LEMMA WritesAreSeen ==
    ASSUME RemovalInv, Writes
    PROVE  RemovalInv'
<1> DEFINE Same(f) == removal'[f] = removal[f]
<1>1. /\ removal' \in Removals /\ Same("pc") /\ Same("dry") /\ Same("fallback") /\ Same("misnamed")
      /\ Same("collides") /\ Same("refused") /\ Same("step") /\ Same("found") /\ Same("failed")
    BY DEF RemovalInv, AtWork, Writes, Unquiet, Removals
<1>2. UNCHANGED <<far, rival>> /\ Target' = Target /\ PassedOver(removal)' = PassedOver(removal)
    BY <1>1 DEF Writes, Target, PassedOver
<1>3. removal.found => Target \in Objects
    BY AtIs, OrderIs DEF RemovalInv, AtWork, Removals, At, Target
<1>4. AtWork'
    BY <1>1, <1>2, <1>3 DEF RemovalInv, AtWork, Writes
<1>5. Compared'
    BY <1>1, <1>2 DEF RemovalInv, Compared
<1>6. \A x \in Objects : Accounted(x) => Accounted(x)'
    BY <1>1, <1>2 DEF Accounted, Writes
<1>7. Cleared'
    BY <1>1, <1>6, AtIs DEF RemovalInv, Cleared
<1>8. QED
    BY <1>4, <1>5, <1>7 DEF RemovalInv

\* A step is over when its object is settled, and nothing else is worse than it was.
LEMMA StepIsOver ==
    ASSUME RemovalInv, removal.pc = "teardown", NEW T, T = Target,
           NEW b \in {removal, Failing(T)},
           removal' = Onward(b) \/ removal' = Unquiet(Onward(b)),
           UNCHANGED <<far, rival>>,
           \A x \in Objects \ {T} :
               (Present(x)' => Present(x)) /\ (x \in late => x \in late')
               /\ (x \in unmanaged => x \in unmanaged'),
           ~removal.misnamed /\ ~removal.dry =>
               \/ ~Present(T)' \/ T \in late' \/ T \in b.failed
               \/ T = "registration" /\ T \in unmanaged'
    PROVE  RemovalInv'
<1> DEFINE o == Onward(b)
<1>1. removal \in Removals /\ removal.step \in 1..9 /\ T = At(removal.step) /\ T \in Objects
    BY AtIs, OrderIs DEF RemovalInv, AtWork, Removals, Target, At
<1>2. /\ b \in Removals /\ b.pc = "teardown" /\ b.step = removal.step /\ b.dry = removal.dry
      /\ b.fallback = removal.fallback /\ b.misnamed = removal.misnamed /\ b.collides = removal.collides
      /\ b.refused = removal.refused /\ removal.failed \subseteq b.failed
    BY <1>1 DEF Failing, Removals
<1>3. PassedOver(b) = PassedOver(removal)
    BY <1>2 DEF PassedOver
<1>4. /\ o \in Removals /\ o.found = FALSE /\ o.pc \in {"teardown", "done"}
      /\ o.dry = removal.dry /\ o.fallback = removal.fallback /\ o.misnamed = removal.misnamed
      /\ o.collides = removal.collides /\ o.refused = removal.refused /\ o.failed = b.failed
      /\ o.pc # "done" => Order[o.step] \notin PassedOver(b)
      /\ \A i \in 1..9 : i < o.step \/ o.pc = "done" => i <= removal.step \/ Order[i] \in PassedOver(b)
    BY <1>2, OnwardIs
<1> HIDE DEF o
<1>5. /\ removal' \in Removals /\ removal'.found = FALSE /\ removal'.pc = o.pc /\ removal'.step = o.step
      /\ removal'.dry = removal.dry /\ removal'.fallback = removal.fallback
      /\ removal'.misnamed = removal.misnamed
      /\ removal'.collides = removal.collides /\ removal'.refused = removal.refused
      /\ removal'.failed = b.failed
    <2>1. removal' = o \/ removal' = [o EXCEPT !.quiet = FALSE]
        BY DEF o, Unquiet
    <2>2. QED
        BY <1>4, <2>1 DEF Removals
<1>6. PassedOver(removal)' = PassedOver(b)
    BY <1>3, <1>5 DEF PassedOver
<1>7. AtWork'
    BY <1>4, <1>5, <1>6 DEF AtWork, Asked
<1>8. Compared'
    BY <1>5 DEF RemovalInv, Compared
<1>9. Cleared'
    <2>1. SUFFICES ASSUME ~removal.misnamed, ~removal.dry, NEW i \in 1..9, i < o.step \/ o.pc = "done"
                   PROVE  Accounted(At(i))'
        BY <1>5 DEF Cleared, At
    <2> DEFINE x == At(i)
    <2>2. x \in Objects
        BY AtIs
    <2>3. CASE x = T
        BY <1>5, <2>1, <2>3 DEF Accounted
    <2>4. CASE x # T /\ i < removal.step
        <3>1. Accounted(x)
            BY <2>1, <2>4 DEF RemovalInv, Cleared
        <3>2. QED
            BY <1>2, <1>5, <2>2, <2>4, <3>1 DEF Accounted
    <2>5. CASE x # T /\ Order[i] \in PassedOver(b)
        <3>1. CASE i = 9
            <4>1. x = "registration" /\ x \in removal.refused
                BY <1>2, <2>1, <2>5, <3>1, OrderIs DEF At, PassedOver, Removals, Downstream
            <4>2. QED
                BY <1>5, <4>1 DEF Accounted
        <3>2. CASE i # 9
            <4>1. x = Order[i] /\ x # "recheck"
                BY <3>2, AtIs DEF At
            <4>2. x \in removal.refused \/ (x \in Downstream /\ (far = "skipped" \/ removal.collides))
                BY <1>2, <2>5, <4>1 DEF PassedOver
            <4>3. QED
                BY <1>5, <4>2 DEF Accounted
        <3>3. QED
            BY <3>1, <3>2
    <2>6. i = removal.step => x = T
        BY <1>1
    <2>7. QED
        BY <1>1, <1>4, <2>1, <2>3, <2>4, <2>5, <2>6
<1>10. QED
    BY <1>7, <1>8, <1>9 DEF RemovalInv

-----------------------------------------------------------------------------
(* Every step.                                                             *)

Kept == UNCHANGED <<local, downstream, labels, rival, far>>

LEMMA KeptIs ==
    ASSUME Kept
    PROVE  UNCHANGED <<far, rival, unmanaged>> /\ \A x \in Objects : Present(x)' <=> Present(x)
BY PresentIs, PresentNext DEF Kept, local, downstream, labels, Objects, Downstream

LEMMA InitInv == Init => Sound /\ RemovalInv
<1> SUFFICES ASSUME Init PROVE Sound /\ RemovalInv
    OBVIOUS
<1>1. DOMAIN pass = Fields /\ pass.pc = "idle"
    BY DEF Init, R!NoPass, Fields
<1>2. DOMAIN secret = {"credential", "labelled", "want"} /\ created \in Nat
    BY DEF Init, R!NoSecret
<1>3. Sound
    BY <1>1, <1>2 DEF Sound
<1>4. NoRemoval \in Removals
    BY OrderIs DEF NoRemoval, Removals
<1>5. RemovalInv
    BY <1>4 DEF Init, RemovalInv, AtWork, Compared, Cleared, NoRemoval
<1>6. QED
    BY <1>3, <1>5

\* Before it deletes anything.
LEMMA AskingKeeps ==
    ASSUME RemovalInv,
           Start \/ Killed \/ Resolve \/ Collide \/ Inspect("registration") \/ Inspect("credential")
    PROVE  RemovalInv' /\ Kept
<1>1. removal \in Removals /\ NoRemoval \in Removals
    BY OrderIs DEF RemovalInv, AtWork, NoRemoval, Removals
<1>2. Kept
    BY DEF Start, Killed, Resolve, Collide, Inspect, Kept
<1>3. UNCHANGED <<far, rival>>
    BY <1>2 DEF Kept
<1>4. CASE Start \/ Killed
    <2>1. \E dry \in BOOLEAN : removal' \in {NoRemoval, [NoRemoval EXCEPT !.pc = "resolve", !.dry = dry]}
        BY <1>4 DEF Start, Killed
    <2>2. /\ NoRemoval.pc = "idle" /\ NoRemoval.step = 1 /\ NoRemoval.failed = {}
          /\ ~NoRemoval.found
        BY DEF NoRemoval
    <2>3. /\ removal' \in Removals /\ removal'.pc \in {"idle", "resolve"} /\ removal'.step = 1
          /\ removal'.failed = {} /\ ~removal'.found
        BY <1>1, <2>1, <2>2 DEF Removals
    <2>4. QED
        BY <1>2, <2>3 DEF RemovalInv, AtWork, Compared, Cleared, Asked
<1>5. CASE Resolve
    <2>1. PICK misnamed \in BOOLEAN :
              removal' = [removal EXCEPT !.fallback = (connection # "valid"), !.misnamed = misnamed,
                              !.pc = IF far = "skipped" \/ connection # "valid" THEN "registration"
                                     ELSE "collide"]
        BY <1>5 DEF Resolve
    <2> DEFINE to == IF far = "skipped" \/ connection # "valid" THEN "registration" ELSE "collide"
               fallback == connection # "valid"
    <2>2. fallback \in BOOLEAN
        BY Zenon
    <2>3. /\ to \in {"registration", "collide"}
          /\ to = "registration" => fallback \/ far = "skipped"
          /\ removal' = [removal EXCEPT !.fallback = fallback, !.misnamed = misnamed, !.pc = to]
        BY <2>1
    <2> HIDE DEF to, fallback
    <2>4. /\ removal' \in Removals /\ removal'.pc = to /\ removal'.fallback = fallback
          /\ removal'.step = removal.step /\ removal'.failed = removal.failed
          /\ removal'.found = removal.found
        BY <1>1, <2>2, <2>3 DEF Removals
    <2>5. removal.pc = "resolve"
        BY <1>5 DEF Resolve
    <2>6. QED
        BY <1>2, <1>3, <2>3, <2>4, <2>5 DEF RemovalInv, AtWork, Compared, Cleared, Asked
<1>6. CASE Collide
    <2>1. Collision \in BOOLEAN /\ (Collision <=> rival = "endpoint")
        BY Zenon DEF Collision
    <2>2. /\ removal.pc = "collide"
          /\ removal' = [removal EXCEPT !.collides = Collision, !.pc = "registration"]
        BY <1>6 DEF Collide
    <2>3. /\ removal' \in Removals /\ removal'.pc = "registration" /\ removal'.collides = Collision
          /\ removal'.step = removal.step /\ removal'.failed = removal.failed
          /\ removal'.found = removal.found
        BY <1>1, <2>1, <2>2 DEF Removals
    <2>4. QED
        BY <1>2, <1>3, <2>1, <2>2, <2>3 DEF RemovalInv, AtWork, Compared, Cleared, Asked
<1>7. ASSUME NEW x \in {"registration", "credential"}, Inspect(x) PROVE RemovalInv' /\ Kept
    <2>1. /\ removal.pc = x
          /\ \E refuse : removal' \in {Inspected(x, refuse), Unquiet(Inspected(x, refuse))}
        BY <1>7 DEF Inspect
    <2>2. PICK refuse : removal' \in {Inspected(x, refuse), Unquiet(Inspected(x, refuse))}
        BY <2>1
    <2> DEFINE refused == IF refuse THEN removal.refused \cup {x} ELSE removal.refused
               to == IF x = "registration" THEN "credential" ELSE "teardown"
    <2>3. Inspected(x, refuse) = [removal EXCEPT !.refused = refused, !.pc = to]
        BY <1>1 DEF Inspected, Removals
    <2>4. refused \subseteq {"registration", "credential"} /\ to \in {"credential", "teardown"}
        BY <1>1 DEF Removals
    <2> HIDE DEF refused, to
    <2>5. /\ removal' \in Removals /\ removal'.pc = to /\ removal'.refused = refused
          /\ removal'.step = 1 /\ removal'.failed = removal.failed /\ ~removal'.found
          /\ removal'.fallback = removal.fallback /\ removal'.collides = removal.collides
        <3>1. removal.step = 1 /\ ~removal.found
            BY <2>1 DEF RemovalInv, AtWork, Asked
        <3>2. PICK r : r = [removal EXCEPT !.refused = refused, !.pc = to]
            OBVIOUS
        <3>3. /\ r \in Removals /\ r.pc = to /\ r.refused = refused
              /\ r.step = 1 /\ r.failed = removal.failed /\ ~r.found
              /\ r.fallback = removal.fallback /\ r.collides = removal.collides
            BY <1>1, <2>4, <3>1, <3>2 DEF Removals
        <3>4. removal' = r \/ removal' = [r EXCEPT !.quiet = FALSE]
            BY <2>2, <2>3, <3>2 DEF Unquiet
        <3>5. QED
            BY <3>3, <3>4 DEF Removals
    <2>6. "connection" \notin PassedOver(removal')
        BY <2>4, <2>5 DEF PassedOver, Downstream
    <2>7. "connection" \notin PassedOver(removal)'
        BY <1>3, <2>6 DEF PassedOver
    <2>8. AtWork'
        <3>1. removal.failed = {}
            BY <2>1 DEF RemovalInv, AtWork, Asked
        <3>2. QED
            BY <2>4, <2>5, <2>7, <3>1, OrderIs DEF AtWork, Asked
    <2>9. Compared'
        BY <1>3, <2>1, <2>5 DEF RemovalInv, Compared
    <2>10. Cleared'
        BY <2>4, <2>5 DEF Cleared
    <2>11. QED
        BY <1>2, <2>8, <2>9, <2>10 DEF RemovalInv
<1>8. QED
    BY <1>4, <1>5, <1>6, <1>7

LEMMA LookKeeps ==
    ASSUME RemovalInv, Look
    PROVE  RemovalInv' /\ Kept
<1>1. PICK T : T = Target
    OBVIOUS
<1>2. /\ removal \in Removals /\ removal.step \in 1..9 /\ T = At(removal.step) /\ T \in Objects
      /\ removal.pc = "teardown" /\ ~removal.found
    BY <1>1, AtIs, OrderIs DEF RemovalInv, AtWork, Removals, Target, At, Look
<1>3. Kept
    BY DEF Look, Kept
<1>4. UNCHANGED <<far, rival, unmanaged>> /\ \A x \in Objects : Present(x)' <=> Present(x)
    BY <1>3, KeptIs
<1>5. T \in Failing(T).failed
    BY <1>2 DEF Failing, Removals
<1>6. CASE removal' = Found(T) /\ late' = late \ {T}
    <2>1. CASE removal' = [removal EXCEPT !.found = TRUE] /\ T \notin unmanaged /\ Addressed(T)
        <3>1. /\ removal' \in Removals /\ removal'.found /\ removal'.pc = removal.pc
              /\ removal'.step = removal.step /\ removal'.dry = removal.dry
              /\ removal'.fallback = removal.fallback /\ removal'.misnamed = removal.misnamed
              /\ removal'.collides = removal.collides /\ removal'.refused = removal.refused
              /\ removal'.failed = removal.failed
            BY <1>2, <2>1 DEF Removals
        <3>2. Target' = T /\ PassedOver(removal)' = PassedOver(removal)
            BY <1>1, <1>4, <3>1 DEF Target, PassedOver
        <3>3. Present(T)'
            BY <1>2, <1>4, <2>1 DEF Addressed
        <3>4. AtWork'
            BY <1>2, <1>4, <2>1, <3>1, <3>2, <3>3 DEF RemovalInv, AtWork, Asked
        <3>5. Compared'
            BY <1>4, <3>1 DEF RemovalInv, Compared
        <3>6. \A x \in Objects : Accounted(x) => Accounted(x)'
            BY <1>2, <1>4, <1>6, <3>1, <3>2 DEF Accounted
        <3>7. Cleared'
            BY <3>1, <3>6, AtIs DEF RemovalInv, Cleared
        <3>8. QED
            BY <1>3, <3>4, <3>5, <3>7 DEF RemovalInv
    <2>2. CASE \E b \in {removal, Failing(T)} :
                   /\ removal' = Onward(b)
                   /\ \/ ~Addressed(T) \/ removal.dry \/ T \in b.failed
                      \/ Order[removal.step] = "recheck" /\ T \in unmanaged
        <3>1. PICK b \in {removal, Failing(T)} :
                   /\ removal' = Onward(b)
                   /\ \/ ~Addressed(T) \/ removal.dry \/ T \in b.failed
                      \/ Order[removal.step] = "recheck" /\ T \in unmanaged
            BY <2>2
        <3>2. Order[removal.step] = "recheck" => T = "registration"
            BY <1>2 DEF At
        <3>3. ~removal.misnamed /\ ~Addressed(T) => ~Present(T)'
            BY <1>2, <1>4 DEF Addressed
        <3>4. ~removal.misnamed /\ ~removal.dry =>
                  \/ ~Present(T)' \/ T \in late' \/ T \in b.failed
                  \/ T = "registration" /\ T \in unmanaged'
            BY <1>4, <3>1, <3>2, <3>3
        <3>5. \A x \in Objects \ {T} : /\ Present(x)' => Present(x)
                                       /\ x \in late => x \in late'
                                       /\ x \in unmanaged => x \in unmanaged'
            BY <1>4, <1>6
        <3>6. RemovalInv'
            BY <1>1, <1>2, <1>4, <3>1, <3>4, <3>5, StepIsOver
        <3>7. QED
            BY <1>3, <3>6
    <2>3. QED
        BY <1>5, <1>6, <2>1, <2>2 DEF Found
<1>7. CASE /\ removal' = Onward(Failing(T)) \/ removal' = Unquiet(Onward(Failing(T)))
           /\ late' = late
    <2>1. \A x \in Objects \ {T} : /\ Present(x)' => Present(x)
                                   /\ x \in late => x \in late'
                                   /\ x \in unmanaged => x \in unmanaged'
        BY <1>4, <1>7
    <2>2. RemovalInv'
        BY <1>1, <1>2, <1>4, <1>5, <1>7, <2>1, StepIsOver
    <2>3. QED
        BY <1>3, <2>2
<1>8. QED
    BY <1>1, <1>6, <1>7 DEF Look

\* What a deletion does, to its object alone.
LEMMA ErasesOne ==
    ASSUME NEW T \in Objects, Erase(T)
    PROVE  /\ ~Present(T)' /\ \A x \in Objects \ {T} : Present(x)' <=> Present(x)
           /\ unmanaged' = unmanaged \ {T}
<1>1. ~Present(T)'
    BY PresentNext DEF Erase, Objects, Downstream
<1>2. \A x \in Objects \ {T} : Present(x)' <=> Present(x)
    BY PresentIs, PresentNext DEF Erase, Objects, Downstream
<1>3. QED
    BY <1>1, <1>2 DEF Erase

LEMMA DeleteKeeps ==
    ASSUME RemovalInv, Delete
    PROVE  RemovalInv'
<1>1. PICK T : T = Target
    OBVIOUS
<1>2. /\ removal \in Removals /\ T \in Objects /\ removal.pc = "teardown"
      /\ UNCHANGED <<far, rival, late>>
    BY <1>1, AtIs, OrderIs DEF RemovalInv, AtWork, Removals, Target, At, Delete, history
<1>3. T \in Failing(T).failed
    BY <1>2 DEF Failing, Removals
<1>4. CASE Erase(T) /\ (removal' = Onward(removal) \/ removal' = Unquiet(Onward(Failing(T))))
    <2>1. /\ ~Present(T)' /\ \A x \in Objects \ {T} : Present(x)' <=> Present(x)
          /\ unmanaged' = unmanaged \ {T}
        BY <1>2, <1>4, ErasesOne
    <2>2. \A x \in Objects \ {T} : /\ Present(x)' => Present(x)
                                   /\ x \in late => x \in late'
                                   /\ x \in unmanaged => x \in unmanaged'
        BY <1>2, <2>1
    <2>3. QED
        BY <1>1, <1>2, <1>4, <2>1, <2>2, StepIsOver
<1>5. CASE UNCHANGED <<local, downstream, labels>> /\ removal' = Unquiet(Onward(Failing(T)))
    <2>1. UNCHANGED unmanaged /\ \A x \in Objects : Present(x)' <=> Present(x)
        BY <1>2, <1>5, KeptIs DEF Kept
    <2>2. \A x \in Objects \ {T} : /\ Present(x)' => Present(x)
                                   /\ x \in late => x \in late'
                                   /\ x \in unmanaged => x \in unmanaged'
        BY <1>2, <2>1
    <2>3. QED
        BY <1>1, <1>2, <1>3, <1>5, <2>2, StepIsOver
<1>6. QED
    BY <1>1, <1>4, <1>5 DEF Delete

LEMMA CommandSound ==
    ASSUME Sound, Command
    PROVE  Sound'
<1>1. UNCHANGED <<pass, created>>
    BY DEF Command, Start, Killed, Resolve, Collide, Inspect, Look, Delete
<1>2. secret' = secret \/ secret' = R!NoSecret
    BY DEF Command, Start, Killed, Resolve, Collide, Inspect, Look, Delete, Erase, local
<1>3. DOMAIN R!NoSecret = {"credential", "labelled", "want"}
    BY DEF R!NoSecret
<1>4. QED
    BY <1>1, <1>2, <1>3 DEF Sound

\* What a step does to the command's work, whoever takes it.
LEMMA Steps ==
    ASSUME Sound, RemovalInv, [Next]_vars
    PROVE  Sound' /\ RemovalInv' /\ (Delete \/ Writes \/ Kept)
<1>1. CASE Start \/ Killed \/ Resolve \/ Collide \/ Inspect("registration") \/ Inspect("credential")
    BY <1>1, AskingKeeps, CommandSound DEF Command
<1>2. CASE Look
    BY <1>2, LookKeeps, CommandSound DEF Command
<1>3. CASE Delete
    BY <1>3, DeleteKeeps, CommandSound DEF Command
<1>4. CASE PassWrites \/ RivalPublishes
    BY <1>4, PassesWrite, RivalWrites, WritesAreSeen
<1>5. CASE PassReads \/ Poll \/ UNCHANGED vars
    <2>1. /\ Kept /\ UNCHANGED <<removal, late>> /\ Sound'
        <3>1. CASE PassReads
            BY <3>1, ReadsKeep DEF Kept, history
        <3>2. CASE Poll \/ UNCHANGED vars
            BY <3>2 DEF Poll, vars, Kept, Sound, local, history
        <3>3. QED
            BY <1>5, <3>1, <3>2
    <2>2. UNCHANGED <<far, rival, unmanaged>> /\ \A x \in Objects : Present(x)' <=> Present(x)
        BY <2>1, KeptIs
    <2>3. UNCHANGED <<connection, identity, grants>>
        BY <2>1 DEF Kept, local, downstream
    <2>4. Writes
        BY <2>1, <2>2, <2>3 DEF Writes
    <2>5. QED
        BY <2>1, <2>4, WritesAreSeen
<1>6. QED
    BY <1>1, <1>2, <1>3, <1>4, <1>5 DEF Next, Command

\* Only a deletion removes anything, and only what the command has found.
LEMMA OnlyDeleted ==
    ASSUME Sound, RemovalInv, [Next]_vars, NEW x \in Objects, Removes(x)
    PROVE  Delete /\ x = Target
<1>1. PICK T : T = Target
    OBVIOUS
<1>2. ~Writes
    BY DEF Removes, Writes
<1>3. ~Kept
    BY KeptIs DEF Removes
<1>4. Delete
    BY <1>2, <1>3, Steps
<1>5. T \in Objects
    BY <1>1, <1>4, AtIs, OrderIs DEF RemovalInv, AtWork, Removals, Target, At
<1>6. CASE Erase(T)
    BY <1>1, <1>4, <1>5, <1>6, ErasesOne DEF Removes
<1>7. CASE UNCHANGED <<local, downstream, labels>>
    BY <1>3, <1>4, <1>7 DEF Delete, Kept
<1>8. QED
    BY <1>1, <1>4, <1>6, <1>7 DEF Delete

\* The command is at one of its steps, and at none that it passes over.
LEMMA TargetIs ==
    ASSUME RemovalInv, Delete
    PROVE  /\ Target \notin unmanaged /\ Target \notin removal.refused
           /\ Target \in Downstream => far # "skipped" /\ ~removal.collides
           /\ removal.pc = "teardown"
<1>1. removal.pc = "teardown" /\ removal.step \in 1..9 /\ Target = At(removal.step)
    BY OrderIs DEF RemovalInv, AtWork, Removals, Target, At, Delete
<1>2. Target \notin unmanaged /\ Order[removal.step] \notin PassedOver(removal)
    BY <1>1 DEF RemovalInv, AtWork, Delete
<1>3. Target \notin removal.refused
    BY <1>1, <1>2 DEF At, PassedOver
<1>4. Target \in Downstream => Order[removal.step] \in Downstream
    BY <1>1, AtIs
<1>5. QED
    BY <1>1, <1>2, <1>3, <1>4 DEF PassedOver

LEMMA Invariant == Spec => [](Sound /\ RemovalInv)
<1>1. Sound /\ RemovalInv /\ [Next]_vars => Sound' /\ RemovalInv'
    BY Steps
<1>2. QED
    BY <1>1, InitInv, PTL DEF Spec

\* Whatever passes write meanwhile, a refused object survives the run, and what
\* lacks the label is not deleted.
THEOREM RefusedSurvive == Spec => SparesRefused
<1> DEFINE Spared == \A x \in Objects : Removes(x) => x \notin removal.refused \cup unmanaged
<1>1. Sound /\ RemovalInv /\ [Next]_vars => [Spared]_vars
    BY OnlyDeleted, TargetIs
<1>2. QED
    BY <1>1, Invariant, PTL DEF Spec, SparesRefused

\* The identities of a cluster that another connection registers too survive,
\* unless the command had no endpoint to compare.
THEOREM SharedSurvive == Spec => SparesShared
<1> DEFINE Spared == \A x \in Downstream : Removes(x) => rival # "endpoint" \/ removal.fallback
<1>1. Sound /\ RemovalInv /\ [Next]_vars => [Spared]_vars
    <2>1. ASSUME Sound, RemovalInv, [Next]_vars, NEW x \in Downstream, Removes(x)
          PROVE  rival # "endpoint" \/ removal.fallback
        <3>1. x \in Objects
            BY DEF Objects
        <3>2. far # "skipped" /\ ~removal.collides /\ removal.pc = "teardown"
            BY <2>1, <3>1, OnlyDeleted, TargetIs
        <3>3. QED
            BY <2>1, <3>2 DEF RemovalInv, Compared
    <2>2. QED
        BY <2>1
<1>2. QED
    BY <1>1, Invariant, PTL DEF Spec, SparesShared

\* When the command says it is done, what it was to remove is gone.
THEOREM DoneIsGone == Spec => []DoneMeansGone
<1>1. RemovalInv => DoneMeansGone
    <2>1. SUFFICES ASSUME RemovalInv, Done, ~removal.misnamed, NEW x \in Objects \ late
                   PROVE  \/ ~Present(x)
                          \/ x \in Downstream /\ far = "skipped"
                          \/ x = "registration" /\ x \in unmanaged
        BY DEF DoneMeansGone
    <2>2. /\ removal.pc = "done" /\ ~removal.dry /\ ~removal.found
          /\ removal.refused = {} /\ removal.failed = {} /\ ~removal.collides
        BY <2>1 DEF Done, Remaining, RemovalInv, AtWork
    <2>3. PICK i \in 1..9 : At(i) = x
        BY AtIs
    <2>4. Accounted(x)
        BY <2>1, <2>2, <2>3 DEF RemovalInv, Cleared
    <2>5. QED
        BY <2>1, <2>2, <2>4 DEF Accounted
<1>2. QED
    BY <1>1, Invariant, PTL
-----------------------------------------------------------------------------
(* What a preview says.  A command that is not disturbed keeps a promise: what *)
(* it lists now, and what it will come to list as things stand.               *)

Under(x, misnamed) == Present(x) /\ (misnamed => x \in {"connection", "credential"})
Refusable(misnamed) ==
    {x \in {"registration", "credential"} : Under(x, misnamed) /\ x \in unmanaged \cup theirs}
\* What cannot be looked at, or lacks the label.
Obstructed(x, misnamed) ==
    (x \in Downstream /\ far # "answers") \/ (Under(x, misnamed) /\ x \in unmanaged)
Skipped(collides) == IF far = "skipped" \/ collides THEN Downstream ELSE {}
Listed(refused, collides, rest) == refused \cup rest \cup (IF collides THEN {"downstream"} ELSE {})
Left(refused, misnamed, collides) ==
    {x \in Objects \ (refused \cup Skipped(collides)) : Obstructed(x, misnamed)}

Colliding == rival = "endpoint" /\ far # "skipped" /\ connection = "valid"
Said(misnamed) ==
    Listed(Refusable(misnamed), Colliding, Left(Refusable(misnamed), misnamed, Colliding))

Ahead(r) ==
    IF r.pc # "teardown" THEN {}
    ELSE {x \in Left(r.refused, r.misnamed, r.collides) : \E i \in 1..8 : i >= r.step /\ Order[i] = x}
Promise(r) == Listed(r.refused, r.collides, r.failed \cup Ahead(r))

\* While a command asks, or only previews, everything is as it found it.
Asking ==
    /\ removal.pc \in {"resolve", "collide", "registration"} => removal.refused = {}
    /\ removal.pc \in {"resolve", "collide"} => ~removal.collides
    /\ removal.pc = "collide" => connection = "valid" /\ far # "skipped"
    /\ \/ removal.pc \in {"registration", "credential"}
       \/ removal.pc \in {"teardown", "done"} /\ removal.dry
       => (removal.collides <=> Colliding)
    /\ removal.pc = "credential" /\ removal.quiet =>
       removal.refused = Refusable(removal.misnamed) \cap {"registration"}
    /\ removal.found => ~removal.dry /\ (Target \in Downstream => far = "answers")
    /\ removal.pc = "idle" => ~removal.dry
Previews ==
    removal.dry /\ removal.quiet /\ removal.pc \in {"teardown", "done"} =>
        Promise(removal) = Said(removal.misnamed)
Foretold ==
    forecast # NoForecast /\ removal.pc # "idle" =>
        /\ removal.dry \/ removal.pc \in Asked => forecast.said = Said(forecast.misnamed)
        /\ ~removal.dry /\ removal.pc \in {"teardown", "done"} /\ removal.quiet
           /\ forecast.misnamed = removal.misnamed
           => forecast.said = Promise(removal)
PreviewInv == Asking /\ Previews /\ Foretold

\* Onward, and how far.
LEMMA OnwardGoesOn ==
    ASSUME NEW r \in Removals
    PROVE  LET next == Onward(r) IN
           /\ next.quiet = r.quiet
           /\ next.pc # "done" => next.step > r.step
<1> DEFINE ahead == {i \in r.step + 1 .. Len(Order) : Order[i] \notin PassedOver(r)}
           next == Onward(r)
<1>1. Len(Order) = 9 /\ r.step \in 1..9
    BY OrderIs DEF Removals
<1>2. ahead \in SUBSET (1..9)
    BY <1>1
<1>3. CASE ahead = {}
    <2>1. next = [r EXCEPT !.pc = "done", !.found = FALSE]
        BY <1>3 DEF Onward
    <2>2. QED
        BY <2>1 DEF Removals
<1>4. CASE ahead # {}
    <2>1. next = [r EXCEPT !.step = Min(ahead), !.found = FALSE]
        BY <1>4 DEF Onward
    <2>2. Min(ahead) > r.step
        BY <1>1, <1>2, <1>4, MinIs
    <2> HIDE DEF next
    <2>3. next.quiet = r.quiet /\ next.step = Min(ahead)
        BY <2>1 DEF Removals
    <2>4. QED
        BY <2>2, <2>3 DEF next
<1>5. QED
    BY <1>3, <1>4

\* The step taken is not ahead any more, and nothing else is passed by.
LEMMA AheadShrinks ==
    ASSUME NEW r \in Removals, r.pc = "teardown"
    PROVE  Ahead(Onward(r)) = Ahead(r) \ {Order[r.step]}
<1> DEFINE o == Onward(r)
<1>1. /\ o \in Removals /\ o.pc \in {"teardown", "done"}
      /\ o.misnamed = r.misnamed /\ o.collides = r.collides /\ o.refused = r.refused
      /\ \A i \in 1..9 : i < o.step \/ o.pc = "done" => i <= r.step \/ Order[i] \in PassedOver(r)
      /\ o.pc # "done" => o.step > r.step
    BY OnwardIs, OnwardGoesOn
<1>2. o.step \in 1..9 /\ r.step \in 1..9
    BY <1>1, OrderIs DEF Removals
<1> HIDE DEF o
<1> DEFINE left == Left(r.refused, r.misnamed, r.collides)
<1>3. /\ left \subseteq Objects /\ left \cap (r.refused \cup Skipped(r.collides)) = {}
      /\ Left(o.refused, o.misnamed, o.collides) = left
    BY <1>1 DEF Left
<1> HIDE DEF left
<1>4. \A x \in left : x # "recheck" /\ x \notin PassedOver(r)
    BY <1>3 DEF PassedOver, Skipped, Objects, Downstream
<1>5. \A i, j \in 1..8 : Order[i] = Order[j] => i = j
    <2>1. \A i \in 1..8 : Order[i] = At(i)
        BY AtIs DEF At
    <2>2. \A i, j \in 1..8 : i < j => Order[i] # Order[j]
        BY <2>1, AtIs
    <2>3. QED
        BY <2>2
<1>6. \A i \in 1..8 : Order[i] # "recheck"
    BY AtIs
<1>7. ASSUME NEW x \in left, NEW i \in 1..8, i >= r.step, Order[i] = x, x # Order[r.step]
      PROVE  o.pc = "teardown" /\ i >= o.step
    BY <1>1, <1>2, <1>4, <1>7
<1>8. ASSUME NEW x \in left, NEW i \in 1..8, o.pc = "teardown", i >= o.step, Order[i] = x
      PROVE  i >= r.step /\ x # Order[r.step]
    <2>1. i > r.step
        BY <1>1, <1>2, <1>8
    <2>2. CASE r.step \in 1..8
        BY <1>5, <1>8, <2>1, <2>2
    <2>3. CASE r.step = 9
        BY <2>1, <2>3
    <2>4. QED
        BY <1>2, <2>1, <2>2, <2>3
<1>9. Ahead(r) = {x \in left : \E i \in 1..8 : i >= r.step /\ Order[i] = x}
    BY DEF Ahead, left
<1>10. Ahead(o) = IF o.pc # "teardown" THEN {} ELSE {x \in left : \E i \in 1..8 : i >= o.step /\ Order[i] = x}
    BY <1>3 DEF Ahead
<1>11. QED
    BY <1>7, <1>8, <1>9, <1>10 DEF o

\* A promise depends on what there is, as far as it was not come to yet.
LEMMA SameWorld ==
    ASSUME UNCHANGED <<connection, labels, far, rival>>, \A x \in Objects : Present(x)' <=> Present(x)
    PROVE  /\ Colliding' <=> Colliding
           /\ \A m : Refusable(m)' = Refusable(m) /\ Said(m)' = Said(m)
           /\ \A a, b, c : Left(a, b, c)' = Left(a, b, c)
<1>1. Colliding' <=> Colliding
    BY DEF Colliding
<1>2. \A m : \A x \in Objects : (Under(x, m))' <=> Under(x, m)
    BY DEF Under
<1>3. UNCHANGED <<unmanaged, theirs, far>>
    BY DEF labels
<1>4. \A m : Refusable(m)' = Refusable(m)
    BY <1>2, <1>3 DEF Refusable, Objects
<1>5. \A m : \A x \in Objects : (Obstructed(x, m))' <=> Obstructed(x, m)
    BY <1>2, <1>3 DEF Obstructed
<1>6. \A a, b, c : Left(a, b, c)' = Left(a, b, c)
    BY <1>3, <1>5 DEF Left, Skipped
<1>7. \A m : Said(m)' = Said(m)
    <2>1. TAKE m
    <2>2. CASE Colliding
        BY <1>1, <1>4, <1>6, <2>2 DEF Said, Listed
    <2>3. CASE ~Colliding
        BY <1>1, <1>4, <1>6, <2>3 DEF Said, Listed
    <2>4. QED
        BY <2>2, <2>3
<1>8. QED
    BY <1>1, <1>4, <1>6, <1>7

LEMMA StandsOnward ==
    ASSUME UNCHANGED <<connection, labels, far, rival>>, \A x \in Objects : Present(x)' <=> Present(x)
    PROVE  /\ Promise(removal)' = Promise(removal')
           /\ Said(removal.misnamed)' = Said(removal'.misnamed)
           /\ Said(forecast.misnamed)' = Said(forecast'.misnamed)
           /\ Refusable(removal.misnamed)' = Refusable(removal'.misnamed)
<1>1. UNCHANGED <<unmanaged, theirs, far>>
    BY DEF labels
<1>2. \A m : \A x \in Objects : (Under(x, m))' <=> Under(x, m)
    BY DEF Under
<1>3. \A m : \A x \in Objects : (Obstructed(x, m))' <=> Obstructed(x, m)
    BY <1>1, <1>2 DEF Obstructed
<1>4. Left(removal.refused, removal.misnamed, removal.collides)'
          = Left(removal'.refused, removal'.misnamed, removal'.collides)
    BY <1>1, <1>3 DEF Left, Skipped
<1>5. Ahead(removal)' = Ahead(removal')
    BY <1>4 DEF Ahead
<1>6. Promise(removal)' = Promise(removal')
    BY <1>5 DEF Promise, Listed
<1>7. QED
    BY <1>6, SameWorld

\* A command that starts to tear down promises what it would have to say.
LEMMA StartsAsSaid ==
    ASSUME NEW r \in Removals, r.pc = "teardown", r.step = 1, r.failed = {},
           r.refused = Refusable(r.misnamed), r.collides <=> Colliding
    PROVE  Promise(r) = Said(r.misnamed)
<1>1. \A x \in Objects : \E i \in 1..8 : i >= 1 /\ Order[i] = x
    BY OrderIs DEF Objects, Downstream
<1>2. Ahead(r) = Left(r.refused, r.misnamed, r.collides)
    BY <1>1 DEF Ahead, Left
<1>3. CASE Colliding
    BY <1>2, <1>3 DEF Promise, Said, Listed, Left, Skipped
<1>4. CASE ~Colliding
    BY <1>2, <1>4 DEF Promise, Said, Listed, Left, Skipped
<1>5. QED
    BY <1>3, <1>4

LEMMA PreviewInit == Init => PreviewInv
BY DEF Init, NoRemoval, PreviewInv, Asking, Previews, Foretold

LEMMA StartPreviews ==
    ASSUME RemovalInv, PreviewInv, Start \/ Killed
    PROVE  PreviewInv'
<1>1. Kept
    BY AskingKeeps
<1>2. UNCHANGED <<connection, labels, far, rival>> /\ \A x \in Objects : Present(x)' <=> Present(x)
    BY <1>1, KeptIs DEF Kept, local
<1>3. CASE Start
    <2>1. PICK dry \in BOOLEAN : removal' = [NoRemoval EXCEPT !.pc = "resolve", !.dry = dry]
        BY <1>3 DEF Start
    <2>2. /\ removal'.pc = "resolve" /\ removal'.refused = {} /\ removal'.collides = FALSE
          /\ removal'.found = FALSE
        BY <2>1 DEF NoRemoval
    <2>3. Asking' /\ Previews'
        BY <2>2 DEF Asking, Previews
    <2>4. ASSUME forecast' # NoForecast PROVE forecast'.said = Said(forecast'.misnamed)
        <3>1. removal.dry /\ forecast' = forecast /\ removal.pc \in {"idle", "done"}
            BY <1>3, <2>4 DEF Start
        <3>2. removal.pc # "idle"
            BY <3>1 DEF PreviewInv, Asking
        <3>3. QED
            BY <2>4, <3>1, <3>2 DEF PreviewInv, Foretold
    <2>5. Foretold'
        BY <1>2, <2>2, <2>4, StandsOnward DEF Foretold, Asked
    <2>6. QED
        BY <2>3, <2>5 DEF PreviewInv
<1>4. CASE Killed
    <2>1. /\ removal'.pc = "idle" /\ removal'.refused = {} /\ removal'.collides = FALSE
          /\ removal'.found = FALSE /\ removal'.dry = FALSE
        BY <1>4 DEF Killed, NoRemoval
    <2>2. QED
        BY <2>1 DEF PreviewInv, Asking, Previews, Foretold
<1>5. QED
    BY <1>3, <1>4

LEMMA ResolvePreviews ==
    ASSUME RemovalInv, PreviewInv, Resolve \/ Collide
    PROVE  PreviewInv'
<1>1. Kept /\ removal \in Removals
    BY AskingKeeps DEF RemovalInv, AtWork
<1>2. UNCHANGED <<connection, labels, far, rival>> /\ \A x \in Objects : Present(x)' <=> Present(x)
    BY <1>1, KeptIs DEF Kept, local
<1>3. /\ removal.pc \in Asked /\ removal.refused = {} /\ removal.collides = FALSE /\ ~removal.found
      /\ UNCHANGED forecast
    BY <1>1 DEF Resolve, Collide, history, PreviewInv, Asking, RemovalInv, AtWork, Asked, Removals
<1>4. /\ removal'.pc \in {"registration", "collide"} /\ removal'.refused = {} /\ ~removal'.found
      /\ removal'.pc = "registration" => (removal'.collides <=> Colliding)
      /\ removal'.pc = "collide" => ~removal'.collides /\ connection = "valid" /\ far # "skipped"
    <2>1. CASE Resolve
        <3>1. PICK misnamed \in BOOLEAN :
                  removal' = [removal EXCEPT !.fallback = (connection # "valid"), !.misnamed = misnamed,
                                  !.pc = IF far = "skipped" \/ connection # "valid" THEN "registration"
                                         ELSE "collide"]
            BY <2>1 DEF Resolve
        <3>2. /\ removal'.refused = removal.refused /\ removal'.found = removal.found
              /\ removal'.collides = removal.collides
              /\ removal'.pc = IF far = "skipped" \/ connection # "valid" THEN "registration"
                               ELSE "collide"
            BY <1>1, <3>1 DEF Removals
        <3>3. QED
            BY <1>3, <3>2 DEF Colliding
    <2>2. CASE Collide
        <3>1. removal' = [removal EXCEPT !.collides = Collision, !.pc = "registration"]
              /\ removal.pc = "collide"
            BY <2>2 DEF Collide
        <3>2. /\ removal'.refused = removal.refused /\ removal'.found = removal.found
              /\ removal'.collides = Collision /\ removal'.pc = "registration"
            BY <1>1, <3>1 DEF Removals
        <3>3. Collision <=> Colliding
            BY <3>1 DEF Collision, Colliding, PreviewInv, Asking
        <3>4. QED
            BY <1>3, <3>2, <3>3
    <2>3. QED
        BY <2>1, <2>2
<1>5. Asking' /\ Previews'
    BY <1>2, <1>4, SameWorld DEF Asking, Previews
<1>6. Foretold'
    BY <1>2, <1>3, <1>4, StandsOnward DEF PreviewInv, Foretold, Asked
<1>7. QED
    BY <1>5, <1>6 DEF PreviewInv

LEMMA InspectPreviews ==
    ASSUME RemovalInv, PreviewInv, NEW x \in {"registration", "credential"}, Inspect(x)
    PROVE  PreviewInv'
<1>1. Kept /\ removal \in Removals /\ RemovalInv'
    BY AskingKeeps DEF RemovalInv, AtWork
<1>2. UNCHANGED <<connection, labels, far, rival>> /\ \A y \in Objects : Present(y)' <=> Present(y)
    BY <1>1, KeptIs DEF Kept, local
<1>3. /\ removal.pc = x /\ removal.pc \in Asked /\ UNCHANGED forecast
      /\ removal.step = 1 /\ removal.failed = {} /\ ~removal.found
    BY DEF Inspect, history, Asked, RemovalInv, AtWork
<1>4. PICK refuse \in BOOLEAN :
          /\ removal' = Inspected(x, refuse) \/ removal' = Unquiet(Inspected(x, refuse))
          /\ removal'.quiet => (refuse = TRUE <=> Addressed(x) /\ x \in unmanaged \cup theirs)
    <2> DEFINE guard == Addressed(x) /\ x \in unmanaged \cup theirs
    <2>1. CASE removal' = Inspected(x, guard) /\ guard
        <3>1. Inspected(x, guard) = Inspected(x, TRUE)
            BY <2>1 DEF Inspected
        <3>2. QED
            BY <2>1, <3>1
    <2>2. CASE removal' = Inspected(x, guard) /\ ~guard
        <3>1. Inspected(x, guard) = Inspected(x, FALSE)
            BY <2>2 DEF Inspected
        <3>2. QED
            BY <2>2, <3>1
    <2>3. CASE removal' = Unquiet(Inspected(x, TRUE))
        <3>1. Inspected(x, TRUE) \in Removals
            <4>1. removal.refused \cup {x} \subseteq {"registration", "credential"}
                BY <1>1 DEF Removals
            <4>2. QED
                BY <1>1, <4>1 DEF Inspected, Removals
        <3>2. ~removal'.quiet
            BY <2>3, <3>1 DEF Unquiet, Removals
        <3>3. QED
            BY <2>3, <3>2
    <2>4. QED
        BY <2>1, <2>2, <2>3 DEF Inspect
<1> DEFINE refused == IF refuse THEN removal.refused \cup {x} ELSE removal.refused
           to == IF x = "registration" THEN "credential" ELSE "teardown"
<1>5. /\ removal'.pc = to /\ removal'.refused = refused /\ removal'.step = 1 /\ removal'.failed = {}
      /\ ~removal'.found /\ removal'.collides = removal.collides /\ removal'.misnamed = removal.misnamed
      /\ removal'.dry = removal.dry
      /\ removal'.quiet => removal.quiet
    <2>1. PICK r : r = [removal EXCEPT !.refused = refused, !.pc = to]
        OBVIOUS
    <2>2. removal' = r \/ removal' = [r EXCEPT !.quiet = FALSE]
        BY <1>4, <2>1 DEF Inspected, Unquiet
    <2> HIDE DEF refused, to
    <2>3. /\ r.pc = to /\ r.refused = refused /\ r.step = 1 /\ r.failed = {}
          /\ ~r.found /\ r.collides = removal.collides /\ r.misnamed = removal.misnamed
          /\ r.dry = removal.dry /\ r.quiet = removal.quiet /\ DOMAIN r = DOMAIN removal
        BY <1>1, <1>3, <2>1 DEF Removals
    <2>4. QED
        BY <1>1, <2>2, <2>3 DEF Removals
<1>6. /\ removal.collides <=> Colliding
      /\ removal'.quiet => refused = Refusable(removal.misnamed) \cap (IF x = "registration"
                                        THEN {x} ELSE {"registration", "credential"})
    <2>1. removal.collides <=> Colliding
        BY <1>3 DEF PreviewInv, Asking
    <2>2. ASSUME removal'.quiet
          PROVE  refused = Refusable(removal.misnamed) \cap (IF x = "registration"
                                        THEN {x} ELSE {"registration", "credential"})
        <3>1. removal.quiet /\ (refuse = TRUE <=> x \in Refusable(removal.misnamed))
            <4>1. x \in Refusable(removal.misnamed) <=> Addressed(x) /\ x \in unmanaged \cup theirs
                BY DEF Refusable, Under, Addressed
            <4>2. QED
                BY <1>4, <1>5, <2>2, <4>1
        <3>2. CASE x = "registration"
            BY <1>3, <3>1, <3>2 DEF PreviewInv, Asking
        <3>3. CASE x = "credential"
            <4>1. removal.refused = Refusable(removal.misnamed) \cap {"registration"}
                BY <1>3, <3>1, <3>3 DEF PreviewInv, Asking
            <4>2. QED
                BY <3>1, <3>3, <4>1 DEF Refusable
        <3>4. QED
            BY <3>2, <3>3
    <2>3. QED
        BY <2>1, <2>2
<1>7. Refusable(removal.misnamed) \subseteq {"registration", "credential"}
    BY DEF Refusable
<1> HIDE DEF refused
<1>8. Asking'
    BY <1>2, <1>3, <1>5, <1>6, SameWorld, StandsOnward DEF Asking
<1>9. removal'.quiet /\ removal'.pc = "teardown" => Promise(removal') = Said(removal'.misnamed)
    <2> SUFFICES ASSUME removal'.quiet, removal'.pc = "teardown"
                 PROVE  Promise(removal') = Said(removal'.misnamed)
        OBVIOUS
    <2>1. removal'.refused = Refusable(removal'.misnamed)
        BY <1>5, <1>6, <1>7
    <2>2. removal' \in Removals
        BY <1>1 DEF RemovalInv, AtWork
    <2>3. QED
        BY <1>5, <1>6, <2>1, <2>2, StartsAsSaid
<1>10. Previews'
    BY <1>2, <1>5, <1>9, StandsOnward DEF Previews
<1>11. Foretold'
    <2>1. forecast' # NoForecast => forecast'.said = Said(forecast'.misnamed)
        BY <1>3 DEF PreviewInv, Foretold, Asked
    <2>2. QED
        BY <1>2, <1>5, <1>9, <2>1, StandsOnward DEF Foretold
<1>12. QED
    BY <1>8, <1>10, <1>11 DEF PreviewInv

\* While something is left that is in the way, it is promised.
LEMMA StepKeepsPromise ==
    ASSUME NEW r \in Removals, r.pc = "teardown", Order[r.step] \notin PassedOver(r),
           NEW T, T = At(r.step), NEW b,
           \/ b = r /\ (r.step = 9 \/ ~Obstructed(T, r.misnamed))
           \/ b = [r EXCEPT !.failed = @ \cup {T}] /\ r.step # 9 /\ Obstructed(T, r.misnamed)
    PROVE  Promise(Onward(b)) = Promise(r)
<1>1. r.step \in 1..9 /\ T \in Objects
    BY OrderIs, AtIs DEF Removals
<1>2. /\ b \in Removals /\ b.pc = r.pc /\ b.step = r.step /\ b.misnamed = r.misnamed
      /\ b.collides = r.collides /\ b.refused = r.refused
      /\ \/ b.failed = r.failed /\ (r.step = 9 \/ ~Obstructed(T, r.misnamed))
         \/ b.failed = r.failed \cup {T} /\ r.step # 9 /\ Obstructed(T, r.misnamed)
    <2>1. CASE b = r /\ (r.step = 9 \/ ~Obstructed(T, r.misnamed))
        BY <2>1
    <2>2. CASE b = [r EXCEPT !.failed = @ \cup {T}] /\ r.step # 9 /\ Obstructed(T, r.misnamed)
        <3>1. PICK failed : failed = r.failed \cup {T}
            OBVIOUS
        <3>2. b = [r EXCEPT !.failed = failed] /\ failed \subseteq Objects
            BY <1>1, <2>2, <3>1 DEF Removals
        <3>3. /\ b \in Removals /\ b.pc = r.pc /\ b.step = r.step /\ b.misnamed = r.misnamed
              /\ b.collides = r.collides /\ b.refused = r.refused /\ b.failed = failed
            BY <3>2 DEF Removals
        <3>4. QED
            BY <2>2, <3>1, <3>3
    <2>3. QED
        BY <2>1, <2>2
<1>3. Ahead(b) = Ahead(r)
    BY <1>2 DEF Ahead
<1>4. Ahead(Onward(b)) = Ahead(r) \ {Order[r.step]}
    BY <1>2, <1>3, AheadShrinks
<1>5. /\ Onward(b).refused = r.refused /\ Onward(b).collides = r.collides
      /\ Onward(b).failed = b.failed
    BY <1>2, OnwardIs
<1>6. b.failed \cup (Ahead(r) \ {Order[r.step]}) = r.failed \cup Ahead(r)
    <2>1. CASE r.step = 9
        <3>1. Order[r.step] \notin Ahead(r)
            BY <2>1, OrderIs DEF Ahead, Left, Objects, Downstream
        <3>2. QED
            BY <1>2, <2>1, <3>1
    <2>2. CASE r.step # 9
        <3>1. Order[r.step] = T /\ r.step \in 1..8
            BY <1>1, <2>2, AtIs DEF At
        <3>2. T \in Ahead(r) <=> Obstructed(T, r.misnamed)
            BY <1>1, <3>1 DEF Ahead, Left, PassedOver, Skipped
        <3>3. QED
            BY <1>2, <2>2, <3>1, <3>2
    <2>3. QED
        BY <2>1, <2>2
<1>7. QED
    BY <1>4, <1>5, <1>6 DEF Promise

\* What a step of a teardown that keeps its promise leaves.
LEMMA KeepsPreviews ==
    ASSUME RemovalInv, PreviewInv, removal.pc = "teardown", removal'.pc \in {"teardown", "done"},
           removal'.dry = removal.dry, removal'.misnamed = removal.misnamed,
           removal'.collides = removal.collides,
           removal'.found => ~removal.dry /\ (Target' \in Downstream => far' = "answers"),
           removal.dry => /\ UNCHANGED <<connection, labels, far, rival>>
                          /\ \A x \in Objects : Present(x)' <=> Present(x),
           removal'.quiet => removal.quiet /\ Promise(removal)' = Promise(removal),
           \/ UNCHANGED forecast
           \/ removal.dry /\ removal'.quiet /\ removal'.pc = "done"
              /\ forecast'.misnamed = removal'.misnamed /\ forecast'.said = Promise(removal)'
    PROVE  PreviewInv'
<1>1. removal.dry => (Colliding' <=> Colliding)
    BY SameWorld
<1>2. Asking'
    BY <1>1 DEF PreviewInv, Asking
<1>3. removal.dry /\ removal'.quiet => Promise(removal)' = Said(removal.misnamed)'
    <2> SUFFICES ASSUME removal.dry, removal'.quiet PROVE Promise(removal)' = Said(removal.misnamed)'
        OBVIOUS
    <2>1. Said(removal.misnamed)' = Said(removal.misnamed)
        BY StandsOnward, SameWorld
    <2>2. QED
        BY <2>1 DEF PreviewInv, Previews
<1>4. Previews'
    BY <1>3 DEF Previews
<1>5. Foretold'
    <2>1. CASE removal.dry
        <3>1. UNCHANGED forecast => Said(forecast.misnamed)' = Said(forecast.misnamed)
            BY <2>1, StandsOnward, SameWorld
        <3>2. CASE UNCHANGED forecast
            BY <2>1, <3>1, <3>2 DEF PreviewInv, Foretold, Asked
        <3>3. CASE /\ removal'.quiet /\ forecast'.misnamed = removal'.misnamed
                   /\ forecast'.said = Promise(removal)'
            <4>1. Said(forecast.misnamed)' = Said(removal.misnamed)'
                BY <2>1, <3>3, StandsOnward
            <4>2. QED
                BY <1>3, <2>1, <3>3, <4>1 DEF Foretold, Asked
        <3>4. QED
            BY <3>2, <3>3
    <2>2. CASE ~removal.dry
        BY <2>2 DEF PreviewInv, Foretold, Asked
    <2>3. QED
        BY <2>1, <2>2
<1>6. QED
    BY <1>2, <1>4, <1>5 DEF PreviewInv

LEMMA LookPreviews ==
    ASSUME RemovalInv, PreviewInv, Look
    PROVE  PreviewInv'
<1>1. Kept /\ removal \in Removals /\ RemovalInv' /\ removal' \in Removals
    BY LookKeeps DEF RemovalInv, AtWork
<1>2. UNCHANGED <<connection, labels, far, rival>> /\ \A y \in Objects : Present(y)' <=> Present(y)
    BY <1>1, KeptIs DEF Kept, local
<1>3. PICK T : T = Target
    OBVIOUS
<1>4. /\ removal.step \in 1..9 /\ T = At(removal.step) /\ T \in Objects
      /\ removal.pc = "teardown" /\ ~removal.found /\ Order[removal.step] \notin PassedOver(removal)
    BY <1>1, <1>3, AtIs, OrderIs DEF RemovalInv, AtWork, Removals, Target, At, Look
<1>5. Failing(T) = [removal EXCEPT !.failed = @ \cup {T}] /\ Failing(T) \in Removals
    BY <1>1, <1>4 DEF Failing, Removals
<1>6. T \in Downstream => removal.step # 9
    BY <1>4, OrderIs DEF At, Downstream
<1>7. \/ removal' = [removal EXCEPT !.found = TRUE] /\ ~removal.dry /\ (T \in Downstream => far = "answers")
      \/ \E b \in {removal, Failing(T)} : removal' = Unquiet(Onward(b))
      \/ removal' = Onward(removal) /\ (removal.step = 9 \/ ~Obstructed(T, removal.misnamed))
      \/ removal' = Onward(Failing(T)) /\ removal.step # 9 /\ Obstructed(T, removal.misnamed)
    <2>1. CASE removal' = Found(T) /\ (T \in Downstream => far = "answers")
        <3>1. Obstructed(T, removal.misnamed) <=> Addressed(T) /\ T \in unmanaged
            BY <2>1 DEF Obstructed, Under, Addressed
        <3>2. Order[removal.step] = "recheck" <=> removal.step = 9
            BY <1>4, AtIs
        <3>3. QED
            BY <2>1, <3>1, <3>2 DEF Found
    <2>2. CASE T \in Downstream /\ far # "answers" /\ removal' = Onward(Failing(T))
        BY <1>6, <2>2 DEF Obstructed
    <2>3. QED
        BY <1>3, <2>1, <2>2 DEF Look
<1>8. /\ Promise(removal)' = Promise(removal')
      /\ Target' \in Downstream => T \in Downstream \/ ~removal'.found
    <2>1. Promise(removal)' = Promise(removal')
        BY <1>2, StandsOnward
    <2>2. ASSUME removal' = [removal EXCEPT !.found = TRUE] PROVE Target' = T
        BY <1>1, <1>3, <2>2 DEF Target, Removals
    <2>3. ASSUME NEW b \in {removal, Failing(T)}, removal' \in {Onward(b), Unquiet(Onward(b))}
          PROVE  ~removal'.found
        <3>1. Onward(b) \in Removals /\ ~Onward(b).found
            BY <1>1, <1>5, OnwardIs
        <3>2. QED
            BY <2>3, <3>1 DEF Unquiet, Removals
    <2>4. QED
        BY <1>7, <2>1, <2>2, <2>3
<1>9. Promise(removal') = Promise(removal) \/ ~removal'.quiet
    <2>1. ASSUME removal' = [removal EXCEPT !.found = TRUE] PROVE Promise(removal') = Promise(removal)
        <3>1. /\ removal'.pc = removal.pc /\ removal'.step = removal.step /\ removal'.failed = removal.failed
              /\ removal'.misnamed = removal.misnamed /\ removal'.collides = removal.collides
              /\ removal'.refused = removal.refused
            BY <1>1, <2>1 DEF Removals
        <3>2. QED
            BY <3>1 DEF Promise, Ahead
    <2>2. ASSUME NEW b \in {removal, Failing(T)}, removal' = Unquiet(Onward(b)) PROVE ~removal'.quiet
        <3>1. Onward(b) \in Removals
            BY <1>1, <1>5, OnwardIs
        <3>2. QED
            BY <2>2, <3>1 DEF Unquiet, Removals
    <2>3. CASE removal' = Onward(removal) /\ (removal.step = 9 \/ ~Obstructed(T, removal.misnamed))
        BY <1>1, <1>4, <2>3, StepKeepsPromise
    <2>4. CASE removal' = Onward(Failing(T)) /\ removal.step # 9 /\ Obstructed(T, removal.misnamed)
        BY <1>1, <1>4, <1>5, <2>4, StepKeepsPromise
    <2>5. QED
        BY <1>7, <2>1, <2>2, <2>3, <2>4
<1>10. /\ removal'.pc \in {"teardown", "done"} /\ removal'.dry = removal.dry
       /\ removal'.misnamed = removal.misnamed /\ removal'.collides = removal.collides
       /\ removal'.found => ~removal.dry /\ (T \in Downstream => far = "answers")
       /\ removal'.quiet => removal.quiet
    <2>1. CASE /\ removal' = [removal EXCEPT !.found = TRUE] /\ ~removal.dry
               /\ T \in Downstream => far = "answers"
        BY <1>1, <1>4, <2>1 DEF Removals
    <2>2. ASSUME NEW b \in {removal, Failing(T)}, removal' \in {Onward(b), Unquiet(Onward(b))}
          PROVE  /\ removal'.pc \in {"teardown", "done"} /\ removal'.dry = removal.dry
                 /\ removal'.misnamed = removal.misnamed /\ removal'.collides = removal.collides
                 /\ ~removal'.found
                 /\ removal'.quiet => removal.quiet
        <3>1. /\ b \in Removals /\ b.pc = "teardown" /\ b.dry = removal.dry /\ b.quiet = removal.quiet
              /\ b.misnamed = removal.misnamed /\ b.collides = removal.collides
            BY <1>1, <1>4, <1>5 DEF Removals
        <3>2. PICK o : o = Onward(b)
            OBVIOUS
        <3>3. /\ o \in Removals /\ o.pc \in {"teardown", "done"}
              /\ o.dry = removal.dry /\ o.quiet = removal.quiet
              /\ o.misnamed = removal.misnamed /\ o.collides = removal.collides /\ o.found = FALSE
            BY <3>1, <3>2, OnwardIs, OnwardGoesOn
        <3>4. removal' = o \/ removal' = [o EXCEPT !.quiet = FALSE]
            BY <2>2, <3>2 DEF Unquiet
        <3>5. QED
            BY <3>3, <3>4 DEF Removals
    <2>3. QED
        BY <1>7, <2>1, <2>2
<1>11. \/ UNCHANGED forecast
       \/ removal.dry /\ removal'.quiet /\ removal'.pc = "done"
          /\ forecast'.misnamed = removal'.misnamed /\ forecast'.said = Promise(removal)'
    <2>1. \/ UNCHANGED forecast
          \/ /\ removal'.pc = "done" /\ removal'.dry /\ removal'.quiet
             /\ forecast' = [misnamed |-> removal.misnamed, said |-> Remaining(removal')]
        BY DEF Look
    <2>2. removal'.pc = "done" => Promise(removal') = Remaining(removal')
        BY DEF Promise, Ahead, Listed, Remaining
    <2>3. QED
        BY <1>8, <1>10, <2>1, <2>2
<1>12. QED
    BY <1>2, <1>4, <1>8, <1>9, <1>10, <1>11, KeepsPreviews

LEMMA DeletePreviews ==
    ASSUME RemovalInv, PreviewInv, Delete
    PROVE  PreviewInv'
<1>1. /\ removal \in Removals /\ removal.pc = "teardown" /\ removal.found /\ ~removal.dry
      /\ UNCHANGED <<far, rival, forecast>>
    BY DEF RemovalInv, AtWork, PreviewInv, Asking, Delete, history
<1>2. PICK T : T = Target
    OBVIOUS
<1>3. /\ T = At(removal.step) /\ T \in Objects /\ removal.step \in 1..9
      /\ Order[removal.step] \notin PassedOver(removal)
      /\ T \notin unmanaged /\ (T \in Downstream => far = "answers")
    BY <1>1, <1>2, AtIs, OrderIs DEF RemovalInv, AtWork, Removals, Target, At, PreviewInv, Asking
<1>4. Failing(T) \in Removals
    BY <1>1, <1>3 DEF Failing, Removals
<1>5. \/ Erase(T) /\ removal' = Onward(removal)
      \/ \E b \in {removal, Failing(T)} : removal' = Unquiet(Onward(b))
    BY <1>2 DEF Delete
<1>6. ASSUME NEW b \in {removal, Failing(T)}, removal' \in {Onward(b), Unquiet(Onward(b))}
      PROVE  /\ removal'.pc \in {"teardown", "done"} /\ removal'.dry = removal.dry
             /\ removal'.misnamed = removal.misnamed /\ removal'.collides = removal.collides
             /\ ~removal'.found
             /\ removal'.quiet => removal.quiet /\ removal' = Onward(b)
    <2>1. /\ b \in Removals /\ b.pc = "teardown" /\ b.dry = removal.dry /\ b.quiet = removal.quiet
          /\ b.misnamed = removal.misnamed /\ b.collides = removal.collides
        BY <1>1, <1>4 DEF Failing, Removals
    <2>2. PICK o : o = Onward(b)
        OBVIOUS
    <2>3. /\ o \in Removals /\ o.pc \in {"teardown", "done"} /\ o.dry = removal.dry /\ o.quiet = removal.quiet
          /\ o.misnamed = removal.misnamed /\ o.collides = removal.collides /\ o.found = FALSE
        BY <2>1, <2>2, OnwardIs, OnwardGoesOn
    <2>4. removal' = o \/ removal' = [o EXCEPT !.quiet = FALSE]
        BY <1>6, <2>2 DEF Unquiet
    <2>5. QED
        BY <2>2, <2>3, <2>4 DEF Removals
<1>7. /\ removal'.pc \in {"teardown", "done"} /\ removal'.dry = removal.dry
      /\ removal'.misnamed = removal.misnamed /\ removal'.collides = removal.collides
      /\ ~removal'.found
      /\ removal'.quiet => removal.quiet
    BY <1>5, <1>6
<1>8. ASSUME removal'.quiet PROVE Promise(removal)' = Promise(removal)
    <2>1. Erase(T) /\ removal' = Onward(removal)
        <3>1. ASSUME NEW b \in {removal, Failing(T)}, removal' = Unquiet(Onward(b)) PROVE FALSE
            <4>1. Onward(b) \in Removals
                BY <1>1, <1>4, OnwardIs
            <4>2. QED
                BY <1>8, <3>1, <4>1 DEF Unquiet, Removals
        <3>2. QED
            BY <1>5, <3>1
    <2>2. ~Obstructed(T, removal.misnamed)
        BY <1>3 DEF Obstructed
    <2>3. Promise(removal') = Promise(removal)
        BY <1>1, <1>3, <2>1, <2>2, StepKeepsPromise
    <2>4. /\ ~Present(T)' /\ \A x \in Objects \ {T} : Present(x)' <=> Present(x)
          /\ unmanaged' = unmanaged \ {T}
        BY <1>3, <2>1, ErasesOne
    <2>5. \A m : \A x \in Objects : (Obstructed(x, m))' <=> Obstructed(x, m)
        BY <1>1, <1>3, <2>4 DEF Obstructed, Under
    <2>6. Left(removal.refused, removal.misnamed, removal.collides)'
              = Left(removal'.refused, removal'.misnamed, removal'.collides)
        BY <1>1, <2>5 DEF Left, Skipped
    <2>7. Promise(removal)' = Promise(removal')
        BY <2>6 DEF Promise, Ahead, Listed
    <2>8. QED
        BY <2>3, <2>7
<1>9. QED
    BY <1>1, <1>7, <1>8, KeepsPreviews

\* A write of anybody else ends all promises; what passes read does not touch them.
LEMMA OthersPreview ==
    ASSUME Sound, RemovalInv, PreviewInv, PassReads \/ PassWrites \/ Poll \/ RivalPublishes \/ UNCHANGED vars
    PROVE  PreviewInv'
<1>1. CASE /\ UNCHANGED <<removal, forecast, connection, labels, far, rival>>
           /\ \A x \in Objects : Present(x)' <=> Present(x)
    <2>1. /\ Promise(removal)' = Promise(removal)
          /\ Said(removal.misnamed)' = Said(removal.misnamed)
          /\ Said(forecast.misnamed)' = Said(forecast.misnamed)
          /\ Refusable(removal.misnamed)' = Refusable(removal.misnamed)
          /\ Colliding' <=> Colliding
        BY <1>1, StandsOnward, SameWorld
    <2>2. Target' = Target
        BY <1>1 DEF Target
    <2>3. Asking'
        BY <1>1, <2>1, <2>2 DEF PreviewInv, Asking
    <2>4. Previews' /\ Foretold'
        BY <1>1, <2>1 DEF PreviewInv, Previews, Foretold
    <2>5. QED
        BY <2>3, <2>4 DEF PreviewInv
<1>2. CASE forecast' = NoForecast /\ removal' = Unquiet(removal) /\ UNCHANGED <<connection, far, rival>>
    <2>1. /\ removal'.pc = removal.pc /\ removal'.dry = removal.dry /\ removal'.refused = removal.refused
          /\ removal'.collides = removal.collides /\ removal'.found = removal.found
          /\ removal'.step = removal.step /\ ~removal'.quiet
        BY <1>2 DEF Unquiet, RemovalInv, AtWork, Removals
    <2>2. Target' = Target /\ (Colliding' <=> Colliding)
        BY <1>2, <2>1 DEF Target, Colliding
    <2>3. QED
        BY <1>2, <2>1, <2>2 DEF PreviewInv, Asking, Previews, Foretold
<1>3. CASE PassReads \/ Poll \/ UNCHANGED vars
    <2>1. Kept /\ UNCHANGED <<removal, forecast, connection>>
        <3>1. CASE PassReads
            BY <3>1, ReadsKeep DEF Kept, history, local
        <3>2. CASE Poll \/ UNCHANGED vars
            BY <3>2 DEF Poll, vars, Kept, local, history
        <3>3. QED
            BY <1>3, <3>1, <3>2
    <2>2. QED
        BY <1>1, <2>1, KeptIs DEF Kept
<1>4. CASE RivalPublishes
    BY <1>2, <1>4 DEF RivalPublishes, Written
<1>5. CASE PassWrites
    <2>1. UNCHANGED <<connection, identity, grants, rival, far>>
        BY <1>5 DEF PassWrites
    <2>2. CASE \E x : Written(x)
        BY <1>2, <2>1, <2>2 DEF Written
    <2>3. CASE /\ R!CreateAccount \/ R!CreateBinding
               /\ account' = account /\ binding' = binding
               /\ UNCHANGED <<removal, history>> /\ UNCHANGED labels
        <3>1. UNCHANGED <<stored, secret>>
            BY <2>3 DEF R!CreateAccount, R!CreateBinding
        <3>2. Kept
            BY <2>1, <2>3, <3>1 DEF Kept, local, downstream
        <3>3. QED
            BY <1>1, <2>1, <2>3, <3>2, KeptIs DEF history
    <2>4. QED
        BY <1>5, <2>2, <2>3 DEF PassWrites
<1>6. QED
    BY <1>3, <1>4, <1>5

\* A command run as it was previewed leaves what the preview said it would, at
\* whatever point of the teardown an object turns out to be in the way.
THEOREM PreviewsAreKept == Spec => []PreviewTold
<1>1. Sound /\ RemovalInv /\ PreviewInv /\ [Next]_vars => PreviewInv'
    BY StartPreviews, ResolvePreviews, InspectPreviews, LookPreviews, DeletePreviews, OthersPreview
       DEF Next, Command
<1>2. PreviewInv => PreviewTold
    BY DEF PreviewInv, Foretold, PreviewTold, Promise, Ahead, Listed, Remaining
<1>3. QED
    BY <1>1, <1>2, PreviewInit, Invariant, PTL DEF Spec

-----------------------------------------------------------------------------
(* Types.  The pass is Reconcile's, with what that module has proved of it;  *)
(* but objects go missing here for other reasons than there, so that what    *)
(* bounds the incarnations is the number of passes: each creates one account *)
(* at most, and has until then not created it.                               *)

RP == INSTANCE Reconcile_proofs WITH
          owner <- Owner, want <- 1, seen <- {}, events <- 0, restarts <- 0,
          Events <- {}, MaxWants <- 1, MaxEvents <- MaxPasses, MaxRestarts <- 0

LEMMA ReconcileApplies == RP!ReconcileAssumption
BY RemoveAssumption DEF RP!ReconcileAssumption

\* The two instances of Reconcile are one.
LEMMA SameTypes ==
    /\ RP!TypeOK <=> R!TypeOK
    /\ RP!Incarnations = 0..(2 + MaxPasses) /\ RP!NoSecret = R!NoSecret
    /\ RP!Tokens = R!Tokens /\ RP!NoStatus = R!NoStatus /\ RP!NoPass = R!NoPass
<1> USE DEF RP!Incarnations, R!Incarnations, RP!Tokens, R!Tokens, RP!NoToken, R!NoToken, RP!Foreign,
            R!Foreign, RP!Secret, R!Secret, RP!NoSecret, R!NoSecret, RP!Status, R!Status,
            RP!NoStatus, R!NoStatus, RP!Calls, R!Calls, RP!Pass, R!Pass, RP!NoPass, R!NoPass
<1>1. RP!TypeOK <=> R!TypeOK
    BY DEF RP!TypeOK, R!TypeOK
<1>2. QED
    BY <1>1

\* What a pass reads and mints here, it does in Reconcile ...
LEMMA SameReads ==
    /\ R!Begin => RP!Begin
    /\ R!Access => RP!Access
    /\ R!ReadCA => RP!ReadCA
    /\ R!SelfMint => RP!SelfMint
    /\ R!SelfVerify => RP!SelfVerify
    /\ R!GetAccount => RP!GetAccount
    /\ R!GetBinding => RP!GetBinding
    /\ R!Probe => RP!Probe
    /\ R!Verify => RP!Verify
    /\ R!CallFails => RP!CallFails
    /\ R!RenewalFails => RP!RenewalFails
    /\ R!Report => RP!Report
    /\ R!Mint => RP!Mint
<1> USE SameTypes DEF RP!cluster, R!cluster, RP!used, R!used, RP!Failed, R!Failed, RP!Unrenewed, R!Unrenewed,
            RP!Fault, R!Fault, RP!Works, R!Works, RP!NoToken, R!NoToken, RP!Calls, R!Calls
<1>1. R!Begin => RP!Begin
    BY DEF R!Begin, RP!Begin
<1>2. R!Access => RP!Access
    BY DEF R!Access, RP!Access
<1>3. R!ReadCA => RP!ReadCA
    BY DEF R!ReadCA, RP!ReadCA
<1>4. R!SelfMint => RP!SelfMint
    BY DEF R!SelfMint, RP!SelfMint
<1>5. R!SelfVerify => RP!SelfVerify
    BY DEF R!SelfVerify, RP!SelfVerify
<1>6. R!GetAccount => RP!GetAccount
    BY DEF R!GetAccount, RP!GetAccount
<1>7. R!GetBinding => RP!GetBinding
    BY DEF R!GetBinding, RP!GetBinding
<1>8. R!Probe => RP!Probe
    BY DEF R!Probe, RP!Probe, R!First, RP!First
<1>9. R!Verify => RP!Verify
    BY DEF R!Verify, RP!Verify, R!Live, RP!Live
<1>10. R!CallFails => RP!CallFails
    BY DEF R!CallFails, RP!CallFails
<1>11. R!RenewalFails => RP!RenewalFails
    BY DEF R!RenewalFails, RP!RenewalFails
<1>12. R!Report => RP!Report
    BY DEF R!Report, RP!Report, R!AgedMeanwhile, RP!AgedMeanwhile
<1>13. R!Mint => RP!Mint
    <2>1. RP!NewToken = R!NewToken
        BY DEF RP!NewToken, R!NewToken, RP!InUse, R!InUse, RP!Tokens, R!Tokens
    <2>2. QED
        BY <2>1 DEF R!Mint, RP!Mint
<1>14. QED
    BY <1>1, <1>2, <1>3, <1>4, <1>5, <1>6, <1>7, <1>8, <1>9, <1>10, <1>11, <1>12, <1>13

\* ... and what it writes.
LEMMA SameWrites ==
    /\ R!SelfStore => RP!SelfStore
    /\ R!CreateAccount <=> RP!CreateAccount
    /\ R!CreateBinding => RP!CreateBinding
    /\ R!Register => RP!Register
    /\ R!ApplyCredential => RP!ApplyCredential
    /\ R!Publish => RP!Publish
<1> USE SameTypes DEF RP!cluster, R!cluster, RP!used, R!used, RP!Failed, R!Failed, RP!Unrenewed, R!Unrenewed,
            RP!Fault, R!Fault, RP!Works, R!Works, RP!NoToken, R!NoToken, RP!Answer, R!Answer
<1>1. R!SelfStore => RP!SelfStore
    BY DEF R!SelfStore, RP!SelfStore
<1>2. R!CreateAccount <=> RP!CreateAccount
    BY DEF R!CreateAccount, RP!CreateAccount
<1>3. R!CreateBinding => RP!CreateBinding
    BY DEF R!CreateBinding, RP!CreateBinding
<1>4. R!Register => RP!Register
    BY DEF R!Register, RP!Register, R!Current, RP!Current
<1>5. R!ApplyCredential => RP!ApplyCredential
    BY DEF R!ApplyCredential, RP!ApplyCredential
<1>6. R!Publish => RP!Publish
    BY DEF R!Publish, RP!Publish, R!Recorded, RP!Recorded
<1>7. QED
    BY <1>1, <1>2, <1>3, <1>4, <1>5, <1>6

\* Until then, a pass may create an account.
MayCreate == {"access", "ca", "selfMint", "selfVerify", "selfStore", "getAccount", "createAccount"}
Spare == created + (IF pass.pc \in MayCreate THEN 1 ELSE 0) <= 2 + passes
PassInv == RP!TypeOK /\ RP!Carried /\ Spare /\ passes \in 0..MaxPasses

\* A command that is about to compare endpoints has read one.
Asks ==
    /\ removal.pc = "collide" \/ removal.collides => ~removal.fallback /\ far # "skipped"
    /\ removal.pc = "resolve" => ~removal.collides
Labels == (\A x \in unmanaged \cup theirs : x \in Objects /\ Present(x)) /\ unmanaged \cap theirs = {}
World ==
    /\ identity \in 0..2 /\ grants \subseteq OwnGrants
    /\ connection \in {"valid", "broken", "absent"} /\ listed \in BOOLEAN
    /\ rival \in {"none", "endpoint", "secret"} /\ far \in {"answers", "silent", "skipped"}
    /\ runs \in 0..MaxRuns /\ late \subseteq Objects

TypedInv == PassInv /\ Asks /\ Labels /\ World

\* What is left of the pass's part of the state when something is removed.
LEMMA RemovingKeeps ==
    ASSUME PassInv,
           UNCHANGED <<bound, pass, status, created>>, faults' \in 0..MaxFaults, passes' = passes,
           account' \in {account, 0}, Owner' \in {Owner, 0}, stored' \in {stored, 0},
           binding' \in {"ok", "absent", "other"}, secret' \in RP!Secret
    PROVE  PassInv'
<1>1. RP!TypeOK'
    BY RemoveAssumption DEF PassInv, RP!TypeOK, RP!Incarnations
<1>2. QED
    BY <1>1 DEF PassInv, RP!Carried, Spare

\* A cluster in service, or bootstrapped and not yet published, is well formed.
LEMMA InitTyped == Init => TypedInv
<1> SUFFICES ASSUME Init PROVE TypedInv
    OBVIOUS
<1> USE RemoveAssumption, SameTypes
<1>1. Owner = 2
    BY DEF Init, Owner
<1>2. RP!NoStatus \in RP!Status
    BY DEF RP!NoStatus, RP!Status, RP!NoToken
<1>3. RP!NoPass \in RP!Pass
    BY <1>2 DEF RP!NoPass, RP!Pass, RP!NoToken
<1>t. 1 \in RP!Tokens
    BY DEF RP!Tokens
<1>4. secret \in RP!Secret
    <2>1. /\ [credential |-> 1, labelled |-> TRUE, want |-> 1] \in RP!Secret
          /\ RP!NoSecret \in RP!Secret
        BY <1>t DEF RP!NoSecret, RP!Secret, RP!NoToken
    <2>2. QED
        BY <2>1 DEF Init
<1>5. status \in RP!Status
    <2>1. [credential |-> 1, want |-> 1, aged |-> FALSE, ready |-> "Ready"] \in RP!Status
        BY <1>t DEF RP!Status, RP!NoToken
    <2>2. QED
        BY <1>2, <2>1 DEF Init
<1>6. bound \in [RP!Tokens -> 0..(2 + MaxPasses)]
    BY DEF Init
<1>7. RP!TypeOK
    BY <1>1, <1>3, <1>4, <1>5, <1>6 DEF Init, RP!TypeOK
<1>8. pass.pc = "idle" /\ pass.token = 0
    BY DEF Init, RP!NoPass, RP!NoToken
<1>9. PassInv
    BY <1>7, <1>8 DEF PassInv, RP!Carried, Spare, MayCreate, Init, RP!NoToken
<1>10. Asks
    BY DEF Init, Asks, NoRemoval
<1>11. Labels
    BY DEF Init, Labels, Objects
<1>12. World
    BY DEF Init, World
<1>13. QED
    BY <1>9, <1>10, <1>11, <1>12 DEF TypedInv

\* A pass: what Reconcile has of it, given room for the account.
LEMMA PassTyped ==
    ASSUME PassInv, PassReads \/ PassWrites
    PROVE  PassInv'
<1> USE RemoveAssumption, SameTypes, ReconcileApplies
<1>1. PassInv /\ Owner' = Owner
    BY DEF PassReads, PassWrites, Owner
<1>2. RP!Step \/ RP!CallFails \/ RP!RenewalFails
    BY SameReads, SameWrites DEF PassReads, PassWrites, RP!Step
<1>3. RP!CreateAccount /\ account = 0 => created < 2 + MaxPasses
    BY DEF PassInv, Spare, RP!CreateAccount, MayCreate, RP!TypeOK
<1>4. RP!TypeOK' /\ RP!Carried'
    BY <1>1, <1>2, <1>3, RP!StepCarries DEF PassInv
<1>5. \/ R!Begin /\ passes' = passes + 1 /\ passes < MaxPasses
      \/ ~R!Begin /\ passes' = passes
    BY DEF PassReads, PassWrites, R!Begin, R!Access, R!ReadCA, R!SelfMint, R!SelfVerify, R!SelfStore,
           R!GetAccount, R!GetBinding, R!Probe, R!Verify, R!CallFails, R!RenewalFails, R!Report, R!Mint,
           R!CreateAccount, R!CreateBinding, R!Register, R!ApplyCredential, R!Publish, R!Calls
<1>p. pass \in RP!Pass /\ created \in Nat /\ passes \in Nat /\ MaxPasses \in Nat
    BY DEF PassInv, RP!TypeOK
<1>6. Spare'
    <2>1. CASE R!Begin
        <3>1. created' = created /\ pass.pc = "idle"
            BY <2>1 DEF R!Begin, R!cluster
        <3>2. QED
            BY <1>5, <1>p, <2>1, <3>1 DEF PassInv, Spare, MayCreate
    <2>2. CASE R!CreateAccount
        <3>1. /\ created' \in {created, created + 1} /\ pass.pc = "createAccount"
              /\ pass'.pc \in {"getBinding", "report"}
            BY <1>p, <2>2 DEF R!CreateAccount, R!Answer, R!Failed, RP!Pass
        <3>2. QED
            BY <1>5, <1>p, <2>2, <3>1 DEF PassInv, Spare, MayCreate, R!Begin
    <2>3. CASE ~R!Begin /\ ~R!CreateAccount
        <3>1. created' = created
            BY <2>3 DEF PassReads, PassWrites, R!Access, R!ReadCA, R!SelfMint, R!SelfVerify, R!SelfStore,
               R!GetAccount, R!GetBinding, R!Probe, R!Verify, R!CallFails, R!RenewalFails, R!Report,
               R!Mint, R!CreateBinding, R!Register, R!ApplyCredential, R!Publish, R!cluster
        <3>2. pass'.pc \in MayCreate => pass.pc \in MayCreate
            <4>1. CASE R!Access \/ R!ReadCA \/ R!SelfMint \/ R!SelfVerify \/ R!SelfStore \/ R!RenewalFails
                BY <4>1 DEF R!Access, R!ReadCA, R!SelfMint, R!SelfVerify, R!SelfStore, R!RenewalFails,
                            MayCreate
            <4>2. CASE R!GetAccount \/ R!GetBinding \/ R!Probe \/ R!Verify
                BY <1>p, <4>2 DEF R!GetAccount, R!GetBinding, R!Probe, R!Verify, R!Failed, RP!Pass, MayCreate
            <4>3. CASE R!CallFails \/ R!Report \/ R!Mint
                <5>1. \/ pass' = R!Failed \/ pass' = R!NoPass
                      \/ pass' = [pass EXCEPT !.pc = "verify", !.token = R!NewToken]
                    BY <4>3 DEF R!CallFails, R!Report, R!Mint
                <5>2. R!Failed.pc = "report" /\ R!NoPass.pc = "idle"
                    BY <1>p DEF R!Failed, R!NoPass, RP!Pass
                <5>3. QED
                    BY <1>p, <5>1, <5>2 DEF RP!Pass, MayCreate
            <4>4. CASE R!CreateBinding \/ R!Register \/ R!ApplyCredential \/ R!Publish
                BY <1>p, <4>4 DEF R!CreateBinding, R!Register, R!ApplyCredential, R!Publish, R!Answer,
                                  R!Failed, RP!Pass, MayCreate
            <4>5. QED
                BY <2>3, <4>1, <4>2, <4>3, <4>4 DEF PassReads, PassWrites
        <3>3. QED
            BY <1>5, <1>p, <2>3, <3>1, <3>2 DEF PassInv, Spare
    <2>4. QED
        BY <2>1, <2>2, <2>3
<1>8. passes' \in 0..MaxPasses
    BY <1>5, <1>p DEF PassInv
<1>7. QED
    BY <1>4, <1>6, <1>8 DEF PassInv

\* What the command keeps of its own part before it deletes anything ...
LEMMA AskingTyped ==
    ASSUME RemovalInv, TypedInv,
           Start \/ Killed \/ Resolve \/ Collide \/ Inspect("registration") \/ Inspect("credential")
    PROVE  Asks' /\ runs' \in 0..MaxRuns /\ late' \subseteq Objects /\ faults' \in 0..MaxFaults
<1>r. removal \in Removals
    BY DEF RemovalInv, AtWork
<1>1. runs' \in 0..MaxRuns /\ late' \subseteq Objects /\ far' = far
    <2>1. UNCHANGED <<late, far>> /\ (runs' = runs \/ (runs' = runs + 1 /\ runs < MaxRuns))
        <3>1. CASE Start
            BY <3>1 DEF Start
        <3>2. CASE Killed \/ Resolve \/ Collide
            BY <3>2 DEF Killed, Resolve, Collide, history
        <3>3. CASE Inspect("registration") \/ Inspect("credential")
            BY <3>3 DEF Inspect, history
        <3>4. QED
            BY <3>1, <3>2, <3>3
    <2>2. runs \in 0..MaxRuns /\ late \subseteq Objects
        BY DEF TypedInv, World
    <2>3. QED
        BY <2>1, <2>2, RemoveAssumption
<1>2. faults' \in 0..MaxFaults
    <2>1. faults' = faults \/ R!Fault
        BY DEF Start, Killed, Resolve, Collide, Inspect
    <2>2. QED
        BY <2>1, RemoveAssumption DEF R!Fault, TypedInv, PassInv, RP!TypeOK
<1>3. CASE Start \/ Killed
    <2>1. \E dry \in BOOLEAN : removal' \in {NoRemoval, [NoRemoval EXCEPT !.pc = "resolve", !.dry = dry]}
        BY <1>3 DEF Start, Killed
    <2>2. removal'.pc \in {"idle", "resolve"} /\ removal'.collides = FALSE
        <3>1. NoRemoval.pc = "idle" /\ NoRemoval.collides = FALSE
            BY DEF NoRemoval
        <3>2. NoRemoval \in Removals
            BY OrderIs DEF NoRemoval, Removals
        <3>3. QED
            BY <2>1, <3>1, <3>2 DEF Removals
    <2>3. QED
        BY <1>1, <1>2, <2>2 DEF Asks
<1>4. CASE Resolve
    <2> DEFINE fallback == connection # "valid"
               to == IF far = "skipped" \/ fallback THEN "registration" ELSE "collide"
    <2>1. PICK misnamed : removal' = [removal EXCEPT !.fallback = fallback, !.misnamed = misnamed, !.pc = to]
        BY <1>4 DEF Resolve
    <2>2. to \in {"registration", "collide"} /\ (to = "collide" => ~fallback /\ far # "skipped")
        OBVIOUS
    <2> HIDE DEF fallback, to
    <2>3. removal'.pc = to /\ removal'.fallback = fallback /\ removal'.collides = removal.collides
        BY <1>r, <2>1 DEF Removals
    <2>4. ~removal.collides
        BY <1>4 DEF Resolve, TypedInv, Asks
    <2>5. QED
        BY <1>1, <1>2, <2>2, <2>3, <2>4 DEF Asks
<1>5. CASE Collide
    <2>1. removal'.pc = "registration" /\ removal'.fallback = removal.fallback /\ removal.pc = "collide"
        BY <1>r, <1>5 DEF Collide, Removals
    <2>2. QED
        BY <1>1, <1>2, <2>1 DEF TypedInv, Asks
<1>6. ASSUME NEW x \in {"registration", "credential"}, Inspect(x)
      PROVE  Asks' /\ runs' \in 0..MaxRuns /\ late' \subseteq Objects /\ faults' \in 0..MaxFaults
    <2>1. PICK refuse : removal' \in {Inspected(x, refuse), Unquiet(Inspected(x, refuse))}
        BY <1>6 DEF Inspect
    <2> DEFINE next == Inspected(x, refuse)
    <2>2. next.pc \in {"credential", "teardown"} /\ next.collides = removal.collides
          /\ next.fallback = removal.fallback /\ removal' \in {next, [next EXCEPT !.quiet = FALSE]}
          /\ DOMAIN next = DOMAIN removal
        BY <1>r, <2>1 DEF Inspected, Removals, Unquiet
    <2> HIDE DEF next
    <2>3. removal'.pc \in {"credential", "teardown"} /\ removal'.collides = removal.collides
          /\ removal'.fallback = removal.fallback
        BY <1>r, <2>2 DEF Removals
    <2>4. QED
        BY <1>1, <1>2, <2>3 DEF TypedInv, Asks
<1>7. QED
    BY <1>3, <1>4, <1>5, <1>6

\* ... and while it deletes.
LEMMA TearingTyped ==
    ASSUME RemovalInv, TypedInv, Look \/ Delete
    PROVE  Asks' /\ runs' \in 0..MaxRuns /\ late' \subseteq Objects /\ faults' \in 0..MaxFaults
<1>1. PICK T : T = Target
    OBVIOUS
<1>2. /\ removal \in Removals /\ T \in Objects /\ removal.pc = "teardown"
    BY <1>1, AtIs, OrderIs DEF RemovalInv, AtWork, Removals, Target, At, Look, Delete
<1>3. runs' \in 0..MaxRuns /\ late' \subseteq Objects /\ far' = far
    BY RemoveAssumption DEF TypedInv, World, Look, Delete, history
<1>4. faults' \in 0..MaxFaults
    <2>1. faults' = faults \/ R!Fault
        BY DEF Look, Delete
    <2>2. QED
        BY <2>1, RemoveAssumption DEF R!Fault, TypedInv, PassInv, RP!TypeOK
<1>5. Failing(T) \in Removals /\ Failing(T).pc = removal.pc /\ Failing(T).collides = removal.collides
      /\ Failing(T).fallback = removal.fallback
    BY <1>2 DEF Failing, Removals
<1>6. \/ removal' = [removal EXCEPT !.found = TRUE]
      \/ \E r \in {removal, Failing(T)} : removal' \in {Onward(r), Unquiet(Onward(r))}
    BY <1>1 DEF Look, Delete, Found
<1>7. removal'.pc # "collide" /\ removal'.pc # "resolve" /\ removal'.collides = removal.collides
      /\ removal'.fallback = removal.fallback
    <2>1. CASE removal' = [removal EXCEPT !.found = TRUE]
        BY <1>2, <2>1 DEF Removals
    <2>2. ASSUME NEW r \in {removal, Failing(T)}, removal' \in {Onward(r), Unquiet(Onward(r))}
          PROVE  removal'.pc # "collide" /\ removal'.pc # "resolve" /\ removal'.collides = removal.collides
                 /\ removal'.fallback = removal.fallback
        <3>1. r \in Removals /\ r.pc = "teardown" /\ r.collides = removal.collides
              /\ r.fallback = removal.fallback
            BY <1>2, <1>5, <2>2
        <3> DEFINE next == Onward(r)
        <3>2. next \in Removals /\ next.pc \in {"teardown", "done"} /\ next.collides = r.collides
              /\ next.fallback = r.fallback
            BY <3>1, OnwardIs
        <3>3. removal' \in {next, [next EXCEPT !.quiet = FALSE]}
            BY <2>2 DEF Unquiet
        <3> HIDE DEF next
        <3>4. QED
            BY <3>1, <3>2, <3>3 DEF Removals
    <2>3. QED
        BY <1>6, <2>1, <2>2
<1>8. QED
    BY <1>3, <1>4, <1>7 DEF TypedInv, Asks

\* A command leaves alone what is not there to be removed, or removes it.
LEMMA CommandTyped ==
    ASSUME RemovalInv, TypedInv, Command
    PROVE  TypedInv'
<1>1. Asks' /\ runs' \in 0..MaxRuns /\ late' \subseteq Objects /\ faults' \in 0..MaxFaults
    BY AskingTyped, TearingTyped DEF Command
<1>2. UNCHANGED <<created, bound, status, pass, listed, rival, far, passes>>
    BY DEF Command, Start, Killed, Resolve, Collide, Inspect, Look, Delete
<1>3. UNCHANGED <<local, downstream, labels>> \/ \E T \in Objects : Erase(T)
    <2>1. CASE Delete
        <3>1. Target \in Objects
            BY <2>1, AtIs, OrderIs DEF RemovalInv, AtWork, Removals, Target, At, Delete
        <3>2. QED
            BY <2>1, <3>1 DEF Delete
    <2>2. QED
        BY <2>1 DEF Command, Start, Killed, Resolve, Collide, Inspect, Look
<1>4. /\ connection' \in {connection, "absent"} /\ secret' \in {secret, R!NoSecret}
      /\ stored' \in {stored, 0} /\ binding' \in {binding, "absent"} /\ account' \in {account, 0}
      /\ identity' \in {identity, 0} /\ grants' \subseteq grants
    BY <1>3 DEF Erase, local, downstream
<1>5. Labels'
    <2>1. CASE UNCHANGED <<local, downstream, labels>>
        BY <2>1, PresentIs, PresentNext DEF TypedInv, Labels, local, downstream, labels, Objects, Downstream
    <2>2. ASSUME NEW T \in Objects, Erase(T) PROVE Labels'
        BY <2>2, ErasesOne DEF TypedInv, Labels, Erase
    <2>3. QED
        BY <1>3, <2>1, <2>2
<1>6. World'
    BY <1>1, <1>2, <1>4 DEF TypedInv, World
<1>7. Owner' \in {Owner, 0}
    <2>1. grants' = OwnGrants => grants = OwnGrants
        BY <1>4 DEF TypedInv, World
    <2>2. QED
        BY <1>4, <2>1 DEF Owner
<1>8. secret' \in RP!Secret
    <2>1. RP!NoSecret \in RP!Secret /\ RP!NoSecret = R!NoSecret
        <3>1. RP!NoSecret \in RP!Secret
            BY DEF RP!NoSecret, RP!Secret, RP!NoToken
        <3>2. QED
            BY <3>1, SameTypes
    <2>2. QED
        BY <1>4, <2>1 DEF TypedInv, PassInv, RP!TypeOK
<1>9. binding' \in {"ok", "absent", "other"}
    BY <1>4 DEF TypedInv, PassInv, RP!TypeOK
<1>10. PassInv'
    BY <1>1, <1>2, <1>4, <1>7, <1>8, <1>9, RemovingKeeps DEF TypedInv
<1>11. QED
    BY <1>1, <1>5, <1>6, <1>10 DEF TypedInv

\* So with what others do.
LEMMA OthersTyped ==
    ASSUME Sound, RemovalInv, TypedInv, Poll \/ RivalPublishes \/ PassReads \/ PassWrites \/ UNCHANGED vars
    PROVE  TypedInv'
<1>r. removal \in Removals
    BY DEF RemovalInv, AtWork
<1>1. removal' \in {removal, Unquiet(removal)} /\ far' = far
    BY PassesWrite, RivalWrites, ReadsKeep DEF Writes, Poll, vars
<1>2. Asks'
    <2>1. removal'.pc = removal.pc /\ removal'.collides = removal.collides
          /\ removal'.fallback = removal.fallback
        BY <1>r, <1>1 DEF Unquiet, Removals
    <2>2. QED
        BY <1>1, <2>1 DEF TypedInv, Asks
<1>3. /\ UNCHANGED <<connection, identity, grants, rival, far, runs>>
      /\ late' \subseteq late \cup Objects /\ listed' \in {listed, connection = "valid"}
    BY DEF Poll, RivalPublishes, PassReads, PassWrites, Written, vars, local, downstream, history,
           Objects, Downstream
<1>4. World'
    <2>1. listed' \in BOOLEAN
        BY Zenon, <1>3 DEF TypedInv, World
    <2>2. QED
        BY <1>3, <2>1 DEF TypedInv, World
<1>5. PassInv'
    <2>1. CASE Poll \/ UNCHANGED vars
        <3>1. UNCHANGED <<local, downstream, created, bound, status, pass, faults, passes>>
            BY <2>1 DEF Poll, vars
        <3>2. QED
            BY <3>1, RemovingKeeps DEF TypedInv, PassInv, RP!TypeOK, local, downstream, Owner
    <2>2. CASE RivalPublishes
        <3>1. /\ UNCHANGED <<stored, downstream, created, bound, status, pass, faults, passes>>
              /\ secret' = [credential |-> R!Foreign, labelled |-> TRUE, want |-> 1]
            BY <2>2 DEF RivalPublishes
        <3>2. secret' \in RP!Secret
            BY <3>1 DEF RP!Secret, RP!Foreign, R!Foreign
        <3>3. QED
            BY <3>1, <3>2, RemovingKeeps DEF TypedInv, PassInv, RP!TypeOK, downstream, Owner
    <2>3. QED
        BY <2>1, <2>2, PassTyped DEF TypedInv
<1>6. Labels'
    <2>1. CASE Poll \/ UNCHANGED vars \/ PassReads
        <3>1. UNCHANGED <<local, downstream, labels>>
            BY <2>1, ReadsKeep DEF Poll, vars
        <3>2. QED
            BY <3>1, PresentIs, PresentNext DEF TypedInv, Labels, local, downstream, labels, Objects,
                                                Downstream
    <2>2. CASE RivalPublishes \/ PassWrites
        <3>1. \A x \in Objects : Present(x) => Present(x)'
            BY <2>2, PassesWrite, RivalWrites DEF Writes
        <3>2. \/ unmanaged' \subseteq unmanaged /\ theirs' \subseteq theirs
              \/ /\ RivalPublishes /\ unmanaged' = unmanaged \ {"registration"}
                 /\ theirs' = theirs \cup {"registration"}
              \/ /\ R!ApplyCredential /\ ~Present("registration")
                 /\ unmanaged' = unmanaged \cup {"registration"} /\ theirs' = theirs
            BY <2>2, PresentIs DEF RivalPublishes, PassWrites, Marked, labels
        <3>3. CASE unmanaged' \subseteq unmanaged /\ theirs' \subseteq theirs
            BY <3>1, <3>3 DEF TypedInv, Labels
        <3>4. RivalPublishes \/ R!ApplyCredential => Present("registration")'
            <4>1. CASE RivalPublishes
                BY <4>1, PresentNext DEF RivalPublishes, R!NoSecret
            <4>2. CASE R!ApplyCredential
                <5>1. secret'.credential # 0
                    BY <4>2 DEF Sound, R!ApplyCredential
                <5>2. R!NoSecret.credential = 0
                    BY DEF R!NoSecret, R!NoToken
                <5>3. QED
                    BY <5>1, <5>2, PresentNext
            <4>3. QED
                BY <4>1, <4>2
        <3>5. "registration" \in Objects
            BY DEF Objects
        <3>6. QED
            BY <3>1, <3>2, <3>3, <3>4, <3>5 DEF TypedInv, Labels
    <2>3. QED
        BY <2>1, <2>2
<1>7. QED
    BY <1>2, <1>4, <1>5, <1>6 DEF TypedInv

\* Every reachable state is well formed, the pass that runs beside the command
\* included: only what exists has labels, one verdict for each, and endpoints
\* are compared only where one was read.
THEOREM RemoveTypeCorrect == Spec => []TypeOK
<1>1. TypedInv /\ Sound /\ RemovalInv /\ [Next]_vars => TypedInv'
    BY CommandTyped, OthersTyped DEF Next
<1>2. TypedInv /\ RemovalInv => TypeOK
    BY SameTypes DEF TypedInv, PassInv, Asks, Labels, World, RemovalInv, AtWork, TypeOK
<1>3. QED
    BY <1>1, <1>2, InitTyped, Invariant, PTL DEF Spec
=============================================================================
