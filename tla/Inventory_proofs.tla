--------------------------- MODULE Inventory_proofs ---------------------------
(***************************************************************************)
(* What inventory.List promises holds of every inventory, of any size.      *)
(***************************************************************************)
EXTENDS Inventory, TLAPS

\* The entries of an inventory, decoded or judged.
Entry(E, S) == [endpoint : E \cup {""}, secret : S \cup {""}, cause : Causes \cup {Valid}]

LEMMA ValidIsNoCause == /\ Valid # "InvalidSpec" /\ Valid # "EndpointConflict"
                        /\ Valid # "SecretNameConflict"
BY DEF Valid

LEMMA DecodedIsEntry ==
    ASSUME NEW E, NEW S
    PROVE  /\ Decoded(E, S) \subseteq Entry(E, S)
           /\ \A entry \in Decoded(E, S) : entry.cause \in {Valid, "InvalidSpec"}
<1>1. \A endpoint \in E, secret \in S :
          /\ Resolved(endpoint, secret) \in Entry(E, S)
          /\ Resolved(endpoint, secret).cause = Valid
    BY DEF Resolved, Entry, Causes, Valid
<1>2. Unusable \in Entry(E, S) /\ Unusable.cause = "InvalidSpec"
    BY DEF Unusable, Entry, Causes, Valid
<1>3. QED
    BY <1>1, <1>2 DEF Decoded

\* Either pass, one entry at a time: it holds back those whose claim has a rival,
\* among the entries that are not held back before it.
LEMMA ClaimPass ==
    ASSUME NEW D, NEW E, NEW S, NEW entries \in [D -> Entry(E, S)],
           NEW claim \in {"endpoint", "secret"}, NEW cause \in Causes
    PROVE  /\ BlockContested(entries, cause, claim) \in [D -> Entry(E, S)]
           /\ \A c \in D : LET judged == BlockContested(entries, cause, claim)[c] IN
                  /\ judged.endpoint = entries[c].endpoint /\ judged.secret = entries[c].secret
                  /\ judged.cause =
                         IF entries[c].cause = Valid /\ Rivals(entries, c, claim) # {}
                         THEN cause ELSE entries[c].cause
<1>1. \A c \in D : Contested(entries, claim, c) <=>
                       entries[c].cause = Valid /\ Rivals(entries, c, claim) # {}
    BY DEF Contested, Claimants, Rivals
<1>2. BlockContested(entries, cause, claim) =
          [c \in D |-> IF Contested(entries, claim, c)
                       THEN [entries[c] EXCEPT !.cause = cause] ELSE entries[c]]
    BY DEF BlockContested
<1>3. ASSUME NEW c \in D
      PROVE  /\ [entries[c] EXCEPT !.cause = cause] \in Entry(E, S)
             /\ [entries[c] EXCEPT !.cause = cause].cause = cause
             /\ [entries[c] EXCEPT !.cause = cause].endpoint = entries[c].endpoint
             /\ [entries[c] EXCEPT !.cause = cause].secret = entries[c].secret
    <2>1. entries[c] \in Entry(E, S)
        OBVIOUS
    <2>2. QED
        BY <2>1 DEF Entry
<1>4. QED
    BY <1>1, <1>2, <1>3

LEMMA EndpointPass ==
    ASSUME NEW D, NEW E, NEW S, NEW entries \in [D -> Entry(E, S)]
    PROVE  /\ BlockContestedEndpoints(entries) \in [D -> Entry(E, S)]
           /\ \A c \in D : LET judged == BlockContestedEndpoints(entries)[c] IN
                  /\ judged.endpoint = entries[c].endpoint /\ judged.secret = entries[c].secret
                  /\ judged.cause =
                         IF entries[c].cause = Valid /\ Rivals(entries, c, "endpoint") # {}
                         THEN "EndpointConflict" ELSE entries[c].cause
<1>1. "EndpointConflict" \in Causes /\ "endpoint" \in {"endpoint", "secret"}
    BY DEF Causes
<1>2. BlockContestedEndpoints(entries) = BlockContested(entries, "EndpointConflict", "endpoint")
    BY DEF BlockContestedEndpoints
<1>3. QED
    BY <1>1, <1>2, ClaimPass

LEMMA SecretPass ==
    ASSUME NEW D, NEW E, NEW S, NEW entries \in [D -> Entry(E, S)]
    PROVE  /\ BlockContestedSecrets(entries) \in [D -> Entry(E, S)]
           /\ \A c \in D : LET judged == BlockContestedSecrets(entries)[c] IN
                  /\ judged.endpoint = entries[c].endpoint /\ judged.secret = entries[c].secret
                  /\ judged.cause =
                         IF entries[c].cause = Valid /\ Rivals(entries, c, "secret") # {}
                         THEN "SecretNameConflict" ELSE entries[c].cause
<1>1. "SecretNameConflict" \in Causes /\ "secret" \in {"endpoint", "secret"}
    BY DEF Causes
<1>2. BlockContestedSecrets(entries) = BlockContested(entries, "SecretNameConflict", "secret")
    BY DEF BlockContestedSecrets
<1>3. QED
    BY <1>1, <1>2, ClaimPass

\* What is left to be reconciled is what was decoded, untouched.
LEMMA ListedKeeps ==
    ASSUME NEW D, NEW E, NEW S, NEW decoded \in [D -> Decoded(E, S)]
    PROVE  /\ DOMAIN Listed(decoded) = D
           /\ \A c \in Reconcilable(Listed(decoded)) : Listed(decoded)[c].secret \in S
<1> DEFINE once == BlockContestedEndpoints(decoded)
           listed == BlockContestedSecrets(once)
<1>1. decoded \in [D -> Entry(E, S)]
    BY DecodedIsEntry
<1>2. /\ once \in [D -> Entry(E, S)]
      /\ \A c \in D : /\ once[c].secret = decoded[c].secret
                      /\ once[c].cause = Valid => decoded[c].cause = Valid
    BY <1>1, EndpointPass, ValidIsNoCause
<1> HIDE DEF once
<1>3. /\ listed \in [D -> Entry(E, S)]
      /\ \A c \in D : /\ listed[c].secret = once[c].secret
                      /\ listed[c].cause = Valid => once[c].cause = Valid
    BY <1>2, SecretPass, ValidIsNoCause
<1> HIDE DEF listed
<1>4. ASSUME NEW c \in D, decoded[c].cause = Valid
      PROVE  decoded[c].secret \in S
    <2>1. CASE decoded[c] = Unusable
        <3>1. Unusable.cause = "InvalidSpec"
            BY DEF Unusable
        <3>2. QED
            BY <1>4, <2>1, <3>1, ValidIsNoCause
    <2>2. CASE \E endpoint \in E, secret \in S : decoded[c] = Resolved(endpoint, secret)
        BY <2>2 DEF Resolved
    <2>3. QED
        BY <2>1, <2>2 DEF Decoded
<1>5. Listed(decoded) = listed
    BY DEF Listed, once, listed
<1>6. DOMAIN listed = D
    BY <1>3
<1>7. ASSUME NEW c \in D, listed[c].cause = Valid
      PROVE  listed[c].secret \in S
    BY <1>2, <1>3, <1>4, <1>7
<1>8. QED
    BY <1>5, <1>6, <1>7 DEF Reconcilable

\* Listing an inventory: no two connections that are left to be reconciled have
\* an endpoint or a Secret in common, and what is held back is rightly held.
THEOREM ListedRight ==
    ASSUME NEW D, NEW E, NEW S, NEW decoded \in [D -> Decoded(E, S)]
    PROVE  SoleClaims(Listed(decoded)) /\ RightlyHeld(decoded, Listed(decoded))
<1> DEFINE once == BlockContestedEndpoints(decoded)
           listed == BlockContestedSecrets(once)
<1>1. /\ decoded \in [D -> Entry(E, S)]
      /\ \A c \in D : decoded[c].cause \in {Valid, "InvalidSpec"}
    BY DecodedIsEntry
<1>2. /\ once \in [D -> Entry(E, S)]
      /\ \A c \in D :
             /\ once[c].endpoint = decoded[c].endpoint /\ once[c].secret = decoded[c].secret
             /\ once[c].cause = IF decoded[c].cause = Valid /\ Rivals(decoded, c, "endpoint") # {}
                                THEN "EndpointConflict" ELSE decoded[c].cause
    BY <1>1, EndpointPass
<1> HIDE DEF once
<1>3. /\ listed \in [D -> Entry(E, S)]
      /\ \A c \in D :
             /\ listed[c].endpoint = once[c].endpoint /\ listed[c].secret = once[c].secret
             /\ listed[c].cause = IF once[c].cause = Valid /\ Rivals(once, c, "secret") # {}
                                  THEN "SecretNameConflict" ELSE once[c].cause
    BY <1>2, SecretPass
<1> HIDE DEF listed
<1>4. SoleClaims(listed)
    <2> SUFFICES ASSUME NEW c \in D, NEW d \in D, c # d,
                        listed[c].cause = Valid, listed[d].cause = Valid
                 PROVE  listed[c].endpoint # listed[d].endpoint /\ listed[c].secret # listed[d].secret
        BY <1>3 DEF SoleClaims, Reconcilable
    <2>1. /\ once[c].cause = Valid /\ once[d].cause = Valid
          /\ Rivals(once, c, "secret") = {}
        BY <1>3, ValidIsNoCause
    <2>2. /\ decoded[d].cause = Valid
          /\ Rivals(decoded, c, "endpoint") = {}
        BY <1>2, <2>1, ValidIsNoCause
    <2>3. once[c].secret # once[d].secret
        BY <1>2, <2>1 DEF Rivals
    <2>4. decoded[c].endpoint # decoded[d].endpoint
        BY <1>1, <2>2 DEF Rivals
    <2>5. QED
        BY <1>2, <1>3, <2>3, <2>4
<1>5. RightlyHeld(decoded, listed)
    <2> SUFFICES ASSUME NEW c \in D
                 PROVE  /\ listed[c].cause = "InvalidSpec" <=> decoded[c].cause = "InvalidSpec"
                        /\ listed[c].cause = "EndpointConflict" <=>
                               decoded[c].cause = Valid /\ Rivals(decoded, c, "endpoint") # {}
                        /\ listed[c].cause = "SecretNameConflict" =>
                               \E d \in Rivals(decoded, c, "secret") :
                                   listed[d].cause = "SecretNameConflict"
        BY <1>1 DEF RightlyHeld
    <2>1. listed[c].cause = "InvalidSpec" <=> decoded[c].cause = "InvalidSpec"
        BY <1>1, <1>2, <1>3, ValidIsNoCause
    <2>2. listed[c].cause = "EndpointConflict" <=>
              decoded[c].cause = Valid /\ Rivals(decoded, c, "endpoint") # {}
        BY <1>1, <1>2, <1>3, ValidIsNoCause
    <2>3. ASSUME listed[c].cause = "SecretNameConflict"
          PROVE  \E d \in Rivals(decoded, c, "secret") : listed[d].cause = "SecretNameConflict"
        <3>1. once[c].cause = Valid /\ Rivals(once, c, "secret") # {}
            BY <1>1, <1>2, <1>3, <2>3, ValidIsNoCause
        <3>2. PICK d \in D \ {c} : once[d].cause = Valid /\ once[d].secret = once[c].secret
            BY <1>2, <3>1 DEF Rivals
        <3>3. c \in Rivals(once, d, "secret")
            BY <1>2, <3>1, <3>2 DEF Rivals
        <3>4. listed[d].cause = "SecretNameConflict"
            BY <1>3, <3>2, <3>3
        <3>5. decoded[d].cause = Valid /\ decoded[d].secret = decoded[c].secret
            BY <1>1, <1>2, <3>2, ValidIsNoCause
        <3>6. d \in Rivals(decoded, c, "secret")
            BY <1>1, <3>5 DEF Rivals
        <3>7. QED
            BY <3>4, <3>6
    <2>4. QED
        BY <2>1, <2>2, <2>3
<1>6. Listed(decoded) = listed
    BY DEF Listed, once, listed
<1>7. QED
    BY <1>4, <1>5, <1>6
=============================================================================
