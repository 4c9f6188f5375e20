------------------------------ MODULE Inventory ------------------------------
(***************************************************************************)
(* What inventory.List makes of the ClusterConnections there are: which are *)
(* held back, and for what.  An inventory is a function from the names of   *)
(* the connections to what decode reads of each; no order is in it, for the  *)
(* order of a List is to make no difference.                                *)
(***************************************************************************)

\* What an entry claims, and why it is held back: "" where it is not.
Valid == ""
Causes == {"InvalidSpec", "EndpointConflict", "SecretNameConflict"}
Resolved(endpoint, secret) == [endpoint |-> endpoint, secret |-> secret, cause |-> Valid]
Unusable == [endpoint |-> "", secret |-> "", cause |-> "InvalidSpec"]
Decoded(Endpoints, Secrets) ==
    {Resolved(endpoint, secret) : endpoint \in Endpoints, secret \in Secrets} \cup {Unusable}

\* blockContested: of the entries that are not held back yet, those that claim
\* what another of them claims.  A claim is the field it is made in.
Claimants(entries, claim, value) ==
    {c \in DOMAIN entries : entries[c].cause = Valid /\ entries[c][claim] = value}
Contested(entries, claim, c) ==
    /\ entries[c].cause = Valid
    /\ \E d \in Claimants(entries, claim, entries[c][claim]) : d # c
BlockContested(entries, cause, claim) ==
    [c \in DOMAIN entries |->
        IF Contested(entries, claim, c) THEN [entries[c] EXCEPT !.cause = cause] ELSE entries[c]]

BlockContestedEndpoints(entries) == BlockContested(entries, "EndpointConflict", "endpoint")
BlockContestedSecrets(entries) == BlockContested(entries, "SecretNameConflict", "secret")

\* List; decoded is the inventory after decode.
ListedSecretsFirst(decoded) ==      \* mutant: the Secret before the endpoint
    BlockContestedEndpoints(BlockContestedSecrets(decoded))
Listed(decoded) == BlockContestedSecrets(BlockContestedEndpoints(decoded))

Reconcilable(listed) == {c \in DOMAIN listed : listed[c].cause = Valid}

-----------------------------------------------------------------------------
(* What is promised of it, said without reference to the two passes.        *)

\* No two connections are reconciled for one cluster or into one Secret.
SoleClaims(listed) ==
    \A c, d \in Reconcilable(listed) :
        c # d => listed[c].endpoint # listed[d].endpoint /\ listed[c].secret # listed[d].secret

\* Nothing that is fit to be reconciled is held back without a rival to name,
\* and the duplicate of a cluster is called that, whatever else it collides with.
Rivals(decoded, c, claim) ==
    {d \in DOMAIN decoded \ {c} : decoded[d].cause = Valid /\ decoded[d][claim] = decoded[c][claim]}
RightlyHeld(decoded, listed) ==
    \A c \in DOMAIN decoded :
        /\ listed[c].cause = "InvalidSpec" <=> decoded[c].cause = "InvalidSpec"
        /\ listed[c].cause = "EndpointConflict" <=>
               decoded[c].cause = Valid /\ Rivals(decoded, c, "endpoint") # {}
        /\ listed[c].cause = "SecretNameConflict" =>
               \E d \in Rivals(decoded, c, "secret") : listed[d].cause = "SecretNameConflict"
=============================================================================
