------------------------- MODULE MCContractHistory --------------------------
(***************************************************************************)
(* A small contract: three participants with threshold 2, one candidate,   *)
(* domains added one or two at a time.  A new contract generates the keys  *)
(* of two domains, then of a third; one with keys reshares them, with      *)
(* another key generated in between.                                       *)
(***************************************************************************)
EXTENDS ContractHistory, TLC

CONSTANTS a, b, c, d, k1, k2

MCInitParameters ==
  [ids |-> a :> 0 @@ b :> 1 @@ c :> 2, next_id |-> 3, threshold |-> 2]

\* c leaves; with the smaller next_id its participant id becomes free again.
Leave == [ids |-> a :> 0 @@ b :> 1, next_id |-> 2, threshold |-> 2]

\* d joins a and b afterwards, under the id that c had.
Rejoin == [ids |-> a :> 0 @@ b :> 1 @@ d :> 2, next_id |-> 3, threshold |-> 2]

\* Too few of the participants a, b, c stay.
TakeOver == [ids |-> a :> 0 @@ d :> 3, next_id |-> 4, threshold |-> 2]

Domain(i, scheme, purpose) == [id |-> i, scheme |-> scheme, purpose |-> purpose]

\* One domain with a key already in use, as handed to init_running.
OneDomain ==
  [domains |-> [list |-> <<Domain(0, "Secp256k1", "Sign")>>, next_domain_id |-> 1],
   keyset  |-> [epoch_id |-> 0, keys |-> <<[domain_id |-> 0, key |-> k1, attempt |-> 0]>>]]

TwoDomains ==
  [domains |-> [list |-> <<Domain(0, "Secp256k1", "Sign"), Domain(2, "Bls12381", "CKD")>>,
                next_domain_id |-> 3],
   keyset  |-> [epoch_id |-> 0, keys |-> <<[domain_id |-> 0, key |-> k1, attempt |-> 1],
                                           [domain_id |-> 2, key |-> k2, attempt |-> 0]>>]]

TwoFirstDomains == <<Domain(0, "Ed25519", "Sign"), Domain(1, "Bls12381", "CKD")>>

NextDomain == <<Domain(2, "Secp256k1", "ForeignTx")>>

\* Resharing and key generation in turn.
MixedStates == {OneDomain, TwoDomains}
OneMoreDomain == <<Domain(1, "Ed25519", "Sign")>>
MixedBatches == {TwoFirstDomains, NextDomain, OneMoreDomain}
MixedProposals == {Leave, Rejoin, TakeOver}

VARIABLE fresh   \* whether the contract starts without keys

MCInit == HInit /\ fresh = (keyset.keys = <<>>)

MCNext ==
  /\ HNext
  /\ UNCHANGED fresh
  /\ fresh => parameters_votes' = NoVotes /\ UNCHANGED attestations
  /\ ~fresh => \A voter \in DOMAIN add_domains_votes' : add_domains_votes'[voter] = OneMoreDomain

MCSpec == MCInit /\ [][MCNext]_<<histvars, fresh>>
=============================================================================
