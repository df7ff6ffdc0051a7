------------------------------ MODULE KeyEvent ------------------------------
(***************************************************************************)
(* The value types of the MPC contract and the operations on them that do  *)
(* not touch the contract as a whole: threshold parameters with the        *)
(* validation of an incoming proposal, the domain registry, and the key    *)
(* event (one key generation or resharing, made of timed attempts).        *)
(*                                                                         *)
(* Block heights are kept relative: an attempt records how many more       *)
(* blocks it lives ("left"), which is expires_on - block_height.           *)
(***************************************************************************)
EXTENDS Integers, Sequences, FiniteSets

CONSTANTS
  Accounts,     \* NEAR accounts that may call the contract
  PublicKeys,   \* public keys a key generation may produce
  NoKey         \* Option::None for a public key

ASSUME NoKeyAssumption == NoKey \notin PublicKeys

(***************************************************************************)
(* Participants and thresholds.  A parameter record maps each participant  *)
(* account to its ParticipantId and carries the next free id.              *)
(***************************************************************************)
Members(p) == DOMAIN p.ids

IsThresholdParameters(p) ==
  /\ Members(p) \subseteq Accounts
  /\ p \in [ids : [Members(p) -> Nat], next_id : Nat, threshold : Nat]

Ids(p) == {p.ids[a] : a \in Members(p)}

Size(p) == Cardinality(Members(p))

MIN_THRESHOLD_ABSOLUTE == 2

\* At least 2, at most n, and at least 60% of n rounded upwards.
ValidateThreshold(n, k) ==
  /\ k <= n
  /\ k >= MIN_THRESHOLD_ABSOLUTE
  /\ k >= (3 * n + 4) \div 5

\* Participants::validate: ids are unique and all below next_id.
ValidateParticipants(p) ==
  /\ \A a, b \in Members(p) : p.ids[a] = p.ids[b] => a = b
  /\ \A i \in Ids(p) : i < p.next_id

Validate(p) == ValidateThreshold(Size(p), p.threshold) /\ ValidateParticipants(p)

\* A participant that stays keeps its id; the newcomers take exactly the ids
\* from the old next_id up to the new one; enough old participants stay.
ValidateIncomingProposal(old, p) ==
  LET stay == Members(p) \intersect Members(old)
      new  == Members(p) \ Members(old)
  IN /\ Validate(p)
     /\ \A a \in stay : p.ids[a] = old.ids[a]
     /\ \A a \in new : p.ids[a] \notin Ids(old)
     /\ Cardinality(stay) >= old.threshold
     /\ new # {} => {p.ids[a] : a \in new} = old.next_id .. (p.next_id - 1)

\* The participants of p that are in S, as TeeState keeps them: same ids,
\* same next_id, same threshold.
RestrictTo(p, S) == [p EXCEPT !.ids = [a \in Members(p) \intersect S |-> p.ids[a]]]

(***************************************************************************)
(* Domains.                                                                *)
(***************************************************************************)
Schemes == {"Secp256k1", "Ed25519", "Bls12381", "V2Secp256k1"}

Purposes == {"Sign", "ForeignTx", "CKD"}

DomainConfig == [id : Nat, scheme : Schemes, purpose : Purposes]

IsValidSchemeForPurpose(purpose, scheme) ==
  \/ purpose = "Sign" /\ scheme \in {"Secp256k1", "V2Secp256k1", "Ed25519"}
  \/ purpose = "ForeignTx" /\ scheme = "Secp256k1"
  \/ purpose = "CKD" /\ scheme = "Bls12381"

DomainRegistry == [list : Seq(DomainConfig), next_domain_id : Nat]

\* add_domains refuses a batch whose ids are not contiguous from next_domain_id.
CanAddDomains(registry, batch) ==
  \A i \in 1 .. Len(batch) : batch[i].id = registry.next_domain_id + i - 1

AddDomains(registry, batch) ==
  [list |-> registry.list \o batch, next_domain_id |-> registry.next_domain_id + Len(batch)]

\* Mutants of RetainDomains: nothing is deleted; the id counter is reset too.
RetainAllDomains(registry, n) == registry
RetainAndRewind(registry, n) == [list |-> SubSeq(registry.list, 1, n), next_domain_id |-> n]

RetainDomains(registry, n) == [registry EXCEPT !.list = SubSeq(@, 1, n)]

(***************************************************************************)
(* Key events.                                                             *)
(***************************************************************************)
KeyEventId == [epoch_id : Nat, domain_id : Nat, attempt_id : Nat]

KeyForDomain == [domain_id : Nat, key : PublicKeys, attempt : Nat]

NoInstance == [attempt_id |-> -1, left |-> 0, completed |-> {}, public_key |-> NoKey]

KeyEventInstance ==
  [attempt_id : Nat, left : Nat, completed : SUBSET Nat, public_key : PublicKeys \union {NoKey}]

IsKeyEvent(ke) ==
  /\ ke \in [epoch_id : Nat, domain_id : Nat, parameters : {ke.parameters},
             instance : KeyEventInstance \union {NoInstance}, next_attempt_id : Nat]
  /\ IsThresholdParameters(ke.parameters)

NewKeyEvent(epoch, domain, parameters) ==
  [epoch_id |-> epoch, domain_id |-> domain, parameters |-> parameters,
   instance |-> NoInstance, next_attempt_id |-> 0]

\* KeyEventInstance::active: a timed-out attempt counts as no attempt.
Active(ke) == ke.instance # NoInstance /\ ke.instance.left > 0

\* The leader is the participant with the lowest id.
IsLeader(ke, a) ==
  /\ a \in Members(ke.parameters)
  /\ \A b \in Members(ke.parameters) : ke.parameters.ids[a] <= ke.parameters.ids[b]

CanStart(ke, a, id) ==
  /\ ~Active(ke)
  /\ id = [epoch_id |-> ke.epoch_id, domain_id |-> ke.domain_id, attempt_id |-> ke.next_attempt_id]
  /\ IsLeader(ke, a)

\* The attempt is alive in the block that starts it and timeout_blocks more.
Start(ke, timeout_blocks) ==
  [ke EXCEPT !.instance = [attempt_id |-> ke.next_attempt_id, left |-> 1 + timeout_blocks,
                           completed |-> {}, public_key |-> NoKey],
             !.next_attempt_id = @ + 1]

VerifyVote(ke, a, id) ==
  /\ a \in Members(ke.parameters)
  /\ Active(ke)
  /\ id = [epoch_id |-> ke.epoch_id, domain_id |-> ke.domain_id, attempt_id |-> ke.instance.attempt_id]

\* A vote for another key than the one voted for so far ends the attempt,
\* whoever casts it.
Disagrees(ke, pk) == ke.instance.public_key \notin {NoKey, pk}

AlreadyVoted(ke, a) == ke.parameters.ids[a] \in ke.instance.completed

VoteSuccess(ke, a, pk) ==
  [ke EXCEPT !.instance.public_key = pk, !.instance.completed = @ \union {ke.parameters.ids[a]}]

\* Mutant of EveryoneVoted: threshold votes are taken for all votes.
ThresholdVoted(ke) == Cardinality(ke.instance.completed) = ke.parameters.threshold

EveryoneVoted(ke) == Cardinality(ke.instance.completed) = Size(ke.parameters)

DropInstance(ke) == [ke EXCEPT !.instance = NoInstance]

\* One block passes.
Age(ke) == [ke EXCEPT !.instance.left = @ - 1]
=============================================================================
