-------------------------- MODULE ContractProtocol --------------------------
(***************************************************************************)
(* The protocol state machine of the MPC contract: Running, Initializing   *)
(* (keys are generated for new domains) and Resharing (keys move to new    *)
(* parameters), with the attestations that decide who may take part.       *)
(*                                                                         *)
(* The three Rust state structs are laid out flat.  The variables of a     *)
(* RunningContractState also hold the previous_running_state of a          *)
(* ResharingContractState, and domains, epoch_id and generated_keys of an  *)
(* InitializingContractState; key_event is generating_key or               *)
(* resharing_key.  A call that returns an error or panics is rolled back   *)
(* by the chain, so it is simply not a step.                               *)
(***************************************************************************)
EXTENDS KeyEvent

CONSTANTS
  InitParameters,   \* threshold parameters the contract is initialised with
  InitialStates,    \* registries with keysets that init_running may be given
  Proposals,        \* threshold parameters that accounts may vote for
  Batches,          \* lists of new domains that accounts may vote for
  Submitters,       \* accounts that submit attestations, which may lapse
  KeyEventTimeoutBlocks,
  MaxEpoch,         \* bound: no resharing is begun beyond this epoch
  MaxAttempt        \* bound: no attempt is started beyond this id

FreshContract ==
  [domains |-> [list |-> <<>>, next_domain_id |-> 0], keyset |-> [epoch_id |-> 0, keys |-> <<>>]]

Keyset == [epoch_id : Nat, keys : Seq(KeyForDomain)]

\* DomainRegistry::from_raw_validated and the domain match of init_running.
CanInitRunning(s) ==
  LET list == s.domains.list IN
  /\ \A i, j \in 1 .. Len(list) : i < j => list[i].id < list[j].id
  /\ \A i \in 1 .. Len(list) : list[i].id < s.domains.next_domain_id
  /\ Len(s.keyset.keys) = Len(list)
  /\ \A i \in 1 .. Len(list) : s.keyset.keys[i].domain_id = list[i].id

ASSUME AccountsAssumption == IsFiniteSet(Accounts) /\ Submitters \subseteq Accounts

ASSUME InitAssumption ==
  /\ IsThresholdParameters(InitParameters)
  /\ Validate(InitParameters)
  /\ InitialStates \subseteq [domains : DomainRegistry, keyset : Keyset]
  /\ \A s \in InitialStates : CanInitRunning(s)

ASSUME InputAssumption ==
  /\ \A p \in Proposals : IsThresholdParameters(p)
  /\ Batches \subseteq Seq(DomainConfig)

ASSUME BoundsAssumption ==
  /\ KeyEventTimeoutBlocks \in Nat
  /\ MaxEpoch \in Nat
  /\ MaxAttempt \in Nat

VARIABLES
  phase,                   \* which ProtocolContractState it is
  domains,                 \* DomainRegistry
  keyset,                  \* the keys in use, in the order of domains
  parameters,              \* the current participants and threshold
  parameters_votes,        \* account -> the parameters it votes for
  add_domains_votes,       \* participant id -> the batch it votes for
  previously_cancelled,    \* previously_cancelled_resharing_epoch_id
  key_event,               \* the key generation or resharing under way
  reshared_keys,           \* keys already reshared in this resharing
  cancel_votes,            \* participant ids that vote to cancel the keygen
  cancellation_requests,   \* accounts that vote to cancel the resharing
  attestations,            \* what TeeState stores for the node of an account
  accept_requests,         \* whether requests and responses are served
  cleanups                 \* clean_tee_status promises still to be run

running == <<domains, keyset, parameters>>
votes   == <<parameters_votes, add_domains_votes, previously_cancelled>>
cancels == <<cancel_votes, cancellation_requests>>
tee     == <<attestations, accept_requests, cleanups>>
vars    == <<phase, running, votes, key_event, reshared_keys, cancels, tee>>

NoEpoch == -1

NoVotes == [x \in {} |-> x]

NoKeyEvent == [epoch_id |-> NoEpoch, domain_id |-> 0, parameters |-> InitParameters,
               instance |-> NoInstance, next_attempt_id |-> 0]

\* BTreeMap::insert.
Put(f, k, v) == [x \in DOMAIN f \union {k} |-> IF x = k THEN v ELSE f[x]]

\* AddDomainsVotes::get_remaining_votes.
RemainingVotes(f, p) == [i \in DOMAIN f \intersect Ids(p) |-> f[i]]

\* How many votes of the accounts or ids in S are for v.
NVotes(f, v, S) == Cardinality({x \in DOMAIN f \intersect S : f[x] = v})

\* A stored attestation that re-verifies.  The mocked one that init stores
\* for the initial participants never lapses.
ValidAttestation(a) == attestations[a] \in {"mock", "valid"}

\* The threshold parameters whose participants are active in this phase.
ActiveParameters == IF phase = "Running" THEN parameters ELSE key_event.parameters

\* assert_caller_is_attested_participant_and_protocol_active: an attestation
\* is stored, whether or not it would still verify.  That the entry is one for
\* the caller's account and TLS key is the subject of Attestations.
IsAttestedParticipant(a) == a \in Members(ActiveParameters) /\ attestations[a] # "none"

Init ==
  /\ phase = "Running"
  /\ \E s \in InitialStates \union {FreshContract} : domains = s.domains /\ keyset = s.keyset
  /\ parameters = InitParameters
  /\ parameters_votes = NoVotes
  /\ add_domains_votes = NoVotes
  /\ previously_cancelled = NoEpoch
  /\ key_event = NoKeyEvent
  /\ reshared_keys = <<>>
  /\ cancel_votes = {}
  /\ cancellation_requests = {}
  /\ attestations = [a \in Accounts |-> IF a \in Members(InitParameters) THEN "mock" ELSE "none"]
  /\ accept_requests = TRUE
  /\ cleanups = 0

(***************************************************************************)
(* Transitions between the three states.                                   *)
(***************************************************************************)

\* RunningContractState::new with the variables of the other states dropped.
BecomeRunning(registry, keys, params, domain_votes) ==
  /\ phase' = "Running"
  /\ domains' = registry
  /\ keyset' = keys
  /\ parameters' = params
  /\ parameters_votes' = NoVotes
  /\ add_domains_votes' = RemainingVotes(domain_votes, params)
  /\ previously_cancelled' = NoEpoch
  /\ key_event' = NoKeyEvent
  /\ reshared_keys' = <<>>
  /\ cancel_votes' = {}
  /\ cancellation_requests' = {}

\* A new ResharingContractState; the previous running state goes through
\* RunningContractState::new as well, which drops the votes it carried.
BecomeResharing(epoch, proposal) ==
  /\ phase' = "Resharing"
  /\ parameters_votes' = NoVotes
  /\ add_domains_votes' = RemainingVotes(add_domains_votes, parameters)
  /\ previously_cancelled' = NoEpoch
  /\ key_event' = NewKeyEvent(epoch, domains.list[1].id, proposal)
  /\ reshared_keys' = <<>>
  /\ cancellation_requests' = {}
  /\ UNCHANGED <<running, cancel_votes>>

\* Mutant of ProspectiveEpoch: the cancelled epoch is forgotten.
EpochAfterKeyset == IF phase = "Resharing" THEN key_event.epoch_id + 1 ELSE keyset.epoch_id + 1

\* RunningContractState::prospective_epoch_id, and in Resharing the epoch
\* that a re-proposal would move to.
ProspectiveEpoch ==
  IF phase = "Resharing" THEN key_event.epoch_id + 1
  ELSE IF previously_cancelled # NoEpoch THEN previously_cancelled + 1
  ELSE keyset.epoch_id + 1

\* Without any key there is nothing to reshare: the parameters change at once.
TransitionToResharingNoChecks(proposal) ==
  /\ ProspectiveEpoch <= MaxEpoch
  /\ IF Len(domains.list) > 0
     THEN BecomeResharing(ProspectiveEpoch, proposal)
     ELSE BecomeRunning(domains, [epoch_id |-> keyset.epoch_id + 1, keys |-> <<>>],
                        proposal, add_domains_votes)

(***************************************************************************)
(* Votes on the parameters and on new domains.                             *)
(***************************************************************************)

\* process_new_parameters_proposal up to the point where the vote is stored.
MayVoteForParameters(a, p) ==
  /\ ValidateIncomingProposal(parameters, p)
  /\ a \in Members(p)
  /\ \/ a \in Members(parameters)
     \/ NVotes(parameters_votes, p, Members(parameters)) >= parameters.threshold

\* The vote that every participant of the proposal has then cast moves the
\* contract on; in Resharing this is a re-proposal, which starts over.
VoteNewParameters(a, prospective_epoch_id, p) ==
  /\ phase \in {"Running", "Resharing"}
  /\ \A b \in Members(p) : ValidAttestation(b)
  /\ prospective_epoch_id = ProspectiveEpoch
  /\ MayVoteForParameters(a, p)
  /\ LET cast == Put(parameters_votes, a, p) IN
     IF NVotes(cast, p, Accounts) = Size(p)
     THEN TransitionToResharingNoChecks(p)
     ELSE /\ parameters_votes' = cast
          /\ UNCHANGED <<phase, running, add_domains_votes, previously_cancelled, key_event,
                         reshared_keys, cancels>>
  /\ UNCHANGED tee

VoteAddDomains(a, batch) ==
  /\ phase = "Running"
  /\ batch # <<>>
  /\ \A i \in 1 .. Len(batch) : IsValidSchemeForPurpose(batch[i].purpose, batch[i].scheme)
  /\ a \in Members(parameters)
  /\ LET cast == Put(add_domains_votes, parameters.ids[a], batch) IN
     IF NVotes(cast, batch, DOMAIN cast) = Size(parameters)
     THEN /\ CanAddDomains(domains, batch)
          /\ phase' = "Initializing"
          /\ domains' = AddDomains(domains, batch)
          /\ key_event' = NewKeyEvent(keyset.epoch_id, batch[1].id, parameters)
          /\ parameters_votes' = NoVotes
          /\ add_domains_votes' = NoVotes
          /\ previously_cancelled' = NoEpoch
          /\ UNCHANGED <<keyset, parameters>>
     ELSE /\ add_domains_votes' = cast
          /\ UNCHANGED <<phase, running, parameters_votes, previously_cancelled, key_event>>
  /\ UNCHANGED <<reshared_keys, cancels, tee>>

(***************************************************************************)
(* Attempts of the key event under way.                                    *)
(***************************************************************************)
OnlyKeyEventChanges == UNCHANGED <<phase, running, votes, reshared_keys, cancels, tee>>

StartInstance(in_phase, a, id) ==
  /\ phase = in_phase
  /\ IsAttestedParticipant(a)
  /\ CanStart(key_event, a, id)
  /\ id.attempt_id <= MaxAttempt
  /\ key_event' = Start(key_event, KeyEventTimeoutBlocks)
  /\ OnlyKeyEventChanges

StartKeygenInstance(a, id) == StartInstance("Initializing", a, id)

StartReshareInstance(a, id) == StartInstance("Resharing", a, id)

\* KeyEvent::vote_success returned false: the vote was counted, or it
\* disagreed and the attempt is gone.
VoteNotFinal(a, pk) ==
  \/ /\ Disagrees(key_event, pk)
     /\ key_event' = DropInstance(key_event)
  \/ /\ ~Disagrees(key_event, pk)
     /\ ~AlreadyVoted(key_event, a)
     /\ ~EveryoneVoted(VoteSuccess(key_event, a, pk))
     /\ key_event' = VoteSuccess(key_event, a, pk)

VoteFinal(a, pk) ==
  /\ ~Disagrees(key_event, pk)
  /\ ~AlreadyVoted(key_event, a)
  /\ EveryoneVoted(VoteSuccess(key_event, a, pk))

KeyFor(id, pk) == [domain_id |-> id.domain_id, key |-> pk, attempt |-> id.attempt_id]

VotePk(a, id, pk) ==
  /\ phase = "Initializing"
  /\ IsAttestedParticipant(a)
  /\ VerifyVote(key_event, a, id)
  /\ \/ VoteNotFinal(a, pk) /\ OnlyKeyEventChanges
     \/ /\ VoteFinal(a, pk)
        /\ LET generated == [keyset EXCEPT !.keys = Append(@, KeyFor(id, pk))]
               n         == Len(generated.keys)
           IN IF n < Len(domains.list)
              THEN /\ keyset' = generated
                   /\ key_event' = NewKeyEvent(keyset.epoch_id, domains.list[n + 1].id,
                                               key_event.parameters)
                   /\ UNCHANGED <<phase, domains, parameters, votes, reshared_keys, cancels>>
              ELSE BecomeRunning(domains, generated, key_event.parameters, NoVotes)
        /\ UNCHANGED tee

\* Mutant of PreviousKey: always the first one.
FirstKey == keyset.keys[1].key

\* The key that the previous running state has at the position being reshared.
PreviousKey == keyset.keys[Len(reshared_keys) + 1].key

\* Nodes vote for the resharing; the contract supplies the public key.
VoteReshared(a, id) ==
  /\ phase = "Resharing"
  /\ IsAttestedParticipant(a)
  /\ VerifyVote(key_event, a, id)
  /\ LET pk == PreviousKey IN
     \/ VoteNotFinal(a, pk) /\ OnlyKeyEventChanges
     \/ /\ VoteFinal(a, pk)
        /\ LET reshared == Append(reshared_keys, KeyFor(id, pk))
               n        == Len(reshared)
           IN IF n < Len(domains.list)
              THEN /\ reshared_keys' = reshared
                   /\ key_event' = NewKeyEvent(key_event.epoch_id, domains.list[n + 1].id,
                                               key_event.parameters)
                   /\ UNCHANGED <<phase, running, votes, cancels, cleanups>>
              ELSE /\ BecomeRunning(domains, [epoch_id |-> key_event.epoch_id, keys |-> reshared],
                                    key_event.parameters, add_domains_votes)
                   /\ cleanups' = cleanups + 1
        /\ UNCHANGED <<attestations, accept_requests>>

VoteAbortKeyEventInstance(a, id) ==
  /\ phase # "Running"
  /\ IsAttestedParticipant(a)
  /\ VerifyVote(key_event, a, id)
  /\ ~AlreadyVoted(key_event, a)
  /\ key_event' = DropInstance(key_event)
  /\ OnlyKeyEventChanges

\* A block is produced while an attempt is alive.
Tick ==
  /\ phase # "Running"
  /\ Active(key_event)
  /\ key_event' = Age(key_event)
  /\ OnlyKeyEventChanges

(***************************************************************************)
(* Cancellation.                                                           *)
(***************************************************************************)
VoteCancelKeygen(a, next_domain_id) ==
  /\ phase = "Initializing"
  /\ next_domain_id = domains.next_domain_id
  /\ a \in Members(key_event.parameters)
  /\ key_event.parameters.ids[a] \notin cancel_votes
  /\ LET cast == cancel_votes \union {key_event.parameters.ids[a]} IN
     IF Cardinality(cast) >= key_event.parameters.threshold
     THEN BecomeRunning(RetainDomains(domains, Len(keyset.keys)), keyset,
                        key_event.parameters, NoVotes)
     ELSE /\ cancel_votes' = cast
          /\ UNCHANGED <<phase, running, votes, key_event, reshared_keys, cancellation_requests>>
  /\ UNCHANGED tee

VoteCancelResharing(a) ==
  /\ phase = "Resharing"
  /\ a \in Members(parameters)
  /\ LET cast == cancellation_requests \union {a} IN
     IF Cardinality(cast) >= parameters.threshold
     THEN /\ phase' = "Running"
          /\ previously_cancelled' = key_event.epoch_id
          /\ key_event' = NoKeyEvent
          /\ reshared_keys' = <<>>
          /\ cancellation_requests' = {}
     ELSE /\ cancellation_requests' = cast
          /\ UNCHANGED <<phase, previously_cancelled, key_event, reshared_keys>>
  /\ UNCHANGED <<running, parameters_votes, add_domains_votes, cancel_votes, tee>>

(***************************************************************************)
(* Attestations.                                                           *)
(***************************************************************************)

\* A submission is stored only when it verifies.
SubmitParticipantInfo(a) ==
  /\ attestations' = [attestations EXCEPT ![a] = "valid"]
  /\ UNCHANGED <<phase, running, votes, key_event, reshared_keys, cancels, accept_requests, cleanups>>

\* Time passes or an image is no longer allowed: the stored attestation
\* would not re-verify.
AttestationLapses(a) ==
  /\ attestations[a] = "valid"
  /\ attestations' = [attestations EXCEPT ![a] = "lapsed"]
  /\ UNCHANGED <<phase, running, votes, key_event, reshared_keys, cancels, accept_requests, cleanups>>

\* With a valid attestation of at least threshold participants, but not of
\* all, the others are resharded out without any vote.
VerifyTee(a) ==
  /\ phase = "Running"
  /\ a \in Members(parameters)
  /\ LET valid == {b \in Members(parameters) : ValidAttestation(b)}
         kept  == RestrictTo(parameters, valid)
     IN \/ /\ valid = Members(parameters)
           /\ accept_requests' = TRUE
           /\ UNCHANGED <<phase, running, votes, key_event, reshared_keys, cancels>>
        \/ /\ valid # Members(parameters)
           /\ Cardinality(valid) < parameters.threshold
           /\ accept_requests' = FALSE
           /\ UNCHANGED <<phase, running, votes, key_event, reshared_keys, cancels>>
        \/ /\ valid # Members(parameters)
           /\ Cardinality(valid) >= parameters.threshold
           /\ ValidateIncomingProposal(parameters, kept)
           /\ accept_requests' = TRUE
           /\ TransitionToResharingNoChecks(kept)
  /\ UNCHANGED <<attestations, cleanups>>

RemoveAttestationsOfOthers ==
  attestations' = [a \in Accounts |-> IF a \in Members(parameters) THEN attestations[a] ELSE "none"]

\* Mutant of CleanTeeStatus: it also cleans while a resharing is under way.
CleanTeeStatusInAnyState ==
  /\ cleanups > 0
  /\ cleanups' = cleanups - 1
  /\ RemoveAttestationsOfOthers
  /\ UNCHANGED <<phase, running, votes, key_event, reshared_keys, cancels, accept_requests>>

\* A promise spawned by the last vote_reshared; it fails, and is not retried,
\* if the contract is no longer Running when it is executed.
CleanTeeStatus ==
  /\ cleanups > 0
  /\ cleanups' = cleanups - 1
  /\ IF phase = "Running" THEN RemoveAttestationsOfOthers ELSE UNCHANGED attestations
  /\ UNCHANGED <<phase, running, votes, key_event, reshared_keys, cancels, accept_requests>>

(***************************************************************************)
(* The specification.  The ids in a call are whatever the caller read      *)
(* from an earlier state of the contract.                                  *)
(***************************************************************************)
KeyEventCall(a, id) ==
  \/ StartKeygenInstance(a, id)
  \/ StartReshareInstance(a, id)
  \/ \E pk \in PublicKeys : VotePk(a, id, pk)
  \/ VoteReshared(a, id)
  \/ VoteAbortKeyEventInstance(a, id)

\* Everything but votes on parameters and on cancelling a resharing.
OtherNext ==
  \/ \E a \in Accounts, batch \in Batches : VoteAddDomains(a, batch)
  \/ \E a \in Accounts, e \in 0 .. MaxEpoch, n \in 0 .. MaxAttempt, d \in 0 .. domains.next_domain_id :
       KeyEventCall(a, [epoch_id |-> e, domain_id |-> d, attempt_id |-> n])
  \/ \E a \in Accounts, d \in 0 .. domains.next_domain_id : VoteCancelKeygen(a, d)
  \/ \E a \in Submitters : SubmitParticipantInfo(a)
  \/ \E a \in Submitters : AttestationLapses(a)
  \/ \E a \in Accounts : VerifyTee(a)
  \/ CleanTeeStatus
  \/ Tick

Next ==
  \/ \E a \in Accounts, e \in 0 .. MaxEpoch, p \in Proposals : VoteNewParameters(a, e, p)
  \/ \E a \in Accounts : VoteCancelResharing(a)
  \/ OtherNext

Spec == Init /\ [][Next]_vars

(***************************************************************************)
(* Properties.                                                             *)
(***************************************************************************)

\* Every variable has the type of its Rust field.
TypeOK ==
  /\ phase \in {"Running", "Initializing", "Resharing"}
  /\ domains \in DomainRegistry
  /\ keyset \in Keyset
  /\ IsThresholdParameters(parameters)
  /\ DOMAIN parameters_votes \subseteq Accounts
  /\ parameters_votes \in [DOMAIN parameters_votes -> Proposals]
  /\ DOMAIN add_domains_votes \subseteq Nat
  /\ add_domains_votes \in [DOMAIN add_domains_votes -> Batches]
  /\ previously_cancelled \in Nat \union {NoEpoch}
  /\ phase = "Running" => key_event = NoKeyEvent
  /\ phase # "Running" => IsKeyEvent(key_event)
  /\ reshared_keys \in Seq(KeyForDomain)
  /\ cancel_votes \subseteq Nat
  /\ cancellation_requests \subseteq Accounts
  /\ attestations \in [Accounts -> {"none", "mock", "valid", "lapsed"}]
  /\ accept_requests \in BOOLEAN
  /\ cleanups \in Nat

\* The keys in use belong to the registered domains, in order and one each;
\* while keys are being generated or reshared the finished ones are a prefix
\* and the key event is about the next domain.  Signing looks keys up by
\* domain, and vote_reshared indexes the previous keyset by position.  Domain
\* ids grow along the registry and stay below next_domain_id.
KeysFollowDomains ==
  LET list == domains.list IN
  /\ \A i, j \in 1 .. Len(list) : i < j => list[i].id < list[j].id
  /\ \A i \in 1 .. Len(list) : list[i].id < domains.next_domain_id
  /\ Len(keyset.keys) <= Len(list)
  /\ \A i \in 1 .. Len(keyset.keys) : keyset.keys[i].domain_id = list[i].id
  /\ phase # "Initializing" => Len(keyset.keys) = Len(list)
  /\ phase = "Initializing" =>
       /\ Len(keyset.keys) < Len(list)
       /\ key_event.domain_id = list[Len(keyset.keys) + 1].id
  /\ phase = "Resharing" =>
       /\ Len(reshared_keys) < Len(list)
       /\ key_event.domain_id = list[Len(reshared_keys) + 1].id
       /\ \A i \in 1 .. Len(reshared_keys) : /\ reshared_keys[i].domain_id = list[i].id
                                             /\ reshared_keys[i].key = keyset.keys[i].key

\* A resharing moves to an epoch above the one of the keys in use, and so
\* does the cancelled one that Running remembers; keys are generated within
\* the epoch in use.
EpochAhead ==
  /\ phase = "Resharing" => key_event.epoch_id > keyset.epoch_id
  /\ phase = "Initializing" => key_event.epoch_id = keyset.epoch_id
  /\ previously_cancelled # NoEpoch => previously_cancelled > keyset.epoch_id

\* What the contract reshares to is a valid proposal against the parameters
\* in use, whether it was voted in or decided by verify_tee: ids are stable
\* and unique and at least threshold old participants stay to reshare.  The
\* stored votes are for such proposals too and come from their participants.
ParametersValid ==
  /\ Validate(parameters)
  /\ phase = "Resharing" => ValidateIncomingProposal(parameters, key_event.parameters)
  /\ phase = "Initializing" => key_event.parameters = parameters
  /\ \A a \in DOMAIN parameters_votes : /\ a \in Members(parameters_votes[a])
                                        /\ ValidateIncomingProposal(parameters, parameters_votes[a])

\* Only participants of the set that a vote is about are ever counted, also
\* after the set has changed under stored votes.
VotesFromParticipants ==
  /\ DOMAIN add_domains_votes \subseteq Ids(parameters)
  /\ cancellation_requests \subseteq Members(parameters)
  /\ phase # "Running" => key_event.instance.completed \subseteq Ids(key_event.parameters)
  /\ phase = "Initializing" => cancel_votes \subseteq Ids(key_event.parameters)

\* Whoever is needed for a key event, now or after the resharing is
\* cancelled, has a stored attestation: without one it could neither start
\* nor vote, and a key event needs the vote of every participant.
ParticipantsAttested ==
  \A a \in Members(parameters) \union Members(ActiveParameters) : attestations[a] # "none"

\* The step keeps the public keys; a share is renamed only in a later epoch.
KeysStableStep ==
  /\ keyset'.epoch_id >= keyset.epoch_id
  /\ Len(keyset'.keys) >= Len(keyset.keys)
  /\ \A i \in 1 .. Len(keyset.keys) :
       /\ keyset'.keys[i].domain_id = keyset.keys[i].domain_id
       /\ keyset'.keys[i].key = keyset.keys[i].key
       /\ keyset'.epoch_id = keyset.epoch_id => keyset'.keys[i] = keyset.keys[i]

\* The public key of a domain never changes or disappears, and the share
\* behind it, named by epoch and attempt, is replaced only in a later epoch:
\* nodes find their key share by that name.
KeysStable == [][KeysStableStep]_vars

\* A domain that the step registers has a new id.
NewDomainIdsStep ==
  /\ domains'.next_domain_id >= domains.next_domain_id
  /\ \A i \in 1 .. Len(domains'.list) :
       \/ i <= Len(domains.list) /\ domains'.list[i] = domains.list[i]
       \/ domains'.list[i].id >= domains.next_domain_id

\* A domain that is registered by a step never has an id given out before,
\* not even to a domain that was deleted by a cancelled key generation.
DomainIdsNotReused == [][NewDomainIdsStep]_vars

\* The key shares that the contract vouches for, by the name nodes know them
\* under: those of the keyset in its epoch, and those of the resharing in its.
NamedKeys ==
  {<<keyset.epoch_id, keyset.keys[i]>> : i \in 1 .. Len(keyset.keys)}
    \union {<<key_event.epoch_id, reshared_keys[i]>> : i \in 1 .. Len(reshared_keys)}

\* A share that the step begins to vouch for is the one of the live attempt,
\* in which one participant's vote was missing.
NewKeysUnanimousStep ==
  \A named \in NamedKeys' \ NamedKeys :
    /\ Active(key_event)
    /\ named = <<key_event.epoch_id,
                 [domain_id |-> key_event.domain_id, key |-> key_event.instance.public_key,
                  attempt |-> key_event.instance.attempt_id]>>
    /\ Cardinality(Ids(key_event.parameters) \ key_event.instance.completed) = 1

\* A key enters the keyset, or a reshared key its list, only in the step in
\* which the last participant of the key event confirms the very key that
\* all others have confirmed in the same live attempt; and a finished resharing
\* brings nothing into use but what was confirmed in it, in its epoch.
NewKeysUnanimous == [][NewKeysUnanimousStep]_vars

\* The stored keys, the keys being generated or reshared, the key event and
\* the domain registry stay in step, and epochs only move ahead.
KeysInStep == TypeOK /\ KeysFollowDomains /\ EpochAhead

\* Parameters in use, proposed or being reshared to are valid, only their
\* participants count, and those can all vote.
ParametersSound == ParametersValid /\ VotesFromParticipants /\ ParticipantsAttested

\* Neither a key nor a domain id once given out is ever changed or reused.
KeyHistoryStable == KeysStable /\ DomainIdsNotReused
=============================================================================
