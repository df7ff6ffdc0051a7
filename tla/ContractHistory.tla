-------------------------- MODULE ContractHistory ---------------------------
(***************************************************************************)
(* The contract with two history variables that the properties about       *)
(* epochs speak of and that no step depends on.                            *)
(***************************************************************************)
EXTENDS ContractProtocol

VARIABLES
  cast_for,    \* account with a stored vote -> the epoch its call named
  abandoned    \* epochs of the resharings that were cancelled since the last key
               \* generation began

histvars == <<vars, cast_for, abandoned>>

HInit ==
  /\ Init
  /\ cast_for = NoVotes
  /\ abandoned = {}

\* Votes that the contract drops are dropped from the history too.
Kept(f) == [a \in DOMAIN f \intersect DOMAIN parameters_votes' |-> f[a]]

HNext ==
  \/ \E a \in Accounts, e \in 0 .. MaxEpoch, p \in Proposals :
       /\ VoteNewParameters(a, e, p)
       /\ cast_for' = Kept(Put(cast_for, a, e))
       /\ UNCHANGED abandoned
  \/ \E a \in Accounts :
       /\ VoteCancelResharing(a)
       /\ cast_for' = Kept(cast_for)
       /\ abandoned' = IF phase' = "Running" THEN abandoned \union {key_event.epoch_id} ELSE abandoned
  \/ /\ OtherNext
     /\ cast_for' = Kept(cast_for)
     /\ abandoned' = IF phase' = "Initializing" THEN {} ELSE abandoned

HSpec == HInit /\ [][HNext]_histvars

\* Every stored vote on parameters named the epoch that its completion would
\* now move to: a late vote, one carried through a cancelled resharing
\* included, never counts towards a proposal for another epoch.
VotesForProspectiveEpoch ==
  /\ DOMAIN cast_for = DOMAIN parameters_votes
  /\ \A a \in DOMAIN cast_for : cast_for[a] = ProspectiveEpoch

\* "we can't reuse a previously cancelled epoch id": no resharing runs under
\* the epoch of one that was cancelled, so no key event id is given to two
\* different attempts, until a key generation begins (RunningContractState::
\* new forgets the cancelled epoch).
NoCancelledEpochReused == phase = "Resharing" => key_event.epoch_id \notin abandoned

\* Stored votes and resharings are about an epoch that nobody has used.
EpochsSound == VotesForProspectiveEpoch /\ NoCancelledEpochReused

-----------------------------------------------------------------------------
(***************************************************************************)
(* The protocol state machine implements the key service: whatever votes,  *)
(* key events, cancellations and attestations do, the requests see keys    *)
(* that are never replaced or withdrawn, and someone who may answer.       *)
(***************************************************************************)

\* The keys by domain, with the purpose that the registry has for it.
ServedKeys ==
  {[domain_id |-> keyset.keys[i].domain_id, purpose |-> domains.list[i].purpose,
    key |-> keyset.keys[i].key] : i \in 1 .. Len(keyset.keys)}

Responders == {a \in Accounts : IsAttestedParticipant(a)}

Service == INSTANCE KeyService WITH keys <- ServedKeys, responders <- Responders

\* Every behaviour of the contract is one of the key service: a key is added
\* for a domain that has none or nothing happens to the keys, requests are
\* switched off only by verify_tee while Running, and there is always an
\* attested participant that may answer.
ImplementsKeyService == Service!ServiceSpec
=============================================================================
